--------------------------- MODULE CaMonitorTask ---------------------------
(***************************************************************************)
(* src/hub.rs: the MonitorHub and its run_subscription tasks.              *)
(*                                                                         *)
(* One task per Channel Access subscription follows its channel (connect,  *)
(* connect-timeout notice, subscribe, forward, disconnect, reconnect) and  *)
(* sends items into the hub's one bounded queue; Python drains it with     *)
(* recv_batch and steers the tasks through their control channels.  The    *)
(* channel, its connection events (a broadcast that drops its oldest when  *)
(* the task lags) and its monitor handle belong to the client library.     *)
(***************************************************************************)
EXTENDS Naturals, Sequences, SequencesExt

CONSTANTS
  Tasks,       (* subscription ids                                         *)
  Values,      (* subscribed with values=True                              *)
  Limited,     (* of these, the ones with a values_max_count ...           *)
  Large,       (* ... their channel's element count exceeds                *)
  Sized,       (* with count < 0: the element count is read                *)
  Deadlined,   (* with a connect_timeout                                   *)
  Notes,       (* other connection events, of "access" and "type"          *)
  LateAnswer,  (* the connection wait_connected answered may be gone       *)
  Queue,       (* capacity of the hub's queue, QUEUE in the code           *)
  EventCap,    (* capacity of the broadcast of connection events           *)
  MaxChanges,  (* bound: changes of one channel                            *)
  MaxCtrl      (* bound: pause and resume calls on one subscription        *)

ASSUME TaskAssumption ==
  /\ Values \subseteq Tasks /\ Limited \subseteq Values /\ Large \subseteq Limited
  /\ Sized \subseteq Values /\ Deadlined \subseteq Tasks
  /\ Notes \subseteq {"access", "type"} /\ LateAnswer \in BOOLEAN
  /\ Queue \in Nat \ {0} /\ EventCap \in Nat \ {0}
  /\ MaxChanges \in Nat /\ MaxCtrl \in Nat

VARIABLES
  chan,       \* chan[t]: the channel of t, "down", "up" or "gone"
  changes,    \* changes[t]: how often it changed (bounds the environment)
  events,     \* events[t]: connection events t has not received
  lagged,     \* lagged[t]: older ones were dropped
  answer,     \* answer[t]: wait_connected has answered
  fresh,      \* fresh[t]: the handle of t holds an update
  lost,       \* lost[t]: the handle of t holds a disconnect error
  phase,      \* phase[t]: where run_subscription is
  connected,  \* connected[t]: the task's local
  deadline,   \* deadline[t]: its timer is armed
  paused,     \* paused[t]: its local of phase 1
  handle,     \* handle[t]: "none", "running" or "paused"
  out,        \* out[t]: items t is sending, one await each
  ctrl,       \* ctrl[t]: the unbounded control channel
  steered,    \* steered[t]: pause and resume calls so far (history)
  subs,       \* keys of MonitorHub.subs
  open,       \* the hub's receiver exists
  queue,      \* the hub's queue, of [task, kind]
  sent        \* sent[t]: kinds t has put into the queue, in order (history)

chanVars == <<chan, changes, events, lagged, fresh, lost>>
taskVars == <<phase, connected, deadline, paused, handle, out>>
hubVars  == <<steered, subs, open, queue>>
vars == <<chanVars, answer, taskVars, ctrl, hubVars, sent>>

Kinds == {"value", "error", "timeout", "connected", "end", "disconnected", "access"}

-----------------------------------------------------------------------------
Init ==
  /\ chan \in [Tasks -> {"down", "up"}]
  /\ changes = [t \in Tasks |-> 0]
  /\ events = [t \in Tasks |-> <<>>]
  /\ lagged = [t \in Tasks |-> FALSE]
  /\ answer = [t \in Tasks |-> FALSE]
  /\ fresh = [t \in Tasks |-> FALSE]
  /\ lost = [t \in Tasks |-> FALSE]
  /\ phase = [t \in Tasks |-> "none"]
  /\ connected = [t \in Tasks |-> FALSE]
  /\ deadline = [t \in Tasks |-> FALSE]
  /\ paused = [t \in Tasks |-> FALSE]
  /\ handle = [t \in Tasks |-> "none"]
  /\ out = [t \in Tasks |-> <<>>]
  /\ ctrl = [t \in Tasks |-> <<>>]
  /\ steered = [t \in Tasks |-> <<>>]
  /\ subs = {}
  /\ open = TRUE
  /\ queue = <<>>
  /\ sent = [t \in Tasks |-> <<>>]

-----------------------------------------------------------------------------
(* The hub's methods                                                       *)

(* A closed hub still takes subscriptions; their sends fail.               *)
Subscribe(t) ==
  /\ phase[t] = "none"
  /\ phase' = [phase EXCEPT ![t] = "spawned"]
  /\ subs' = subs \cup {t}
  /\ UNCHANGED <<chanVars, answer, connected, deadline, paused, handle, out, ctrl, steered, open, queue, sent>>

(* pause and resume of an id no longer in the map do nothing.              *)
Steer(t, command) ==
  /\ t \in subs
  /\ Len(steered[t]) < MaxCtrl
  /\ steered' = [steered EXCEPT ![t] = Append(@, command)]
  /\ ctrl' = [ctrl EXCEPT ![t] = Append(@, command)]
  /\ UNCHANGED <<chanVars, answer, taskVars, subs, open, queue, sent>>

CloseSubscription(t) ==
  /\ t \in subs
  /\ subs' = subs \ {t}
  /\ ctrl' = [ctrl EXCEPT ![t] = Append(@, "close")]
  /\ UNCHANGED <<chanVars, answer, taskVars, steered, open, queue, sent>>

(* Clearing the map drops the control senders: recv then gives None, which *)
(* the tasks treat as Close.                                               *)
ClearSubs ==
  /\ subs # {}
  /\ subs' = {}
  /\ ctrl' = [t \in Tasks |-> IF t \in subs THEN Append(ctrl[t], "close") ELSE ctrl[t]]
  /\ UNCHANGED <<chanVars, answer, taskVars, steered, open, queue, sent>>

CloseDrain ==
  /\ open /\ subs = {}
  /\ open' = FALSE
  /\ queue' = <<>>
  /\ UNCHANGED <<chanVars, answer, taskVars, ctrl, steered, subs, sent>>

(* recv_batch: the first item and everything queued behind it.             *)
RecvBatch ==
  /\ open /\ queue # <<>>
  /\ queue' = <<>>
  /\ UNCHANGED <<chanVars, answer, taskVars, ctrl, steered, subs, open, sent>>

-----------------------------------------------------------------------------
(* The client library                                                      *)

Listening(t) == phase[t] \notin {"none", "spawned", "over"}

(* A broadcast to a full receiver drops its oldest event.                  *)
Broadcast(t, e) ==
  IF ~Listening(t)
  THEN UNCHANGED <<events, lagged>>
  ELSE IF Len(events[t]) < EventCap
  THEN events' = [events EXCEPT ![t] = Append(@, e)] /\ UNCHANGED lagged
  ELSE /\ events' = [events EXCEPT ![t] = Append(Tail(@), e)]
       /\ lagged' = [lagged EXCEPT ![t] = TRUE]

MayChange(t) == changes[t] < MaxChanges /\ changes' = [changes EXCEPT ![t] = @ + 1]

ChannelUp(t) ==
  /\ chan[t] = "down" /\ MayChange(t)
  /\ chan' = [chan EXCEPT ![t] = "up"]
  /\ fresh' = [fresh EXCEPT ![t] = handle[t] # "none"]
  /\ Broadcast(t, "connected")
  /\ UNCHANGED <<answer, lost, taskVars, ctrl, hubVars, sent>>

ChannelDown(t) ==
  /\ chan[t] = "up" /\ MayChange(t)
  /\ chan' = [chan EXCEPT ![t] = "down"]
  /\ lost' = [lost EXCEPT ![t] = handle[t] # "none"]
  /\ Broadcast(t, "disconnected")
  /\ UNCHANGED <<answer, fresh, taskVars, ctrl, hubVars, sent>>

(* Access rights or the native type change.                                *)
ChannelNotes(t, e) ==
  /\ chan[t] = "up" /\ MayChange(t)
  /\ Broadcast(t, e)
  /\ UNCHANGED <<chan, answer, fresh, lost, taskVars, ctrl, hubVars, sent>>

(* The context is shut down under the channel.                             *)
ChannelGone(t) ==
  /\ chan[t] # "gone" /\ MayChange(t)
  /\ chan' = [chan EXCEPT ![t] = "gone"]
  /\ UNCHANGED <<events, lagged, answer, fresh, lost, taskVars, ctrl, hubVars, sent>>

(* The server posts; a held update is replaced.                            *)
Update(t) ==
  /\ chan[t] = "up" /\ handle[t] # "none" /\ ~fresh[t] /\ MayChange(t)
  /\ fresh' = [fresh EXCEPT ![t] = TRUE]
  /\ UNCHANGED <<chan, answer, events, lagged, lost, taskVars, ctrl, hubVars, sent>>

WaitAnswers(t) ==
  /\ phase[t] = "waiting" /\ chan[t] \in {"up", "gone"} /\ ~answer[t]
  /\ answer' = [answer EXCEPT ![t] = TRUE]
  /\ UNCHANGED <<chanVars, taskVars, ctrl, hubVars, sent>>

-----------------------------------------------------------------------------
(* run_subscription.  A step is a stretch between two awaits: it sets the  *)
(* phase that follows the items it sends.                                  *)

At(t, p) == phase[t] = p /\ out[t] = <<>>

Sends(t, items) == out' = [out EXCEPT ![t] = items]

Goes(t, p) == phase' = [phase EXCEPT ![t] = p]

HasRoom == Len(queue) < Queue

(* send!: one item, when the queue has room.                               *)
Send(t) ==
  /\ out[t] # <<>> /\ open
  /\ HasRoom
  /\ queue' = Append(queue, [task |-> t, kind |-> Head(out[t])])
  /\ sent' = [sent EXCEPT ![t] = Append(@, Head(out[t]))]
  /\ out' = [out EXCEPT ![t] = Tail(@)]
  /\ UNCHANGED <<chanVars, answer, phase, connected, deadline, paused, handle, ctrl, steered, subs, open>>

(* The receiver is gone: the task returns.                                 *)
SendFails(t) ==
  /\ out[t] # <<>> /\ ~open
  /\ Sends(t, <<>>)
  /\ Goes(t, "over")
  /\ UNCHANGED <<chanVars, answer, connected, deadline, paused, handle, ctrl, hubVars, sent>>

(* Listen first, then probe.                                               *)
Listen(t) ==
  /\ At(t, "spawned")
  /\ Goes(t, "probing")
  /\ UNCHANGED <<chanVars, answer, connected, deadline, paused, handle, out, ctrl, hubVars, sent>>

(* The loop's timer is armed when the first item is sent.                  *)
Probe(t) ==
  /\ At(t, "probing")
  /\ connected' = [connected EXCEPT ![t] = chan[t] = "up"]
  /\ deadline' = [deadline EXCEPT ![t] = t \in Deadlined]
  /\ Sends(t, IF chan[t] = "up" THEN <<"connected">> ELSE <<>>)
  /\ Goes(t, "waiting")
  /\ UNCHANGED <<chanVars, answer, paused, handle, ctrl, hubVars, sent>>

Forward_Always(t, now) ==
  /\ connected' = [connected EXCEPT ![t] = now]
  /\ Sends(t, IF now THEN <<"connected">> ELSE <<"disconnected">>)

(* What a change to now has to tell.                                       *)
News(t, now) ==
  CASE now = connected[t]       -> <<>>
    [] now /\ ~connected[t]     -> <<"connected">>
    [] ~now /\ connected[t]     -> <<"disconnected">>

Forward_Unremembered(t, now) == Sends(t, News(t, now)) /\ UNCHANGED connected

(* Transitions only.                                                       *)
Forward(t, now) ==
  /\ connected' = [connected EXCEPT ![t] = now]
  /\ Sends(t, News(t, now))

(* forward_event!, for an event received in order ...                      *)
TakeEvent(t) ==
  /\ At(t, "waiting") \/ At(t, "forwarding")
  /\ ~lagged[t] /\ events[t] # <<>>
  /\ events' = [events EXCEPT ![t] = Tail(@)]
  /\ IF Head(events[t]) = "access"
     THEN Sends(t, <<"access">>) /\ UNCHANGED connected
     ELSE Forward(t, Head(events[t]) # "disconnected")
  /\ UNCHANGED <<chan, changes, lagged, fresh, lost, answer, phase, deadline, paused, handle, ctrl, hubVars, sent>>

Resync_Ignored(t) == UNCHANGED <<connected, out>>

Resync(t) == Forward(t, chan[t] = "up")

(* ... for the notice that some were dropped ...                           *)
TakeLagged(t) ==
  /\ At(t, "waiting") \/ At(t, "forwarding")
  /\ lagged[t]
  /\ lagged' = [lagged EXCEPT ![t] = FALSE]
  /\ Resync(t)
  /\ UNCHANGED <<chan, changes, events, fresh, lost, answer, phase, deadline, paused, handle, ctrl, hubVars, sent>>

(* ... and for the end of the events.                                      *)
TakeClosed(t) ==
  /\ At(t, "waiting") \/ At(t, "forwarding")
  /\ chan[t] = "gone" /\ ~lagged[t] /\ events[t] = <<>>
  /\ Sends(t, <<"end">>)
  /\ Goes(t, "over")
  /\ UNCHANGED <<chanVars, answer, connected, deadline, paused, handle, ctrl, hubVars, sent>>

(* Phase 1, the deadline.                                                  *)
Timeout(t) ==
  /\ At(t, "waiting") /\ deadline[t]
  /\ deadline' = [deadline EXCEPT ![t] = FALSE]
  /\ Sends(t, <<"timeout">>)
  /\ UNCHANGED <<chanVars, answer, phase, connected, paused, handle, ctrl, hubVars, sent>>

(* Phase 1, wait_connected: only on the way out of the loop is a Connected *)
(* the events did not bring sent.                                          *)
Connect(t) ==
  /\ At(t, "waiting") /\ answer[t]
  /\ chan[t] = "up" \/ (LateAnswer /\ chan[t] = "down")
  /\ Forward(t, TRUE)
  /\ Goes(t, "subscribing")
  /\ UNCHANGED <<chanVars, answer, deadline, paused, handle, ctrl, hubVars, sent>>

ConnectFails(t) ==
  /\ At(t, "waiting") /\ answer[t] /\ chan[t] = "gone"
  /\ Sends(t, <<"error", "end">>)
  /\ Goes(t, "over")
  /\ UNCHANGED <<chanVars, answer, connected, deadline, paused, handle, ctrl, hubVars, sent>>

(* Phase 2: the element count is known while the channel is up.            *)
WantsValues(t) ==
  /\ t \in Values
  /\ t \in Limited => chan[t] = "up" /\ t \notin Large

NoValues(t) ==
  /\ At(t, "subscribing") /\ ~WantsValues(t)
  /\ Goes(t, "forwarding")
  /\ UNCHANGED <<chanVars, answer, connected, deadline, paused, handle, out, ctrl, hubVars, sent>>

SubscribeCall(t) ==
  /\ At(t, "subscribing") /\ WantsValues(t)
  /\ IF t \in Sized /\ chan[t] # "up"
     THEN Goes(t, "over") /\ Sends(t, <<"error", "end">>)
     ELSE Goes(t, "opening") /\ UNCHANGED out
  /\ UNCHANGED <<chanVars, answer, connected, deadline, paused, handle, ctrl, hubVars, sent>>

NewHandle_Running(t) == "running"

(* A pause before the subscribe is remembered.                             *)
NewHandle(t) == IF paused[t] THEN "paused" ELSE "running"

(* The client answers the subscribe; an update follows at once if the      *)
(* channel is up, with its connection if not.                              *)
SubscribeReturns(t) ==
  /\ At(t, "opening")
  /\ IF chan[t] = "gone"
     THEN Goes(t, "over") /\ Sends(t, <<"error", "end">>) /\ UNCHANGED <<handle, fresh>>
     ELSE /\ Goes(t, "forwarding")
          /\ handle' = [handle EXCEPT ![t] = NewHandle(t)]
          /\ fresh' = [fresh EXCEPT ![t] = chan[t] = "up"]
          /\ UNCHANGED out
  /\ UNCHANGED <<chan, changes, events, lagged, lost, answer, connected, deadline, paused, ctrl, hubVars, sent>>

(* Phase 3, the handle: a paused one holds updates, not errors.            *)
TakeValue(t) ==
  /\ At(t, "forwarding") /\ handle[t] = "running" /\ fresh[t]
  /\ fresh' = [fresh EXCEPT ![t] = FALSE]
  /\ Sends(t, <<"value">>)
  /\ UNCHANGED <<chan, changes, events, lagged, lost, answer, phase, connected, deadline, paused, handle, ctrl, hubVars, sent>>

TakeError(t) ==
  /\ At(t, "forwarding") /\ lost[t]
  /\ lost' = [lost EXCEPT ![t] = FALSE]
  /\ Sends(t, <<"error">>)
  /\ UNCHANGED <<chan, changes, events, lagged, fresh, answer, phase, connected, deadline, paused, handle, ctrl, hubVars, sent>>

HandleEnds(t) ==
  /\ At(t, "forwarding") /\ handle[t] # "none" /\ chan[t] = "gone"
  /\ Sends(t, <<"end">>)
  /\ Goes(t, "over")
  /\ UNCHANGED <<chanVars, answer, connected, deadline, paused, handle, ctrl, hubVars, sent>>

Steered_Phase3(t) == At(t, "forwarding")

(* Phases 1 and 3 receive from the control channel.                        *)
Steered(t) == At(t, "waiting") \/ At(t, "forwarding")

TakeCommand(t) ==
  LET pausing == Head(ctrl[t]) = "pause"
  IN  /\ Steered(t)
      /\ ctrl[t] # <<>> /\ Head(ctrl[t]) # "close"
      /\ ctrl' = [ctrl EXCEPT ![t] = Tail(@)]
      /\ IF phase[t] = "waiting"
         THEN paused' = [paused EXCEPT ![t] = pausing] /\ UNCHANGED handle
         ELSE /\ handle' = [handle EXCEPT ![t] =
                   IF @ = "none" THEN @ ELSE IF pausing THEN "paused" ELSE "running"]
              /\ UNCHANGED paused
      /\ UNCHANGED <<chanVars, answer, phase, connected, deadline, out, hubVars, sent>>

TakeClose(t) ==
  /\ Steered(t)
  /\ ctrl[t] # <<>> /\ Head(ctrl[t]) = "close"
  /\ ctrl' = [ctrl EXCEPT ![t] = Tail(@)]
  /\ handle' = [handle EXCEPT ![t] = "none"]
  /\ Sends(t, <<"end">>)
  /\ Goes(t, "over")
  /\ UNCHANGED <<chanVars, answer, connected, deadline, paused, hubVars, sent>>

-----------------------------------------------------------------------------
Hub(t) ==
  \/ Subscribe(t) \/ CloseSubscription(t)
  \/ \E command \in {"pause", "resume"} : Steer(t, command)

Channel(t) ==
  \/ ChannelUp(t) \/ ChannelDown(t) \/ ChannelGone(t) \/ Update(t)
  \/ \E e \in Notes : ChannelNotes(t, e)

TaskStep(t) ==
  \/ Send(t) \/ SendFails(t) \/ Listen(t) \/ Probe(t)
  \/ TakeEvent(t) \/ TakeLagged(t) \/ TakeClosed(t)
  \/ Timeout(t) \/ Connect(t) \/ ConnectFails(t)
  \/ NoValues(t) \/ SubscribeCall(t) \/ SubscribeReturns(t)
  \/ TakeValue(t) \/ TakeError(t) \/ HandleEnds(t)
  \/ TakeCommand(t) \/ TakeClose(t)

Next ==
  \/ \E t \in Tasks : Hub(t) \/ Channel(t) \/ WaitAnswers(t) \/ TaskStep(t)
  \/ ClearSubs \/ CloseDrain \/ RecvBatch

Spec == Init /\ [][Next]_vars

(* The runtime polls every task, the client answers, the dispatcher drains *)
(* and a hub that is being closed gets closed.  select! picks among ready  *)
(* branches at random; nobody has to call or change anything.              *)
Fairness ==
  /\ \A t \in Tasks : WF_vars(TaskStep(t)) /\ WF_vars(WaitAnswers(t))
  /\ WF_vars(RecvBatch)

FairSpec == Spec /\ Fairness

-----------------------------------------------------------------------------
Commands == {"pause", "resume", "close"}
Events   == {"connected", "disconnected", "access", "type"}
Phases   == {"none", "spawned", "probing", "waiting", "subscribing", "opening",
             "forwarding", "over"}

(* Shape of the state; the bounded queue stays bounded.                    *)
TypeOK ==
  /\ chan \in [Tasks -> {"down", "up", "gone"}]
  /\ changes \in [Tasks -> 0..MaxChanges]
  /\ events \in [Tasks -> Seq(Events)]
  /\ \A t \in Tasks : Len(events[t]) <= EventCap
  /\ {lagged, answer, fresh, lost} \subseteq [Tasks -> BOOLEAN]
  /\ {connected, deadline, paused} \subseteq [Tasks -> BOOLEAN]
  /\ phase \in [Tasks -> Phases]
  /\ handle \in [Tasks -> {"none", "running", "paused"}]
  /\ out \in [Tasks -> Seq(Kinds)]
  /\ ctrl \in [Tasks -> Seq(Commands)]
  /\ steered \in [Tasks -> Seq({"pause", "resume"})]
  /\ subs \subseteq Tasks
  /\ open \in BOOLEAN
  /\ queue \in Seq([task: Tasks, kind: Kinds])
  /\ Len(queue) <= Queue
  /\ sent \in [Tasks -> Seq(Kinds)]

(* The connection items among the first n left Python with a connection.   *)
ToldUp(s, n) ==
  \E i \in 1..n : s[i] = "connected" /\ \A j \in (i + 1)..n : s[j] # "disconnected"

(* What Python can rely on in the stream of one subscription: connection   *)
(* items alternate, Connected first; a value or a disconnection comes      *)
(* after a Connected; End is the last item, and only End is (lines         *)
(* 105-107, 178-187, 407-408).                                             *)
ItemOrder ==
  TypeOK /\ \A t \in Tasks :
    LET s == sent[t]
    IN  \A i \in DOMAIN s :
          /\ s[i] = "connected" => ~ToldUp(s, i - 1)
          /\ s[i] = "disconnected" => ToldUp(s, i - 1)
          /\ s[i] = "value" => \E j \in 1..(i - 1) : s[j] = "connected"
          /\ s[i] = "end" => i = Len(s) /\ phase[t] = "over" /\ out[t] = <<>>

Idle(t) ==
  /\ At(t, "waiting") \/ At(t, "forwarding")
  /\ events[t] = <<>> /\ ~lagged[t] /\ chan[t] # "gone"

(* However the connection state was learned (the probe, wait_connected,    *)
(* the events, the resync after a lag), a task that has caught up with its *)
(* channel has told Python the state the channel is in.                    *)
StateTold ==
  \A t \in Tasks :
    Idle(t) => (chan[t] = "up" <=> ToldUp(sent[t], Len(sent[t])))

(* A pause or resume, given before or while or after the task subscribes,  *)
(* is not lost: with all of them read, the handle is in the state the last *)
(* one asked for.                                                          *)
PauseKept ==
  \A t \in Tasks :
    At(t, "forwarding") /\ handle[t] # "none" /\ ctrl[t] = <<>> =>
      (handle[t] = "paused" <=> steered[t] # <<>> /\ Last(steered[t]) = "pause")

(* A closed subscription's task ends, with its End sent while the hub is   *)
(* open, whatever it was waiting for; a closed hub ends them all.          *)
EventuallyEnds ==
  \A t \in Tasks :
    (phase[t] # "none" /\ t \notin subs) ~>
      /\ phase[t] = "over" /\ out[t] = <<>>
      /\ open => sent[t] # <<>> /\ Last(sent[t]) = "end"

(* A subscription whose channel ends up connected ends up following it:    *)
(* told so, monitoring (unless its array is too large), nothing held back  *)
(* but by a pause.                                                         *)
EventuallyFollows ==
  \A t \in Tasks :
    <>[](t \in subs /\ open /\ chan[t] = "up") =>
      <>[](/\ phase[t] = "forwarding" /\ connected[t]
           /\ t \in Values \ Large => handle[t] # "none"
           /\ fresh[t] => handle[t] = "paused")
=============================================================================
