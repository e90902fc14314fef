----------------------------- MODULE Dispatcher -----------------------------
(***************************************************************************)
(* src/python/repics/_monitor.py, with the channel cache's subscriber      *)
(* count of _context.py and the _deliver of both flavours of repics.ca:    *)
(* one drain (a daemon thread, or a task on an asyncio loop) takes batches *)
(* of a hub's items, collapses them, and calls the subscribers back, while *)
(* other threads, or other coroutines of the loop, create and close        *)
(* subscriptions.                                                          *)
(*                                                                         *)
(* The hub is an environment: any subscription open in it may queue an     *)
(* item.  The k-th item queued is modelled as the number k; arrived[k]     *)
(* says whose it is and of what kind.                                      *)
(***************************************************************************)
EXTENDS Integers, Sequences, FiniteSets, SequencesExt

CONSTANTS
  Subs,        (* the subscriptions created, all on one channel name       *)
  AllUpdates,  (* those made with all_updates=True                         *)
  Flavour,     (* "thread": repics.ca, "loop": repics.ca.asyncio           *)
  MayHappen,   (* optional behaviours of the environment, see Optional     *)
  HubKinds,    (* the kinds of items the hub sends, of Kinds               *)
  MaxItems     (* bound: items the hub queues                              *)

(* raise: a callback raises; escape: it raises what "except Exception"     *)
(* lets through (CancelledError, SystemExit); hook: an on_connection hook  *)
(* raises; refuse: hub.subscribe raises, its arguments being out of range; *)
(* purge: purge_channel_caches; shutdown: interpreter exit, or the loop    *)
(* closes.                                                                 *)
Optional == {"raise", "escape", "hook", "refuse", "purge", "shutdown"}

(* error stands for KIND_ERROR and KIND_CONNECT_TIMEOUT, disconnected also *)
(* for KIND_ACCESS_RIGHTS.                                                 *)
Kinds == {"value", "error", "connected", "disconnected", "end"}

(* Who may be in the middle of a _mark_closed.                             *)
Closers == {"owner", "drain", "shutdown"}

None == "none"

ASSUME DispatcherAssumption ==
  /\ IsFiniteSet(Subs) /\ None \notin Subs
  /\ AllUpdates \subseteq Subs
  /\ Flavour \in {"thread", "loop"}
  /\ MayHappen \subseteq Optional
  /\ HubKinds \subseteq Kinds
  /\ MaxItems \in Nat

VARIABLES
  maker,      \* maker[s]: where the constructor of s is
  closer,     \* closer[s]: where close() of s is
  state,      \* state[s]: SubscriptionBase.state
  subs,       \* ids in Dispatcher.subs
  lockedBy,   \* the subscription whose add() holds Dispatcher.lock, or none
  cached,     \* the channel cache has an _Entry
  count,      \* its subscribers
  uncounted,  \* <<s, who>>: who marked s closed and has not counted it down
  hubSubs,    \* ids in the hub's map
  hubOpen,    \* the hub is not closed
  queue,      \* the hub's queue of item numbers
  arrived,    \* arrived[k]: whose the k-th item is, and its kind (history)
  pc,         \* where the drain is
  batch,      \* what recv_batch returned
  todo,       \* what plan() returned and was not dispatched yet
  current,    \* the item _event or _deliver is busy with, or 0
  dropped,    \* dropped[s]: dropped_callbacks
  seen,       \* seen[s]: items _event applied, in order (history)
  called,     \* items whose callback was started, in order (history)
  reopened,   \* whose CLOSED the drain overwrote with OPEN, in order (history)
  stopping    \* where shutdown() is, the subscriptions left, the marked one

ownerVars == <<maker, closer>>
subVars   == <<state, subs, lockedBy, cached, count, uncounted>>
hubVars   == <<hubSubs, hubOpen, queue, arrived>>
drainVars == <<pc, batch, todo, current, dropped>>
histVars  == <<seen, called, reopened>>
vars == <<ownerVars, subVars, hubVars, drainVars, histVars, stopping>>

Sub(k)  == arrived[k].sub
Kind(k) == arrived[k].kind

(* With an asyncio loop all Python code runs on the loop's thread: owners  *)
(* run while the drain awaits, and run to their own next await.            *)
OwnersRun == Flavour = "thread" \/ pc \in {"off", "recv", "callback", "exited", "dead"}
MidCall   == \/ \E s \in Subs : maker[s] \notin {"new", "made", "refused"} \/ closer[s] = "marked"
             \/ stopping.at = "marking"

DrainRuns == Flavour = "thread" \/ ~MidCall

Init ==
  /\ maker = [s \in Subs |-> "new"]
  /\ closer = [s \in Subs |-> "no"]
  /\ state = [s \in Subs |-> "opening"]
  /\ subs = {}
  /\ lockedBy = None
  /\ cached = FALSE
  /\ count = 0
  /\ uncounted = {}
  /\ hubSubs = {}
  /\ hubOpen = TRUE
  /\ queue = <<>>
  /\ arrived = <<>>
  /\ pc = "off"
  /\ batch = <<>>
  /\ todo = <<>>
  /\ current = 0
  /\ dropped = [s \in Subs |-> 0]
  /\ seen = [s \in Subs |-> <<>>]
  /\ called = <<>>
  /\ reopened = <<>>
  /\ stopping = [at |-> "no", left |-> {}, sub |-> None]

-----------------------------------------------------------------------------
(* The constructor: channel() and add_subscriber, Dispatcher.add, then the *)
(* assignment of self.id.                                                  *)

GetChannel(s) ==
  /\ OwnersRun /\ maker[s] = "new"
  /\ Flavour = "loop" => ~MidCall
  /\ cached' = TRUE
  /\ count' = IF cached THEN count ELSE 0
  /\ maker' = [maker EXCEPT ![s] = "cached"]
  /\ UNCHANGED <<closer, state, subs, lockedBy, uncounted, hubVars, drainVars, histVars, stopping>>

(* Without an entry add_subscriber does nothing.                           *)
Counted(delta) == count' = IF cached THEN count + delta ELSE count

CountUp(s) ==
  /\ maker[s] = "cached"
  /\ Counted(1)
  /\ maker' = [maker EXCEPT ![s] = "counted"]
  /\ UNCHANGED <<closer, state, subs, lockedBy, cached, uncounted, hubVars, drainVars, histVars, stopping>>

(* add: hub.subscribe under the lock, ...                                  *)
HubSubscribe(s) ==
  /\ maker[s] = "counted"
  /\ lockedBy = None
  /\ lockedBy' = s
  /\ hubSubs' = hubSubs \cup {s}
  /\ maker' = [maker EXCEPT ![s] = "adding"]
  /\ UNCHANGED <<closer, state, subs, cached, count, uncounted, hubOpen, queue, arrived, drainVars, histVars, stopping>>

(* ... or the constructor ends there, with the subscriber counted, ...     *)
HubRefuses(s) ==
  /\ "refuse" \in MayHappen
  /\ maker[s] = "counted"
  /\ lockedBy = None
  /\ maker' = [maker EXCEPT ![s] = "refused"]
  /\ UNCHANGED <<closer, subVars, hubVars, drainVars, histVars, stopping>>

(* ... the registration under the same lock, ...                           *)
Register(s) ==
  /\ maker[s] = "adding"
  /\ lockedBy' = None
  /\ subs' = subs \cup {s}
  /\ maker' = [maker EXCEPT ![s] = "added"]
  /\ UNCHANGED <<closer, state, cached, count, uncounted, hubVars, drainVars, histVars, stopping>>

(* ... and started().                                                      *)
Started(s) ==
  /\ maker[s] = "added"
  /\ lockedBy = None
  /\ pc' = IF pc = "off" THEN "recv" ELSE pc
  /\ maker' = [maker EXCEPT ![s] = "started"]
  /\ UNCHANGED <<closer, subVars, hubVars, batch, todo, current, dropped, histVars, stopping>>

SetId(s) ==
  /\ maker[s] = "started"
  /\ maker' = [maker EXCEPT ![s] = "made"]
  /\ UNCHANGED <<closer, subVars, hubVars, drainVars, histVars, stopping>>

HasId(s) == maker[s] = "made"

-----------------------------------------------------------------------------
(* _mark_closed flips the state in a stretch the interpreter does not      *)
(* leave, and the one call that flipped it counts down after that.         *)
Flip_Unchecked(s, who) ==
  /\ state' = [state EXCEPT ![s] = "closed"]
  /\ uncounted' = uncounted \cup {<<s, who>>}

Flip(s, who) ==
  /\ state' = [state EXCEPT ![s] = "closed"]
  /\ uncounted' = IF state[s] = "closed" THEN uncounted ELSE uncounted \cup {<<s, who>>}

CountDown(s, who) ==
  /\ <<s, who>> \in uncounted
  /\ Counted(-1)
  /\ uncounted' = uncounted \ {<<s, who>>}
  /\ UNCHANGED <<ownerVars, state, subs, lockedBy, cached, hubVars, drainVars, histVars, stopping>>

(* The rest of a close of s: Dispatcher.remove.                            *)
RemoveSub(s, who) ==
  /\ <<s, who>> \notin uncounted
  /\ lockedBy = None
  /\ subs' = subs \ {s}
  /\ hubSubs' = hubSubs \ {s}

(* close(): an owner's call, in two steps; it may be called again.         *)
CloseMark(s) ==
  /\ OwnersRun /\ HasId(s) /\ closer[s] # "marked"
  /\ Flavour = "loop" => ~MidCall
  /\ closer' = [closer EXCEPT ![s] = IF state[s] = "closed" THEN "returned" ELSE "marked"]
  /\ Flip(s, "owner")
  /\ UNCHANGED <<maker, subs, lockedBy, cached, count, hubVars, drainVars, histVars, stopping>>

CloseRemove(s) ==
  /\ closer[s] = "marked"
  /\ RemoveSub(s, "owner")
  /\ closer' = [closer EXCEPT ![s] = "returned"]
  /\ UNCHANGED <<maker, state, lockedBy, cached, count, uncounted, hubOpen, queue, arrived, drainVars, histVars, stopping>>

(* purge_channel_caches.                                                   *)
Purge ==
  /\ "purge" \in MayHappen /\ OwnersRun /\ cached
  /\ cached' = FALSE
  /\ UNCHANGED <<ownerVars, state, subs, lockedBy, count, uncounted, hubVars, drainVars, histVars, stopping>>

-----------------------------------------------------------------------------
(* The hub queues an item of an open subscription; what it may be follows  *)
(* from the last connection item.                                          *)
Link(s) ==
  LET links == {k \in DOMAIN arrived : Sub(k) = s /\ Kind(k) \notin {"value", "error"}}
  IN  IF links = {} THEN "disconnected" ELSE Kind(Max(links))

Legal(s, kind) ==
  CASE kind \in {"value", "disconnected"} -> Link(s) = "connected"
    [] kind = "connected"               -> Link(s) = "disconnected"
    [] kind \in {"error", "end"}        -> Link(s) # "end"

Arrive(s, kind) ==
  /\ hubOpen /\ s \in hubSubs
  /\ Len(arrived) < MaxItems
  /\ Legal(s, kind)
  /\ arrived' = Append(arrived, [sub |-> s, kind |-> kind])
  /\ queue' = Append(queue, Len(arrived) + 1)
  /\ UNCHANGED <<ownerVars, subVars, hubSubs, hubOpen, drainVars, histVars, stopping>>

-----------------------------------------------------------------------------
(* The drain                                                               *)

Recv ==
  /\ DrainRuns /\ pc = "recv"
  /\ IF hubOpen
     THEN /\ queue # <<>>
          /\ batch' = queue
          /\ queue' = <<>>
          /\ pc' = "plan"
     ELSE pc' = "exited" /\ UNCHANGED <<batch, queue>>
  /\ UNCHANGED <<ownerVars, subVars, hubSubs, hubOpen, arrived, todo, current, dropped, histVars, stopping>>

Collapse_OverEvents(acc, s) == acc

(* An item that is delivered as it stands ends the run of values.          *)
Collapse(acc, s) == [acc EXCEPT !.at[s] = 0]

(* A newer value takes the slot of the one it overtakes.                   *)
Overtake(acc, s, k) == [acc EXCEPT !.out[acc.at[s]] = k, !.drops[s] = @ + 1]

(* One round of plan()'s loop; at[s] is last_value.get(s), 0 for None.     *)
PlanItem(acc, k) ==
  LET s == Sub(k)
  IN  CASE s \notin subs -> acc
        [] s \in subs /\ Kind(k) = "value" /\ s \notin AllUpdates /\ acc.at[s] # 0 ->
             Overtake(acc, s, k)
        [] s \in subs /\ Kind(k) = "value" /\ s \notin AllUpdates /\ acc.at[s] = 0 ->
             [acc EXCEPT !.out = Append(@, k), !.at[s] = Len(acc.out) + 1]
        [] OTHER ->
             [Collapse(acc, s) EXCEPT !.out = Append(@, k)]

Nothing == [out |-> <<>>, at |-> [s \in Subs |-> 0], drops |-> [s \in Subs |-> 0]]

Planned(b) ==
  LET upto[n \in 0..Len(b)] == IF n = 0 THEN Nothing ELSE PlanItem(upto[n - 1], b[n])
  IN  upto[Len(b)]

LockFree == lockedBy = None

Plan ==
  LET p == Planned(batch)
  IN  /\ DrainRuns /\ pc = "plan"
      /\ LockFree
      /\ todo' = p.out
      /\ dropped' = [s \in Subs |-> dropped[s] + p.drops[s]]
      /\ batch' = <<>>
      /\ pc' = IF p.out = <<>> THEN "recv" ELSE "dispatch"
      /\ UNCHANGED <<ownerVars, subVars, hubVars, current, histVars, stopping>>

Live_Always(s) == TRUE

(* The check _event starts with.                                           *)
Live(s) == state[s] # "closed"

(* Where the drain is after an item, rest being left of the batch.         *)
Resume_DropsRest(rest) == "recv"

Resume(rest) == IF rest = <<>> THEN "recv" ELSE "dispatch"

(* _event of an item of a closed subscription.                             *)
EventClosed ==
  LET s == Sub(Head(todo))
  IN  /\ DrainRuns /\ pc = "dispatch"
      /\ ~Live(s)
      /\ todo' = Tail(todo)
      /\ pc' = Resume(Tail(todo))
      /\ UNCHANGED <<ownerVars, subVars, hubVars, batch, current, dropped, histVars, stopping>>

Applied(k) == seen' = [seen EXCEPT ![Sub(k)] = Append(@, k)]

(* _event of a value or an error.  The loop's drain runs on into the       *)
(* callback; the thread may be switched out before it starts.              *)
EventDelivered ==
  LET k == Head(todo)
  IN  /\ DrainRuns /\ pc = "dispatch"
      /\ Live(Sub(k)) /\ Kind(k) \in {"value", "error"}
      /\ current' = k
      /\ todo' = Tail(todo)
      /\ IF Flavour = "loop"
         THEN pc' = "callback" /\ called' = Append(called, k)
         ELSE pc' = "deliver" /\ UNCHANGED called
      /\ Applied(k)
      /\ UNCHANGED <<ownerVars, subVars, hubVars, batch, dropped, reopened, stopping>>

(* What _event has left to do once it found a subscription not closed.     *)
Handled(kind) ==
  CASE kind = "connected" -> "noting" [] kind = "disconnected" -> "hook" [] kind = "end" -> "marking"

(* _event of a connection change or of the hub task's End, up to its first *)
(* call: a thread may be switched out there.                               *)
EventChecked ==
  LET k == Head(todo)
  IN  /\ DrainRuns /\ pc = "dispatch"
      /\ Live(Sub(k)) /\ Kind(k) \in {"connected", "disconnected", "end"}
      /\ current' = k
      /\ todo' = Tail(todo)
      /\ pc' = Handled(Kind(k))
      /\ Applied(k)
      /\ UNCHANGED <<ownerVars, subVars, hubVars, batch, dropped, called, reopened, stopping>>

(* note_connected makes the cache entry again if it was purged.            *)
NoteConnected ==
  /\ pc = "noting"
  /\ cached' = TRUE
  /\ count' = IF cached THEN count ELSE 0
  /\ pc' = "opening"
  /\ UNCHANGED <<ownerVars, state, subs, lockedBy, uncounted, hubVars, batch, todo, current, dropped, histVars, stopping>>

(* The assignment of OPEN, whatever the state is by now.                   *)
SetOpen ==
  LET s == Sub(current)
  IN  /\ pc = "opening"
      /\ state' = [state EXCEPT ![s] = "open"]
      /\ reopened' = IF state[s] = "closed" THEN Append(reopened, s) ELSE reopened
      /\ pc' = "hook"
      /\ UNCHANGED <<ownerVars, subs, lockedBy, cached, count, uncounted, hubVars, batch, todo, current, dropped, seen, called, stopping>>

HookReturns ==
  /\ pc = "hook"
  /\ pc' = Resume(todo)
  /\ current' = 0
  /\ UNCHANGED <<ownerVars, subVars, hubVars, batch, todo, dropped, histVars, stopping>>

(* An exception nobody catches ends the drain.  A thread just ends; the    *)
(* finally clause of a task shuts the dispatcher down.                     *)
Die ==
  /\ pc' = "dead"
  /\ IF Flavour = "loop"
     THEN subs' = {} /\ stopping' = [stopping EXCEPT !.at = "marking", !.left = subs]
     ELSE UNCHANGED <<subs, stopping>>

HookRaises ==
  /\ "hook" \in MayHappen
  /\ pc = "hook"
  /\ Die
  /\ current' = 0
  /\ UNCHANGED <<ownerVars, state, lockedBy, cached, count, uncounted, hubVars, batch, todo, dropped, histVars>>

(* _mark_closed for End.                                                   *)
EndMark ==
  /\ pc = "marking"
  /\ Flip(Sub(current), "drain")
  /\ pc' = "ending"
  /\ UNCHANGED <<ownerVars, subs, lockedBy, cached, count, hubVars, batch, todo, current, dropped, histVars, stopping>>

(* remove(self.id) by the drain: the constructor may not have assigned the *)
(* id yet, which is an AttributeError.                                     *)
EndRemove ==
  /\ pc = "ending" /\ HasId(Sub(current))
  /\ RemoveSub(Sub(current), "drain")
  /\ pc' = Resume(todo)
  /\ current' = 0
  /\ UNCHANGED <<ownerVars, state, lockedBy, cached, count, uncounted, hubOpen, queue, arrived, batch, todo, dropped, histVars, stopping>>

EndRaises ==
  /\ pc = "ending" /\ ~HasId(Sub(current))
  /\ <<Sub(current), "drain">> \notin uncounted
  /\ Die
  /\ current' = 0
  /\ UNCHANGED <<ownerVars, state, lockedBy, cached, count, uncounted, hubVars, batch, todo, dropped, histVars>>

Deliver ==
  /\ pc = "deliver"
  /\ pc' = "callback"
  /\ called' = Append(called, current)
  /\ UNCHANGED <<ownerVars, subVars, hubVars, batch, todo, current, dropped, seen, reopened, stopping>>

CallbackReturns ==
  /\ DrainRuns /\ pc = "callback"
  /\ pc' = Resume(todo)
  /\ current' = 0
  /\ UNCHANGED <<ownerVars, subVars, hubVars, batch, todo, dropped, histVars, stopping>>

CallbackRaises ==
  /\ "raise" \in MayHappen
  /\ DrainRuns /\ pc = "callback"
  /\ Flip(Sub(current), "drain")
  /\ IF Live(Sub(current))
     THEN pc' = "ending" /\ UNCHANGED current
     ELSE pc' = Resume(todo) /\ current' = 0
  /\ UNCHANGED <<ownerVars, subs, lockedBy, cached, count, hubVars, batch, todo, dropped, histVars, stopping>>

(* Neither _deliver nor _run catches it.                                   *)
CallbackEscapes ==
  /\ "escape" \in MayHappen
  /\ DrainRuns /\ pc = "callback"
  /\ Die
  /\ current' = 0
  /\ UNCHANGED <<ownerVars, state, lockedBy, cached, count, uncounted, hubVars, batch, todo, dropped, histVars>>

-----------------------------------------------------------------------------
(* shutdown(), from another thread or by the cancellation of the task.     *)

ShutdownClear ==
  /\ "shutdown" \in MayHappen /\ stopping.at = "no"
  /\ IF Flavour = "loop"
     THEN pc \in {"recv", "callback"} /\ ~MidCall /\ pc' = "exited"
     ELSE UNCHANGED pc
  /\ lockedBy = None
  /\ stopping' = [stopping EXCEPT !.at = "marking", !.left = subs]
  /\ subs' = {}
  /\ UNCHANGED <<ownerVars, state, lockedBy, cached, count, uncounted, hubVars, batch, todo, current, dropped, histVars>>

MarkedCounted == <<stopping.sub, "shutdown">> \notin uncounted

ShutdownMark ==
  /\ stopping.at = "marking"
  /\ MarkedCounted
  /\ \E s \in stopping.left :
       /\ Flip(s, "shutdown")
       /\ stopping' = [stopping EXCEPT !.left = @ \ {s}, !.sub = s]
  /\ UNCHANGED <<ownerVars, subs, lockedBy, cached, count, hubVars, drainVars, histVars>>

ShutdownHub ==
  /\ stopping.at = "marking" /\ stopping.left = {} /\ MarkedCounted
  /\ hubSubs' = {}
  /\ hubOpen' = FALSE
  /\ queue' = <<>>
  /\ stopping' = [stopping EXCEPT !.at = "done"]
  /\ UNCHANGED <<ownerVars, subVars, arrived, drainVars, histVars>>

-----------------------------------------------------------------------------
Construct(s) ==
  \/ GetChannel(s) \/ CountUp(s) \/ HubSubscribe(s) \/ HubRefuses(s)
  \/ Register(s) \/ Started(s) \/ SetId(s)

Event ==
  \/ EventClosed \/ EventDelivered \/ EventChecked
  \/ NoteConnected \/ SetOpen \/ HookReturns \/ HookRaises
  \/ EndMark \/ EndRemove \/ EndRaises

Callback == Deliver \/ CallbackReturns \/ CallbackRaises \/ CallbackEscapes

Drain == Recv \/ Plan \/ Event \/ Callback

Shutdown == ShutdownClear \/ ShutdownMark \/ ShutdownHub

Next ==
  \/ \E s \in Subs : Construct(s) \/ CloseMark(s) \/ CloseRemove(s)
  \/ \E s \in Subs, who \in Closers : CountDown(s, who)
  \/ \E s \in Subs, kind \in HubKinds : Arrive(s, kind)
  \/ Purge \/ Drain \/ Shutdown

Spec == Init /\ [][Next]_vars

(* The hub's tasks run on the runtime, the drain and the constructors are  *)
(* ordinary Python code, callbacks return.  Nobody has to create or close  *)
(* a subscription, and an item need never arrive.                          *)
Fairness ==
  /\ WF_vars(\/ Recv \/ Plan \/ EventClosed \/ EventDelivered \/ EventChecked
             \/ NoteConnected \/ SetOpen \/ HookReturns \/ EndMark \/ EndRemove
             \/ Deliver \/ CallbackReturns)
  /\ \A s \in Subs : WF_vars(CountUp(s) \/ HubSubscribe(s) \/ Register(s) \/ Started(s) \/ SetId(s))
  /\ \A s \in Subs : WF_vars(CloseRemove(s))
  /\ \A s \in Subs, who \in Closers : WF_vars(CountDown(s, who))
  /\ WF_vars(ShutdownMark \/ ShutdownHub)

FairSpec == Spec /\ Fairness

-----------------------------------------------------------------------------
Elems(q) == {q[i] : i \in DOMAIN q}

(* Shape of the state and of the drain's frames.                           *)
TypeOK ==
  /\ maker \in [Subs -> {"new", "cached", "counted", "adding", "added", "started", "made", "refused"}]
  /\ closer \in [Subs -> {"no", "marked", "returned"}]
  /\ state \in [Subs -> {"opening", "open", "closed"}]
  /\ subs \subseteq Subs
  /\ lockedBy \in Subs \cup {None}
  /\ cached \in BOOLEAN
  /\ count \in Int
  /\ uncounted \subseteq Subs \X Closers
  /\ hubSubs \subseteq Subs
  /\ hubOpen \in BOOLEAN
  /\ queue \in Seq(1..MaxItems)
  /\ arrived \in Seq([sub: Subs, kind: Kinds])
  /\ pc \in {"off", "recv", "plan", "dispatch", "noting", "opening", "hook", "marking", "ending",
            "deliver", "callback", "exited", "dead"}
  /\ batch \in Seq(1..MaxItems)
  /\ todo \in Seq(1..MaxItems)
  /\ current \in 0..MaxItems
  /\ dropped \in [Subs -> 0..MaxItems]
  /\ seen \in [Subs -> Seq(1..MaxItems)]
  /\ called \in Seq(1..MaxItems)
  /\ reopened \in Seq(Subs)
  /\ stopping \in [at: {"no", "marking", "done"}, left: SUBSET Subs, sub: Subs \cup {None}]
  /\ pc = "dispatch" => todo # <<>>
  /\ pc \in {"noting", "opening", "hook", "marking", "ending", "deliver", "callback"} => current # 0
  /\ \A s \in Subs : lockedBy = s <=> maker[s] = "adding"

(* The items of s the drain has planned: all but the queued and the batch. *)
PlannedItems(s) ==
  {k \in DOMAIN arrived : Sub(k) = s} \ (Elems(queue) \cup Elems(batch))

Kept(s) == Elems(seen[s]) \cup {k \in Elems(todo) : Sub(k) = s}

(* What plan() promises to a subscription that is not closed, and was not  *)
(* when the drain wrote OPEN: it sees its items in order, all of them but  *)
(* the values a later value of the same run overtook, and                  *)
(* dropped_callbacks counts exactly those, until shutdown() clears the     *)
(* map.                                                                    *)
CollapseSound ==
  TypeOK /\ \A s \in Subs : state[s] # "closed" /\ s \notin Elems(reopened) /\ stopping.at = "no" =>
    LET lost == PlannedItems(s) \ Kept(s)
    IN  /\ \A i, j \in DOMAIN seen[s] : i < j => seen[s][i] < seen[s][j]
        /\ \A i, j \in DOMAIN todo : Sub(todo[i]) = s /\ Sub(todo[j]) = s /\ i < j => todo[i] < todo[j]
        /\ dropped[s] = Cardinality(lost)
        /\ \A k \in lost : \E n \in Kept(s) :
             /\ k < n /\ s \notin AllUpdates
             /\ \A x \in PlannedItems(s) \cap (k..n) : Kind(x) = "value"

LiveSubs    == {s \in Subs : maker[s] \notin {"new", "cached", "refused"} /\ state[s] # "closed"}
RefusedSubs == {s \in Subs : maker[s] = "refused"}

(* What get_channel_infos' subscription count is, while nobody purges the  *)
(* cache: the subscriptions not closed and the closes still to be counted, *)
(* one more for each constructor hub.subscribe refused, and one less for   *)
(* each close the drain overwrote; concurrent closes of one subscription   *)
(* count it down once.                                                     *)
CountAccounted ==
  cached => count = Cardinality(LiveSubs) + Cardinality(uncounted)
                    + Cardinality(RefusedSubs) - Len(reopened)

(* "No callback starts after this returns" (close, lines 336-338): the     *)
(* step that starts a callback is not one of a subscription whose close()  *)
(* has returned.                                                           *)
NoCallbackAfterClose ==
  [][\A s \in Subs :
       closer[s] = "returned" /\ called' # called => Sub(Last(called')) # s]_vars

(* Every item of a registered subscription is applied, or overtaken by a   *)
(* later one of the same subscription, unless that is closed or the hub    *)
(* is: batching, collapsing and other subscriptions' callbacks delay it    *)
(* but do not strand it.                                                   *)
EventuallyApplied ==
  \A k \in 1..MaxItems :
    k \in DOMAIN arrived ~>
      /\ k \in DOMAIN arrived
      /\ \/ state[Sub(k)] = "closed" \/ ~hubOpen
         \/ \E n \in Elems(seen[Sub(k)]) : n >= k
=============================================================================
