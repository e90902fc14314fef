--------------------------- MODULE PvaServerOps ---------------------------
(***************************************************************************)
(* The operations and connection edges of the pvAccess server              *)
(* (src/src/pva/server.rs): a client PUT or RPC becomes a ServerOperation  *)
(* holding a oneshot reply slot, travels through a PvaWorkQueue to a       *)
(* Python thread or asyncio task (src/python/repics/pva/server/), and is   *)
(* answered by done(), by a handler that fails, or by being dropped.       *)
(* Channels attach to the PV served when they open; the first and the last *)
(* of them send an edge through the same queue, which close(sync=True)     *)
(* waits for.                                                              *)
(*                                                                         *)
(* One name is modelled (the tables are keyed by name); several PVs can be *)
(* served under it in turn.  An access denial, a missing PV and a closed   *)
(* PV are one refusal.  Handlers and clients are nondeterministic.         *)
(***************************************************************************)
EXTENDS Naturals, Sequences, FiniteSets

CONSTANTS PVs, Queues, Chans, Ops,
          Layouts,    \* the ways PVs share work queues
          NoPV,       \* no PV served, no channel
          MaxMoves,   \* bound: moves of users and clients in a behaviour
          MayStop     \* whether WorkQueue.stop() is called

ASSUME OpsAssumption == /\ IsFiniteSet(Chans)
                        /\ NoPV \notin PVs
                        /\ MaxMoves \in Nat
                        /\ Layouts \subseteq [PVs -> Queues]
                        /\ MayStop \in BOOLEAN

VARIABLES
  flavour,      \* "thread" (repics.pva.server) or "loop" (.asyncio)
  queueOf,      \* the work queue each PV was created with
  served,       \* PySource.entries[name]
  opened,       \* PVs whose value is open
  alive,        \* PVs whose Python SharedPV still exists
  chan,         \* the PV each client channel was created against
  doomed,       \* channels of a closed PV, being disconnected by the library
  attached,     \* PySource.attached[name], oldest first
  count,        \* the library's number of attached channels per PV
  queue,        \* PvaWorkQueue: events not yet received
  stopped,      \* queues whose stop() was called
  freed,        \* queues whose PvaWorkQueue, and with it the receiver, is gone
  worker,       \* the drain loop of each queue: its state and current event
  op,           \* who holds each operation, its reply slot, what the client got
  hookTasks,    \* asyncio: last-disconnect coroutines not finished
  disconnected, \* PVs whose _disconnected event is set
  closer,       \* the caller of close(sync=True): its step and its PV
  moves         \* bound counter

vars == <<flavour, queueOf, served, opened, alive, chan, doomed, attached, count,
          queue, stopped, freed, worker, op, hookTasks, disconnected, closer,
          moves>>
tables == <<flavour, queueOf, served, opened, alive>>
channels == <<chan, doomed, attached, count>>

Event == [pv : PVs, kind : {"op"}, op : Ops] \cup [pv : PVs, kind : {"first", "last"}]
Idle == [st |-> "idle"]
OpsIn(s) == {s[i].op : i \in {j \in DOMAIN s : s[j].kind = "op"}}

Init ==
  /\ flavour \in {"thread", "loop"}
  /\ queueOf \in Layouts
  /\ flavour = "loop" => \A p, q \in PVs : queueOf[p] = queueOf[q] => p = q
  /\ served = NoPV /\ opened = PVs /\ alive = PVs
  /\ chan = [c \in Chans |-> NoPV] /\ doomed = {}
  /\ attached = <<>> /\ count = [p \in PVs |-> 0]
  /\ queue = [q \in Queues |-> <<>>] /\ stopped = {} /\ freed = {}
  /\ worker = [q \in Queues |-> Idle]
  /\ op = [o \in Ops |-> [st |-> "new", tx |-> FALSE, ans |-> "none", pv |-> NoPV]]
  /\ hookTasks = [p \in PVs |-> 0] /\ disconnected = PVs
  /\ closer = Idle /\ moves = 0

(* --- the reply slot ----------------------------------------------------- *)

\* ServerOperation.finish: the first caller takes the sender, a later one
\* raises; a reply to a client that has given up goes nowhere.
Finish(r, a) == IF r.tx
                THEN [r EXCEPT !.tx = FALSE, !.ans = IF @ = "left" THEN @ ELSE a]
                ELSE r
Drop_KeepsSender(r) == [r EXCEPT !.st = "gone"]

\* Dropping the operation drops the sender with it, which the server task
\* reads as "handler dropped the operation without done()".
Drop(r) == [Finish(r, "lost") EXCEPT !.st = "gone"]

\* A step of a user or a client, of which there are boundedly many.
Move == moves < MaxMoves /\ moves' = moves + 1

(* --- tables -------------------------------------------------------------- *)

Add(p) == /\ Move
          /\ served = NoPV /\ p \in alive
          /\ served' = p
          /\ UNCHANGED <<flavour, queueOf, opened, alive, channels, queue, stopped, freed,
                         worker, op, hookTasks, disconnected, closer>>

Remove == /\ served # NoPV
          /\ served' = NoPV
          /\ UNCHANGED <<flavour, queueOf, opened, alive, channels, queue, stopped, freed,
                         worker, op, hookTasks, disconnected, closer, moves>>

Open(p) == /\ Move
           /\ p \in alive \ opened
           /\ opened' = opened \cup {p}
           /\ UNCHANGED <<flavour, queueOf, served, alive, channels, queue, stopped, freed,
                          worker, op, hookTasks, disconnected, closer>>

\* PvEntry.close as the operations see it: the library force-disconnects
\* every channel of the PV.
Shut(p) == /\ opened' = opened \ {p}
           /\ doomed' = doomed \cup {c \in Chans : chan[c] = p}

\* The last Python reference to an unserved PV goes away.  The asyncio
\* flavour stops the PV's own drain task from a finalizer.
Collect(p) ==
  /\ Move
  /\ p \in alive /\ served # p
  /\ closer # Idle => closer.pv # p
  /\ \A q \in Queues : worker[q] # Idle /\ worker[q].st = "busy" => worker[q].ev.pv # p
  /\ alive' = alive \ {p}
  /\ stopped' = IF flavour = "loop" THEN stopped \cup {queueOf[p]} ELSE stopped
  /\ UNCHANGED <<flavour, queueOf, served, opened, channels, queue, freed, worker, op,
                 hookTasks, disconnected, closer>>

(* --- channels ------------------------------------------------------------ *)

\* PvEntry.send: refused once the receiver is gone.
Send(p, kind) ==
  queue' = IF queueOf[p] \in freed THEN queue
           ELSE [queue EXCEPT ![queueOf[p]] = Append(@, [pv |-> p, kind |-> kind])]

ChannelOpens(c) ==
  /\ Move /\ chan[c] = NoPV
  /\ served \in opened
  /\ chan' = [chan EXCEPT ![c] = served]
  /\ attached' = Append(attached, served)
  /\ count' = [count EXCEPT ![served] = @ + 1]
  /\ IF count[served] = 0 THEN Send(served, "first") ELSE UNCHANGED queue
  /\ UNCHANGED <<tables, doomed, stopped, freed, worker, op, hookTasks, disconnected,
                 closer>>

\* Each close reported as the last, and a close that only knows the table.
ChannelCloses_AlwaysLast(c) ==
  /\ chan[c] # NoPV
  /\ chan' = [chan EXCEPT ![c] = NoPV] /\ doomed' = doomed \ {c}
  /\ attached' = Tail(attached)
  /\ count' = [count EXCEPT ![Head(attached)] = @ - 1]
  /\ Send(Head(attached), "last")
  /\ UNCHANGED <<tables, stopped, freed, worker, op, hookTasks, disconnected, closer, moves>>
ChannelCloses_OfServed(c) ==
  /\ chan[c] # NoPV
  /\ chan' = [chan EXCEPT ![c] = NoPV] /\ doomed' = doomed \ {c}
  /\ attached' = Tail(attached)
  /\ count' = [p \in PVs |-> IF p = served THEN count[p] - 1 ELSE count[p]]
  /\ IF served # NoPV /\ count[served] = 1 THEN Send(served, "last") ELSE UNCHANGED queue
  /\ UNCHANGED <<tables, stopped, freed, worker, op, hookTasks, disconnected, closer, moves>>

\* Charged to the oldest attachment of the name, whether or not its PV is
\* still in the table.
ChannelCloses(c) ==
  /\ chan[c] # NoPV
  /\ chan' = [chan EXCEPT ![c] = NoPV] /\ doomed' = doomed \ {c}
  /\ LET p == Head(attached) IN
       /\ attached' = Tail(attached)
       /\ count' = [count EXCEPT ![p] = @ - 1]
       /\ IF count[p] = 1 THEN Send(p, "last") ELSE UNCHANGED queue
  /\ UNCHANGED <<tables, stopped, freed, worker, op, hookTasks, disconnected,
                 closer, moves>>

(* --- operations ---------------------------------------------------------- *)

\* run_op.  The name is looked up again when an operation starts: the
\* channel's own PV may have been replaced.
RunOp(o, refused) ==
  /\ Move
  /\ op[o].st = "new" /\ \E c \in Chans : chan[c] # NoPV
  /\ IF refused \/ queueOf[served] \in freed
     THEN /\ op' = [op EXCEPT ![o] = [@ EXCEPT !.st = "gone", !.ans = "err"]]
          /\ UNCHANGED queue
     ELSE /\ op' = [op EXCEPT ![o] = [st |-> "queued", tx |-> TRUE, ans |-> "none",
                                        pv |-> served]]
          /\ queue' = [queue EXCEPT ![queueOf[served]] =
                         Append(@, [pv |-> served, kind |-> "op", op |-> o])]
  /\ UNCHANGED <<tables, channels, stopped, freed, worker, hookTasks, disconnected,
                 closer>>

PutStarts(o, allowed) == RunOp(o, ~allowed \/ served \notin opened)

\* An RPC does not need the PV open.
RpcStarts(o, allowed) == RunOp(o, ~allowed \/ served = NoPV)

\* The client went away: the server task and its receiver are dropped.
GiveUp(o) == /\ op[o].st # "new" /\ op[o].ans = "none"
             /\ op' = [op EXCEPT ![o].ans = "left"]
             /\ UNCHANGED <<tables, channels, queue, stopped, freed, worker, hookTasks,
                            disconnected, closer, moves>>

(* --- the drain loop ------------------------------------------------------ *)

\* recv takes the oldest event unless the queue is stopped (biased select),
\* and deliver starts its handler: a dead PV fails its operation, and
\* _connected(True) precedes the first-connect hook.
Receive(q) ==
  /\ worker[q] = Idle /\ q \notin stopped /\ queue[q] # <<>>
  /\ queue' = [queue EXCEPT ![q] = Tail(@)]
  /\ LET ev == Head(queue[q]) IN
       /\ IF ev.pv \in alive
          THEN /\ worker' = [worker EXCEPT ![q] = [st |-> "busy", ev |-> ev]]
               /\ op' = IF ev.kind = "op" THEN [op EXCEPT ![ev.op].st = "held"] ELSE op
          ELSE /\ UNCHANGED worker
               /\ op' = IF ev.kind = "op"
                        THEN [op EXCEPT ![ev.op] = Drop(Finish(@, "err"))] ELSE op
       /\ disconnected' = IF ev.kind = "first" /\ ev.pv \in alive
                          THEN disconnected \ {ev.pv} ELSE disconnected
  /\ UNCHANGED <<tables, channels, stopped, freed, hookTasks, closer, moves>>

\* recv returned None: the loop ends, and what is queued stays queued.
DrainEnds(q) ==
  /\ worker[q] = Idle /\ q \in stopped
  /\ worker' = [worker EXCEPT ![q] = [st |-> "ended"]]
  /\ UNCHANGED <<tables, channels, queue, stopped, freed, op, hookTasks, disconnected,
                 closer, moves>>

Stop(q) == /\ Move
           /\ MayStop /\ q \notin stopped
           /\ stopped' = stopped \cup {q}
           /\ UNCHANGED <<tables, channels, queue, freed, worker, op, hookTasks,
                          disconnected, closer>>

FreeQueue_Leaks(q) ==
  /\ q \notin freed /\ worker[q].st = "ended"
  /\ \A p \in alive : queueOf[p] # q
  /\ freed' = freed \cup {q} /\ queue' = [queue EXCEPT ![q] = <<>>]
  /\ UNCHANGED <<tables, channels, stopped, worker, op, hookTasks, disconnected, closer, moves>>

\* The PvaWorkQueue is dropped with the last PV that uses it: the receiver
\* goes, and with it every queued operation.
FreeQueue(q) ==
  /\ q \notin freed /\ worker[q].st = "ended"
  /\ \A p \in alive : queueOf[p] # q
  /\ freed' = freed \cup {q}
  /\ queue' = [queue EXCEPT ![q] = <<>>]
  /\ op' = [o \in Ops |-> IF o \in OpsIn(queue[q]) THEN Drop(op[o]) ELSE op[o]]
  /\ UNCHANGED <<tables, channels, stopped, worker, hookTasks, disconnected, closer, moves>>

(* --- handlers ------------------------------------------------------------ *)

\* done(): from the handler, from whoever kept the operation, from a
\* coroutine.  A second call raises and changes nothing.
Done(o, a) ==
  /\ op[o].st \in {"held", "kept", "task"}
  /\ op' = [op EXCEPT ![o] = Finish(@, a)]
  /\ UNCHANGED <<tables, channels, queue, stopped, freed, worker, hookTasks,
                 disconnected, closer, moves>>

\* A put or rpc handler returns ("drop": it kept nothing), raises (fail_op,
\* also for a missing handler), keeps the operation, or was a coroutine.
OpHandlerEnds(q, how) ==
  /\ worker[q].st = "busy" /\ worker[q].ev.kind = "op"
  /\ how = "task" => flavour = "loop"
  /\ worker' = [worker EXCEPT ![q] = Idle]
  /\ op' = [op EXCEPT ![worker[q].ev.op] =
              CASE how = "drop" -> Drop(@)
                [] how = "raise" -> Drop(Finish(@, "err"))
                [] OTHER -> [@ EXCEPT !.st = how]]
  /\ UNCHANGED <<tables, channels, queue, stopped, freed, hookTasks, disconnected,
                 closer, moves>>

\* The keeper drops the operation, or the coroutine returns, fails or is
\* cancelled.
OpReleased(o, failed) ==
  /\ op[o].st = "task" \/ (op[o].st = "kept" /\ ~failed)
  /\ op' = [op EXCEPT ![o] = Drop(IF failed THEN Finish(@, "err") ELSE @)]
  /\ UNCHANGED <<tables, channels, queue, stopped, freed, worker, hookTasks,
                 disconnected, closer, moves>>

Gathering(p) == closer.st = "gather" /\ closer.pv = p

\* Setting the event wakes its waiter for good.
Woken(p) == IF closer.st = "wait" /\ closer.pv = p THEN [closer EXCEPT !.st = "woken"]
            ELSE closer

\* An edge hook returns; a coroutine hook has only been scheduled by then.
\* _connected(False) follows the last-disconnect hook.
HookEnds(q, coroutine) ==
  /\ worker[q].st = "busy" /\ worker[q].ev.kind # "op"
  /\ coroutine => flavour = "loop" /\ worker[q].ev.kind = "last"
  /\ LET p == worker[q].ev.pv IN
       /\ hookTasks' = IF coroutine THEN [hookTasks EXCEPT ![p] = @ + 1] ELSE hookTasks
       /\ IF worker[q].ev.kind = "last"
          THEN disconnected' = disconnected \cup {p} /\ closer' = Woken(p)
          ELSE UNCHANGED <<disconnected, closer>>
  /\ worker' = [worker EXCEPT ![q] = Idle]
  /\ UNCHANGED <<tables, channels, queue, stopped, freed, op, moves>>

\* A scheduled hook finishes; the oldest are the ones a gather waits for.
HookTaskEnds(p) ==
  /\ hookTasks[p] > 0
  /\ hookTasks' = [hookTasks EXCEPT ![p] = @ - 1]
  /\ \/ Gathering(p) /\ closer.hooks > 0 /\ closer' = [closer EXCEPT !.hooks = @ - 1]
     \/ (Gathering(p) => hookTasks[p] > closer.hooks) /\ UNCHANGED closer
  /\ UNCHANGED <<tables, channels, queue, stopped, freed, worker, op, disconnected, moves>>

(* --- close(sync=True) ---------------------------------------------------- *)

\* close() on the caller's thread or task; asyncio first gathers the
\* handler tasks in flight at that moment.
CloseSync(p) ==
  /\ Move /\ closer = Idle /\ p \in alive
  /\ Shut(p)
  /\ closer' = [pv |-> p,
                st |-> IF flavour = "loop" THEN "gather"
                       ELSE IF p \in disconnected THEN "woken" ELSE "wait",
                ops |-> {o \in Ops : op[o].st = "task" /\ op[o].pv = p},
                hooks |-> hookTasks[p]]
  /\ UNCHANGED <<flavour, queueOf, served, alive, chan, attached, count, queue,
                 stopped, freed, worker, op, hookTasks, disconnected>>

\* gather() is over: no task in flight at the call is left.
Gathered ==
  /\ closer.st = "gather"
  /\ closer.hooks = 0 /\ \A o \in closer.ops : op[o].st # "task"
  /\ closer' = [closer EXCEPT !.st = IF closer.pv \in disconnected THEN "woken" ELSE "wait"]
  /\ UNCHANGED <<tables, channels, queue, stopped, freed, worker, op, hookTasks,
                 disconnected, moves>>

\* The wait is over: the event was set, or the caller's timeout passed.
CloseReturns(late) ==
  /\ closer.st = IF late THEN "wait" ELSE "woken"
  /\ closer' = Idle
  /\ UNCHANGED <<tables, channels, queue, stopped, freed, worker, op, hookTasks,
                 disconnected, moves>>

Close(p) == /\ Move
            /\ p \in opened /\ Shut(p)
            /\ UNCHANGED <<flavour, queueOf, served, alive, chan, attached, count,
                           queue, stopped, freed, worker, op, hookTasks, disconnected,
                           closer>>

HandlerEnds(q) == \/ \E how \in {"drop", "raise", "kept", "task"} : OpHandlerEnds(q, how)
                  \/ \E b \in BOOLEAN : HookEnds(q, b)
Released(o) == \E b \in BOOLEAN : OpReleased(o, b)

Next ==
  \/ \E p \in PVs : Add(p) \/ Open(p) \/ Close(p) \/ Collect(p) \/ CloseSync(p) \/ HookTaskEnds(p)
  \/ Remove
  \/ \E c \in Chans : ChannelOpens(c) \/ ChannelCloses(c)
  \/ \E o \in Ops : \/ \E b \in BOOLEAN : PutStarts(o, b) \/ RpcStarts(o, b)
                    \/ GiveUp(o) \/ Released(o) \/ \E a \in {"ok", "err"} : Done(o, a)
  \/ \E q \in Queues : Receive(q) \/ DrainEnds(q) \/ HandlerEnds(q) \/ Stop(q) \/ FreeQueue(q)
  \/ Gathered \/ \E late \in BOOLEAN : CloseReturns(late)

Spec == Init /\ [][Next]_vars

\* The drain loops run, handlers and coroutines return and whoever kept an
\* operation lets it go, the library disconnects the channels of a closed PV
\* and event waits resume.  Nothing makes a client or a table owner act.
Fairness ==
  /\ \A q \in Queues : WF_vars(Receive(q)) /\ WF_vars(DrainEnds(q)) /\ WF_vars(HandlerEnds(q))
                       /\ WF_vars(FreeQueue(q))
  /\ \A o \in Ops : WF_vars(Released(o))
  /\ \A p \in PVs : WF_vars(HookTaskEnds(p))
  /\ \A c \in Chans : WF_vars(c \in doomed /\ ChannelCloses(c))
  /\ WF_vars(Gathered) /\ WF_vars(CloseReturns(FALSE))

FairSpec == Spec /\ Fairness

(* --- properties ---------------------------------------------------------- *)

Loops == {Idle, [st |-> "ended"]} \cup [st : {"busy"}, ev : Event]

\* Types of the variables, with the bounds of the counters.
TypeOK ==
  /\ flavour \in {"thread", "loop"} /\ queueOf \in Layouts
  /\ served \in PVs \cup {NoPV} /\ opened \subseteq PVs /\ alive \subseteq PVs
  /\ chan \in [Chans -> PVs \cup {NoPV}] /\ doomed \subseteq {c \in Chans : chan[c] # NoPV}
  /\ attached \in Seq(PVs) /\ count \in [PVs -> 0..Cardinality(Chans)]
  /\ queue \in [Queues -> Seq(Event)] /\ freed \subseteq stopped /\ stopped \subseteq Queues
  /\ worker \in [Queues -> Loops]
  /\ op \in [Ops -> [st : {"new", "queued", "held", "kept", "task", "gone"}, tx : BOOLEAN,
                     ans : {"none", "ok", "err", "lost", "left"}, pv : PVs \cup {NoPV}]]
  /\ hookTasks \in [PVs -> Nat] /\ disconnected \subseteq PVs
  /\ closer.st \in {"idle", "gather", "wait", "woken"}
  /\ moves \in 0..MaxMoves

Busy(q, o) == worker[q].st = "busy" /\ worker[q].ev.kind = "op" /\ worker[q].ev.op = o

\* "An operation can never be left dangling" (server.rs module comment): an
\* operation whose client still waits has its reply slot, and is in exactly
\* one place from which an answer or a drop can still come.
NeverDangling ==
  TypeOK /\ \A o \in Ops :
    /\ op[o].st = "queued" <=> \E q \in Queues \ freed : o \in OpsIn(queue[q])
    /\ op[o].st = "held" <=> \E q \in Queues : Busy(q, o)
    /\ op[o].ans = "none" /\ op[o].st # "new" => op[o].tx /\ op[o].st # "gone"

Edges(p) == \/ \E i \in DOMAIN queue[queueOf[p]] :
                 /\ queue[queueOf[p]][i].pv = p /\ queue[queueOf[p]][i].kind # "op"
            \/ \E q \in Queues : /\ worker[q].st = "busy"
                                  /\ worker[q].ev.pv = p /\ worker[q].ev.kind # "op"

\* What close(sync=True) waits on is true of the channels: once a PV's edges
\* have been handled, its _disconnected event is set exactly when nothing is
\* attached to it, across removal and replacement of the served PV.
EdgeTruth ==
  \A p \in alive : Edges(p) \/ (p \in disconnected <=> count[p] = 0)

\* Every operation is answered, unless it sits in a stopped queue that a live
\* PV still holds: by done(), a failing handler, or the drop that follows it.
OpAnswered ==
  \A o \in Ops :
    op[o].st # "new" ~> \/ op[o].ans # "none"
                        \/ op[o].st = "queued" /\ queueOf[op[o].pv] \in stopped

\* Each channel is charged to the PV it was created against: false only
\* while a removed PV keeps channels and another is served under its name.
Charged == \A p \in PVs : Cardinality({i \in DOMAIN attached : attached[i] = p})
                            = Cardinality({c \in Chans : chan[c] = p})

\* close(sync=True) resumes: the channels of the closed PV detach and its
\* last-disconnect edge comes through the queue, also when the PV was
\* removed first.  A PV reopened meanwhile may keep new channels.
CloseSyncReturns ==
  \A p \in PVs :
    closer.st # "idle" /\ closer.pv = p
      ~> closer.st = "idle" \/ p \in opened \/ ~Charged \/ queueOf[p] \in stopped

=============================================================================
