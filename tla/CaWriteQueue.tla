---------------------------- MODULE CaWriteQueue ----------------------------
(***************************************************************************)
(* Client PUTs of the Channel Access server on their way through Python:   *)
(* the write hook, CaWorkQueue and CaServerOperation (src/src/ca_server.rs)*)
(* and the drain loops that dispatch them (python/repics/ca/server).  Both *)
(* flavours: queues shared by PVs and drained by a thread, or one queue    *)
(* and one task for each PV.                                               *)
(*                                                                         *)
(* A CaServerOperation owns the WriteDone of a put callback; the library   *)
(* fails the write when that is dropped unanswered.  Every hook keeps the  *)
(* sender of its queue; the receiver is the CaWorkQueue, which its PVs and *)
(* its running drain loop keep.                                            *)
(*                                                                         *)
(* The names that every specification has start with Write, for this one   *)
(* is extended next to another's.                                          *)
(***************************************************************************)
EXTENDS Naturals, Sequences, SequencesExt

CONSTANTS PVs, Queues,
          Puts,       \* client PUTs, each issued once
          Target,     \* the PV a PUT is addressed to
          Layouts,    \* the queues PVs of the thread flavour may share
          MaxMoves    \* bound: times a PV is served or withdrawn

ASSUME WriteAssumption == /\ Target \in [Puts -> PVs]
                          /\ Layouts \subseteq [PVs -> Queues] /\ MaxMoves \in Nat

VARIABLES
  flavour,   \* "thread" (repics.ca.server) or "loop" (.asyncio)
  queueOf,   \* the work queue each PV was created with
  bare,      \* PVs whose handler has no put
  alive,     \* PVs whose Python SharedPV still exists
  served,    \* PVs whose write hook a running server calls
  queue,     \* the PUTs in each CaWorkQueue
  stopped,   \* queues whose stop() was called
  freed,     \* queues whose receiver is gone
  drain,     \* each drain loop: waiting, handling a PUT, or ended
  put,       \* each PUT: who holds it, whether its client asked for a put
             \* callback, whether done() took the Reply, the verdicts sent
  moves      \* bound counter

writeVars == <<flavour, queueOf, bare, alive, served, queue, stopped, freed, drain, put, moves>>
owners == <<flavour, queueOf, bare, alive, served, moves>>

Waiting == [st |-> "waiting"]
Ended == [st |-> "ended"]
Handling(u) == [st |-> "handling", put |-> u]

WriteInit ==
  /\ flavour \in {"thread", "loop"} /\ queueOf \in Layouts /\ bare \in SUBSET PVs
  /\ flavour = "loop" => \A p, r \in PVs : queueOf[p] = queueOf[r] => p = r
  /\ alive = PVs /\ served = {}
  /\ queue = [q \in Queues |-> <<>>] /\ stopped = {} /\ freed = {}
  /\ drain = [q \in Queues |-> Waiting]
  /\ put = [u \in Puts |-> [st |-> "new", asks |-> FALSE, done |-> FALSE, told |-> <<>>]]
  /\ moves = 0

(* --- verdicts ------------------------------------------------------------ *)

Tell(r, a) == IF r.asks /\ ~r.done THEN Append(r.told, a) ELSE r.told

\* The Reply stays where it is.
Answer_Keeps(r, a) == [r EXCEPT !.told = Tell(r, a)]

\* done() takes the Reply out and answers a put callback.
Answer(r, a) == [r EXCEPT !.done = TRUE, !.told = Tell(r, a)]

\* The operation is freed: a WriteDone still in it fails the write.
Drop(r) == [r EXCEPT !.st = "gone", !.told = Tell(r, "failed")]

(* --- the write hook ------------------------------------------------------ *)

\* An alarm acknowledgement is refused by the hook; a value is sent to the
\* queue, which fails, and drops the operation, when the receiver is gone.
\* A stopped queue takes it.
ClientPut(u, asks, ack) ==
  LET q == queueOf[Target[u]]  r == [put[u] EXCEPT !.asks = asks] IN
  /\ put[u].st = "new" /\ Target[u] \in served
  /\ IF ack \/ q \in freed
     THEN put' = [put EXCEPT ![u] = Drop(r)] /\ UNCHANGED queue
     ELSE /\ put' = [put EXCEPT ![u] = [r EXCEPT !.st = "queued"]]
          /\ queue' = [queue EXCEPT ![q] = Append(@, u)]
  /\ UNCHANGED <<owners, stopped, freed, drain>>

(* --- the drain loop ------------------------------------------------------ *)

\* deliver(): a PV that was collected, or has no put handler, fails the PUT.
Unhandled(u) == Target[u] \notin alive \/ Target[u] \in bare

\* The receiver looks at stop() first.
Receive(q) ==
  LET u == Head(queue[q]) IN
  /\ drain[q] = Waiting /\ q \notin stopped /\ queue[q] # <<>>
  /\ queue' = [queue EXCEPT ![q] = Tail(@)]
  /\ IF Unhandled(u)
     THEN put' = [put EXCEPT ![u] = Drop(Answer(put[u], "failed"))] /\ UNCHANGED drain
     ELSE /\ put' = [put EXCEPT ![u].st = "held"]
          /\ drain' = [drain EXCEPT ![q] = Handling(u)]
  /\ UNCHANGED <<owners, stopped, freed>>

DrainEnds(q) ==
  /\ drain[q] = Waiting /\ q \in stopped
  /\ drain' = [drain EXCEPT ![q] = Ended]
  /\ UNCHANGED <<owners, queue, stopped, freed, put>>

\* asyncio.run is over: it cancels the drain tasks, stopped or not.
LoopEnds ==
  /\ flavour = "loop" /\ \A q \in Queues : drain[q] \in {Waiting, Ended}
  /\ \E q \in Queues : drain[q] = Waiting
  /\ drain' = [q \in Queues |-> Ended]
  /\ UNCHANGED <<owners, queue, stopped, freed, put>>

(* --- handlers ------------------------------------------------------------ *)

\* The handler, its coroutine, or whoever it gave the operation to answers;
\* a second done() raises.
Done(u, a) ==
  /\ put[u].st \in {"held", "kept"} /\ ~put[u].done
  /\ put' = [put EXCEPT ![u] = Answer(put[u], a)]
  /\ UNCHANGED <<owners, queue, stopped, freed, drain>>

\* It returns; its coroutine, or somebody it gave it to, keeps the operation
\* or nobody does.
HandlerReturns(q, keeps) ==
  /\ drain[q].st = "handling" /\ drain' = [drain EXCEPT ![q] = Waiting]
  /\ LET u == drain[q].put IN
     put' = [put EXCEPT ![u] = IF keeps THEN [@ EXCEPT !.st = "kept"] ELSE Drop(@)]
  /\ UNCHANGED <<owners, queue, stopped, freed>>

\* _run does not catch it.
HandlerRaises_EndsDrain(q, keeps) ==
  /\ drain[q].st = "handling" /\ drain' = [drain EXCEPT ![q] = Ended]
  /\ LET u == drain[q].put IN
     put' = [put EXCEPT ![u] = IF keeps THEN [@ EXCEPT !.st = "kept"] ELSE Drop(@)]
  /\ UNCHANGED <<owners, queue, stopped, freed>>

\* fail_op answers for a handler that raises, unless it has answered.
HandlerRaises(q, keeps) ==
  /\ drain[q].st = "handling" /\ drain' = [drain EXCEPT ![q] = Waiting]
  /\ LET u == drain[q].put  r == Answer(put[u], "failed") IN
     put' = [put EXCEPT ![u] = IF keeps THEN [r EXCEPT !.st = "kept"] ELSE Drop(r)]
  /\ UNCHANGED <<owners, queue, stopped, freed>>

\* A coroutine ends or is cancelled, or whoever kept the operation lets go:
\* fail_op, or the drop, fails what is not answered.
Released(u) ==
  /\ put[u].st = "kept" /\ put' = [put EXCEPT ![u] = Drop(@)]
  /\ UNCHANGED <<owners, queue, stopped, freed, drain>>

(* --- owners -------------------------------------------------------------- *)

\* A server starts or stops serving the PV.
Serve(p) ==
  /\ moves < MaxMoves /\ moves' = moves + 1 /\ p \in alive \cup served
  /\ served' = IF p \in served THEN served \ {p} ELSE served \cup {p}
  /\ UNCHANGED <<flavour, queueOf, bare, alive, queue, stopped, freed, drain, put>>

\* WorkQueue.stop(), SharedPV.stop().
Stop(q) ==
  /\ q \notin stopped /\ stopped' = stopped \cup {q}
  /\ UNCHANGED <<owners, queue, freed, drain, put>>

\* The SharedPV is collected, though a server may still have its hook; its
\* finalizer stops its task's queue.
Collect(p) ==
  /\ p \in alive /\ \A u \in Puts : put[u].st = "held" => Target[u] # p
  /\ alive' = alive \ {p}
  /\ stopped' = IF flavour = "loop" THEN stopped \cup {queueOf[p]} ELSE stopped
  /\ UNCHANGED <<flavour, queueOf, bare, served, queue, freed, drain, put, moves>>

\* Nothing keeps the CaWorkQueue any more: the receiver is dropped, and with
\* it every operation in it.
FreeQueue(q) ==
  /\ q \notin freed /\ drain[q] = Ended /\ \A p \in alive : queueOf[p] # q
  /\ freed' = freed \cup {q} /\ queue' = [queue EXCEPT ![q] = <<>>]
  /\ put' = [u \in Puts |-> IF Contains(queue[q], u) THEN Drop(put[u]) ELSE put[u]]
  /\ UNCHANGED <<owners, stopped, drain>>

\* The thread or task of a queue, up to the end of the queue.
DrainStep(q) ==
  \/ Receive(q) \/ DrainEnds(q) \/ FreeQueue(q)
  \/ \E keeps \in BOOLEAN : HandlerReturns(q, keeps) \/ HandlerRaises(q, keeps)

WriteNext ==
  \/ \E u \in Puts : \/ \E asks, ack \in BOOLEAN : ClientPut(u, asks, ack)
                     \/ \E a \in {"ok", "failed"} : Done(u, a)
                     \/ Released(u)
  \/ \E q \in Queues : DrainStep(q) \/ Stop(q)
  \/ \E p \in PVs : Serve(p) \/ Collect(p)
  \/ LoopEnds

WriteSpec == WriteInit /\ [][WriteNext]_writeVars

\* The drain loops run, handlers return, whoever kept an operation lets it
\* go, and a queue is freed when neither a PV nor its loop keeps it.  Nothing
\* makes an owner act.
WriteFairness ==
  /\ \A q \in Queues : WF_writeVars(DrainStep(q))
  /\ \A u \in Puts : WF_writeVars(Released(u))

WriteFairSpec == WriteSpec /\ WriteFairness

(* --- properties ---------------------------------------------------------- *)

\* Types of the variables.
WriteTypeOK ==
  /\ flavour \in {"thread", "loop"} /\ queueOf \in Layouts
  /\ alive \subseteq PVs /\ served \subseteq PVs
  /\ queue \in [Queues -> Seq(Puts)] /\ stopped \subseteq Queues /\ freed \subseteq Queues
  /\ drain \in [Queues -> {Waiting, Ended} \cup {Handling(u) : u \in Puts}]
  /\ put \in [Puts -> [st : {"new", "queued", "held", "kept", "gone"}, asks : BOOLEAN,
                       done : BOOLEAN, told : Seq({"ok", "failed"})]]
  /\ moves \in 0..MaxMoves

\* A put callback gets one verdict: it is told one at most, and until it is,
\* its operation has its Reply and is in exactly one place a verdict, or the
\* drop that fails it, can come from: one position of one queue that still
\* has its receiver, one drain loop, or whoever kept it.
OneVerdict ==
  WriteTypeOK /\ \A u \in Puts :
    /\ Len(put[u].told) <= 1
    /\ put[u].asks /\ put[u].told = <<>> =>
         ~put[u].done /\ put[u].st \in {"queued", "held", "kept"}
    /\ put[u].st = "queued" <=> \E q \in Queues \ freed : Contains(queue[q], u)
    /\ put[u].st = "held" <=> \E q \in Queues : drain[q] = Handling(u)
    /\ \A q, r \in Queues : \A i \in DOMAIN queue[q], j \in DOMAIN queue[r] :
         queue[q][i] = u /\ queue[r][j] = u => q = r /\ i = j

\* Every put callback is told its verdict, whatever its handler does and
\* whoever lives, unless it is left in a queue that was stopped or whose
\* asyncio.run is over.
PutAnswered ==
  \A u \in Puts :
    put[u].asks ~> \/ put[u].told # <<>>
                   \/ /\ put[u].st = "queued"
                      /\ \/ queueOf[Target[u]] \in stopped
                         \/ flavour = "loop" /\ drain[queueOf[Target[u]]] = Ended

=============================================================================
