------------------------ MODULE PvaServerOps_proofs ------------------------
(***************************************************************************)
(* Theorems about PvaServerOps for any PVs, queues, finite set of          *)
(* channels, operations, layouts and bound, with and without stop().       *)
(***************************************************************************)
EXTENDS PvaServerOps, FiniteSetTheorems, SequenceTheorems, TLAPS

(* The served PV has not been collected, and the open channels of the name *)
(* are the attachments, counted for each PV they are charged to.           *)
Positions(s, p) == {i \in DOMAIN s : s[i] = p}

Tables == /\ flavour \in {"thread", "loop"} /\ queueOf \in Layouts
          /\ served \in alive \cup {NoPV} /\ opened \subseteq PVs /\ alive \subseteq PVs

Charges ==
  /\ chan \in [Chans -> PVs \cup {NoPV}] /\ doomed \subseteq {c \in Chans : chan[c] # NoPV}
  /\ attached \in Seq(PVs) /\ Len(attached) = Cardinality({c \in Chans : chan[c] # NoPV})
  /\ count \in [PVs -> Nat]
  /\ \A p \in PVs : count[p] = Cardinality(Positions(attached, p))

(* An event is in the queue its PV was created with and is handled there,  *)
(* while the PV lives; only a stopped loop ends, and a queue that is gone  *)
(* holds nothing and no PV that lives uses it.                             *)
Closers == {Idle} \cup [pv : PVs, st : {"gather", "wait", "woken"}, ops : SUBSET Ops, hooks : Nat]

Operation == [st : {"new", "queued", "held", "kept", "task", "gone"}, tx : BOOLEAN,
              ans : {"none", "ok", "err", "lost", "left"}, pv : PVs \cup {NoPV}]

Shape ==
  /\ queue \in [Queues -> Seq(Event)] /\ worker \in [Queues -> Loops]
  /\ op \in [Ops -> Operation]
  /\ hookTasks \in [PVs -> Nat] /\ disconnected \subseteq PVs
  /\ closer \in Closers /\ moves \in 0..MaxMoves
  /\ freed \subseteq stopped /\ stopped \subseteq Queues

Routed(q) ==
  /\ \A i \in DOMAIN queue[q] : queueOf[queue[q][i].pv] = q
  /\ worker[q].st = "busy" => worker[q].ev.pv \in alive /\ queueOf[worker[q].ev.pv] = q
  /\ worker[q].st = "ended" => q \in stopped
  /\ q \in freed => /\ queue[q] = <<>> /\ worker[q].st = "ended"
                    /\ \A p \in alive : queueOf[p] # q

Routes == \A q \in Queues : Routed(q)

(* A queued operation is in its PV's queue, once; a held one is with that  *)
(* queue's loop; an unanswered one has its sender.                         *)
Carried ==
  \A q \in Queues :
    /\ \A i \in DOMAIN queue[q] : queue[q][i].kind = "op" =>
         /\ op[queue[q][i].op].st = "queued" /\ op[queue[q][i].op].pv = queue[q][i].pv
         /\ \A j \in DOMAIN queue[q] :
              queue[q][j].kind = "op" /\ queue[q][j].op = queue[q][i].op => j = i
    /\ worker[q].st = "busy" /\ worker[q].ev.kind = "op" =>
         op[worker[q].ev.op].st = "held" /\ op[worker[q].ev.op].pv = worker[q].ev.pv

Placed ==
  \A o \in Ops :
    /\ op[o].st = "queued" => \E q \in Queues : o \in OpsIn(queue[q])
    /\ op[o].st = "held" => \E q \in Queues : Busy(q, o)
    /\ op[o].ans = "none" /\ op[o].st # "new" => op[o].tx /\ op[o].st # "gone"

(* The last edge of a live PV on its way tells whether channels are        *)
(* attached; with none on its way the event tells it.                      *)
EdgesOf(s, p) == {i \in DOMAIN s : s[i].pv = p /\ s[i].kind # "op"}
Handling(p) == worker[queueOf[p]].st = "busy" /\ worker[queueOf[p]].ev.pv = p
               /\ worker[queueOf[p]].ev.kind # "op"

Told(p) ==
  LET s == queue[queueOf[p]]  w == worker[queueOf[p]] IN
  /\ \A i \in EdgesOf(s, p) :
       (\A j \in EdgesOf(s, p) : j <= i) => (s[i].kind = "first" <=> count[p] # 0)
  /\ EdgesOf(s, p) = {} /\ Handling(p) => (w.ev.kind = "first" <=> count[p] # 0)
  /\ Handling(p) /\ w.ev.kind = "first" => p \notin disconnected
  /\ EdgesOf(s, p) = {} /\ ~Handling(p) => (p \in disconnected <=> count[p] = 0)

AllTold == \A p \in alive : Told(p)

IInv == Tables /\ Charges /\ Shape /\ Routes /\ Carried /\ Placed /\ AllTold

-----------------------------------------------------------------------------

(* The attachments charged to a PV are at most all of them.                *)
LEMMA PositionsFinite ==
  ASSUME NEW s \in Seq(PVs), NEW p
  PROVE  IsFiniteSet(Positions(s, p)) /\ Cardinality(Positions(s, p)) \in Nat
         /\ Cardinality(Positions(s, p)) <= Len(s)
<1>1. IsFiniteSet(1 .. Len(s)) /\ Cardinality(1 .. Len(s)) = Len(s)
  <2>1. 1 \in Int /\ Len(s) \in Int /\ Len(s) \in Nat
    BY LenProperties
  <2> QED BY <2>1, FS_Interval
<1>2. Positions(s, p) \in SUBSET (1 .. Len(s))
  BY LenProperties DEF Positions
<1> QED BY <1>1, <1>2, FS_Subset, FS_CardinalityType

(* A channel attached to a PV adds one to its attachments ...              *)
LEMMA PositionsAppend ==
  ASSUME NEW s \in Seq(PVs), NEW p \in PVs, NEW x \in PVs
  PROVE  Cardinality(Positions(Append(s, p), x))
           = IF x = p THEN Cardinality(Positions(s, x)) + 1 ELSE Cardinality(Positions(s, x))
<1>1. /\ Append(s, p) \in Seq(PVs) /\ Len(Append(s, p)) = Len(s) + 1 /\ Len(s) \in Nat
      /\ DOMAIN s = 1 .. Len(s) /\ DOMAIN Append(s, p) = 1 .. Len(s) + 1
      /\ \A i \in 1 .. Len(s) : Append(s, p)[i] = s[i]
      /\ Append(s, p)[Len(s) + 1] = p
  BY AppendProperties, LenProperties
<1>2. CASE x = p
  <2>1. Positions(Append(s, p), x) = Positions(s, x) \cup {Len(s) + 1}
    BY <1>1, <1>2 DEF Positions
  <2>2. Len(s) + 1 \notin Positions(s, x)
    BY <1>1 DEF Positions
  <2> QED BY <1>2, <2>1, <2>2, PositionsFinite, FS_AddElement
<1>3. CASE x # p
  <2>1. Positions(Append(s, p), x) = Positions(s, x)
    BY <1>1, <1>3 DEF Positions
  <2> QED BY <1>3, <2>1
<1> QED BY <1>2, <1>3

(* ... and the oldest attachment, gone, takes one from those of its PV.    *)
LEMMA PositionsTail ==
  ASSUME NEW s \in Seq(PVs), s # <<>>, NEW x \in PVs
  PROVE  Cardinality(Positions(s, x))
           = IF x = Head(s) THEN Cardinality(Positions(Tail(s), x)) + 1
             ELSE Cardinality(Positions(Tail(s), x))
<1> DEFINE t == Tail(s)
           S == Positions(t, x)
           T == {i \in Positions(s, x) : i # 1}
           f == [i \in S |-> i + 1]
<1>1. /\ t \in Seq(PVs) /\ Len(t) = Len(s) - 1 /\ Len(s) \in Nat \ {0}
      /\ DOMAIN s = 1 .. Len(s) /\ DOMAIN t = 1 .. Len(s) - 1
      /\ \A i \in 1 .. Len(s) - 1 : t[i] = s[i + 1]
  BY HeadTailProperties, LenProperties, EmptySeq
<1>2. Head(s) = s[1]
  OBVIOUS
<1>3. IsFiniteSet(S)
  BY <1>1, PositionsFinite
<1>4. IsFiniteSet(T) /\ Cardinality(T) = Cardinality(S)
  <2>1. \A i \in S : i \in 1 .. Len(s) - 1 /\ t[i] = x
    BY <1>1 DEF Positions
  <2>2. \A i \in S : i + 1 \in T
    BY <1>1, <2>1 DEF Positions
  <2>3. \A j \in T : j - 1 \in S /\ (j - 1) + 1 = j
    BY <1>1 DEF Positions
  <2> HIDE DEF S, T, t
  <2>4. f \in [S -> T]
    BY <2>2
  <2>5. f \in Injection(S, T)
    BY <2>1, <2>4, <1>1 DEF Injection, IsInjective
  <2>6. f \in Surjection(S, T)
    BY <2>3, <2>4 DEF Surjection
  <2>7. ExistsBijection(S, T)
    BY <2>5, <2>6 DEF ExistsBijection, Bijection
  <2> QED BY <1>3, <2>7, FS_Bijection
<1>5. CASE x = Head(s)
  <2>1. Positions(s, x) = T \cup {1}
    BY <1>1, <1>2, <1>5 DEF Positions
  <2>2. 1 \notin T
    OBVIOUS
  <2> HIDE DEF S, T
  <2> QED BY <1>4, <1>5, <2>1, <2>2, FS_AddElement DEF S
<1>6. CASE x # Head(s)
  <2>1. Positions(s, x) = T
    BY <1>1, <1>2, <1>6 DEF Positions
  <2> HIDE DEF S, T
  <2> QED BY <1>4, <1>6, <2>1 DEF S
<1> QED BY <1>5, <1>6

OpenChans == {c \in Chans : chan[c] # NoPV}

(* The open channels are finitely many.                                    *)
LEMMA OpenFinite ==
  IsFiniteSet(OpenChans) /\ Cardinality(OpenChans) \in Nat
    /\ Cardinality(OpenChans) <= Cardinality(Chans) /\ Cardinality(Chans) \in Nat
<1>1. OpenChans \in SUBSET Chans
  BY DEF OpenChans
<1> QED BY <1>1, OpsAssumption, FS_Subset, FS_CardinalityType

(* A channel that closes finds an attachment to take off, counted.         *)
LEMMA SomeAttached ==
  ASSUME Charges, NEW c \in Chans, chan[c] # NoPV
  PROVE  attached # <<>> /\ Head(attached) \in PVs /\ count[Head(attached)] \in Nat \ {0}
<1>1. OpenChans # {}
  BY DEF OpenChans
<1>2. attached \in Seq(PVs) /\ Len(attached) = Cardinality(OpenChans)
  BY DEF Charges, OpenChans
<1>3. Cardinality(OpenChans) # 0
  BY <1>1, OpenFinite, FS_EmptySet
<1>4. attached # <<>>
  BY <1>2, <1>3
<1>5. Head(attached) \in PVs
  BY <1>2, <1>4, HeadTailProperties
<1>6. Tail(attached) \in Seq(PVs)
  BY <1>2, <1>4, HeadTailProperties
<1>7. Cardinality(Positions(Tail(attached), Head(attached))) \in Nat
  BY <1>6, PositionsFinite
<1>8. count[Head(attached)] = Cardinality(Positions(Tail(attached), Head(attached))) + 1
  BY <1>2, <1>4, <1>5, PositionsTail DEF Charges
<1> QED BY <1>4, <1>5, <1>7, <1>8

-----------------------------------------------------------------------------
(* The tables and the attachments at first.                                *)
LEMMA ChargesInit == Init => Tables /\ Charges
<1> SUFFICES ASSUME Init PROVE Tables /\ Charges
  OBVIOUS
<1>1. Tables
  BY DEF Init, Tables
<1>2. {c \in Chans : chan[c] # NoPV} = {}
  BY DEF Init
<1>3. attached \in Seq(PVs) /\ Len(attached) = 0 /\ DOMAIN attached = {}
  BY DEF Init
<1>4. \A p \in PVs : Positions(attached, p) = {}
  BY <1>3 DEF Positions
<1>5. chan \in [Chans -> PVs \cup {NoPV}] /\ doomed = {} /\ count = [p \in PVs |-> 0]
  BY DEF Init
<1> QED BY <1>1, <1>2, <1>3, <1>4, <1>5, FS_EmptySet DEF Charges

(* Forced disconnects leave the attachments alone.                         *)
LEMMA ChargesKept ==
  ASSUME Tables, Charges, UNCHANGED <<chan, attached, count>>, doomed' \subseteq doomed \cup OpenChans
  PROVE  Charges'
BY DEF Charges, OpenChans

(* What a channel that opens does to the tables and the queues ...         *)
LEMMA OpensCharge ==
  ASSUME Tables, Charges, NEW c \in Chans, ChannelOpens(c)
  PROVE  Tables' /\ Charges' /\ served \in PVs /\ served \in alive
         /\ count' = [count EXCEPT ![served] = count[served] + 1]
         /\ count'[served] # 0
         /\ (count[served] = 0 => Send(served, "first"))
         /\ (count[served] # 0 => UNCHANGED queue)
<1>1. served \in PVs /\ served \in alive /\ served # NoPV
  BY OpsAssumption DEF Tables, ChannelOpens
<1>2. /\ chan[c] = NoPV /\ chan' = [chan EXCEPT ![c] = served]
      /\ attached' = Append(attached, served)
      /\ count' = [count EXCEPT ![served] = @ + 1]
      /\ doomed' = doomed
      /\ UNCHANGED tables
      /\ IF count[served] = 0 THEN Send(served, "first") ELSE UNCHANGED queue
  BY DEF ChannelOpens
<1>3. Tables'
  BY <1>2 DEF Tables, tables
<1>4. chan' \in [Chans -> PVs \cup {NoPV}] /\ doomed' \subseteq {x \in Chans : chan'[x] # NoPV}
  BY <1>1, <1>2 DEF Charges
<1>5. {x \in Chans : chan'[x] # NoPV} = OpenChans \cup {c} /\ c \notin OpenChans
  BY <1>1, <1>2 DEF Charges, OpenChans
<1>6. Len(attached) = Cardinality(OpenChans) /\ attached \in Seq(PVs) /\ count \in [PVs -> Nat]
  BY DEF Charges, OpenChans
<1>7. attached' \in Seq(PVs) /\ Len(attached') = Len(attached) + 1
  BY <1>1, <1>2, <1>6, AppendProperties
<1>8. Cardinality(OpenChans \cup {c}) = Cardinality(OpenChans) + 1
  BY <1>5, OpenFinite, FS_AddElement
<1>9. \A p \in PVs : count'[p] = Cardinality(Positions(attached', p))
  BY <1>1, <1>2, <1>6, PositionsAppend DEF Charges
<1>10. count' \in [PVs -> Nat] /\ count'[served] # 0
  BY <1>1, <1>2, <1>6
<1>11. Charges'
  BY <1>4, <1>5, <1>6, <1>7, <1>8, <1>9, <1>10 DEF Charges
<1> QED BY <1>1, <1>2, <1>3, <1>10, <1>11

(* ... and one that closes, charged to the oldest attachment.              *)
LEMMA ClosesCharge ==
  ASSUME Tables, Charges, NEW c \in Chans, ChannelCloses(c)
  PROVE  Tables' /\ Charges'
         /\ \E p \in PVs : /\ count[p] \in Nat \ {0} /\ count' = [count EXCEPT ![p] = count[p] - 1]
                           /\ count[p] = 1 => Send(p, "last")
                           /\ count[p] # 1 => UNCHANGED queue
<1> DEFINE p == Head(attached)
<1>1. attached # <<>> /\ p \in PVs /\ count[p] \in Nat \ {0} /\ chan[c] # NoPV
  BY SomeAttached DEF ChannelCloses
<1>2. /\ chan' = [chan EXCEPT ![c] = NoPV] /\ doomed' = doomed \ {c}
      /\ attached' = Tail(attached)
      /\ count' = [count EXCEPT ![p] = @ - 1]
      /\ UNCHANGED tables
      /\ IF count[p] = 1 THEN Send(p, "last") ELSE UNCHANGED queue
  BY DEF ChannelCloses
<1>3. Tables'
  BY <1>2 DEF Tables, tables
<1>4. chan' \in [Chans -> PVs \cup {NoPV}] /\ doomed' \subseteq {x \in Chans : chan'[x] # NoPV}
  BY <1>2 DEF Charges
<1>5. {x \in Chans : chan'[x] # NoPV} = OpenChans \ {c} /\ c \in OpenChans
  BY <1>1, <1>2 DEF Charges, OpenChans
<1>6. Len(attached) = Cardinality(OpenChans) /\ attached \in Seq(PVs) /\ count \in [PVs -> Nat]
  BY DEF Charges, OpenChans
<1>7. attached' \in Seq(PVs) /\ Len(attached') = Len(attached) - 1
  BY <1>1, <1>2, <1>6, HeadTailProperties
<1>8. Cardinality(OpenChans \ {c}) = Cardinality(OpenChans) - 1
  BY <1>5, OpenFinite, FS_RemoveElement
<1>9. \A x \in PVs : count'[x] = Cardinality(Positions(attached', x))
  <2> TAKE x \in PVs
  <2>1. count[x] = Cardinality(Positions(attached, x))
    BY DEF Charges
  <2>2. Cardinality(Positions(attached', x)) \in Nat
    BY <1>7, PositionsFinite
  <2>3. Cardinality(Positions(attached, x)) =
          IF x = p THEN Cardinality(Positions(attached', x)) + 1
          ELSE Cardinality(Positions(attached', x))
    BY <1>1, <1>2, <1>6, PositionsTail
  <2>4. count'[x] = IF x = p THEN count[x] - 1 ELSE count[x]
    BY <1>1, <1>2, <1>6
  <2> QED BY <2>1, <2>2, <2>3, <2>4
<1>10. count' \in [PVs -> Nat]
  <2>1. \A x \in PVs : count'[x] = IF x = p THEN count[x] - 1 ELSE count[x]
    BY <1>1, <1>2, <1>6
  <2>2. count' \in [PVs -> Int] /\ \A x \in PVs : count'[x] \in Nat
    BY <1>1, <1>2, <1>6, <2>1
  <2> QED BY <2>2
<1>11. Charges'
  BY <1>4, <1>5, <1>6, <1>7, <1>8, <1>9, <1>10 DEF Charges
<1> HIDE DEF p
<1> QED BY <1>1, <1>2, <1>3, <1>11

(* Every step keeps the tables and the attachments in agreement.           *)
LEMMA ChargesStep ==
  ASSUME Tables, Charges, [Next]_vars
  PROVE  Tables' /\ Charges'
<1>1. CASE UNCHANGED <<tables, channels>>
  BY <1>1 DEF tables, channels, Tables, Charges
<1>2. ASSUME NEW p \in PVs, Add(p) \/ Open(p) \/ Close(p) \/ Collect(p) \/ CloseSync(p)
      PROVE  Tables' /\ Charges'
  <2>1. Tables'
    BY <1>2 DEF Add, Open, Close, Collect, CloseSync, Shut, Tables
  <2>2. UNCHANGED <<chan, attached, count>> /\ doomed' \subseteq doomed \cup OpenChans
    BY <1>2, OpsAssumption
    DEF Add, Open, Close, Collect, CloseSync, Shut, channels, OpenChans
  <2> QED BY <2>1, <2>2, ChargesKept
<1>3. ASSUME Remove PROVE Tables' /\ Charges'
  BY <1>3 DEF Remove, Tables, Charges, channels
<1>4. ASSUME NEW c \in Chans, ChannelOpens(c) \/ ChannelCloses(c)
      PROVE  Tables' /\ Charges'
  BY <1>4, OpensCharge, ClosesCharge
<1>5. ASSUME NEW p \in PVs, HookTaskEnds(p) PROVE UNCHANGED <<tables, channels>>
  BY <1>5 DEF HookTaskEnds
<1>6. ASSUME NEW o \in Ops, \/ \E b \in BOOLEAN : PutStarts(o, b) \/ RpcStarts(o, b)
                            \/ GiveUp(o) \/ Released(o) \/ \E a \in {"ok", "err"} : Done(o, a)
      PROVE UNCHANGED <<tables, channels>>
  BY <1>6 DEF PutStarts, RpcStarts, RunOp, GiveUp, Released, OpReleased, Done
<1>7. ASSUME NEW q \in Queues, Receive(q) \/ DrainEnds(q) \/ HandlerEnds(q) \/ Stop(q) \/ FreeQueue(q)
      PROVE UNCHANGED <<tables, channels>>
  BY <1>7 DEF Receive, DrainEnds, HandlerEnds, OpHandlerEnds, HookEnds, Stop, FreeQueue
<1>8. ASSUME Gathered \/ \E late \in BOOLEAN : CloseReturns(late)
      PROVE UNCHANGED <<tables, channels>>
  BY <1>8 DEF Gathered, CloseReturns
<1>9. CASE UNCHANGED vars
  BY <1>1, <1>9 DEF vars, tables, channels
<1> QED BY <1>1, <1>2, <1>3, <1>4, <1>5, <1>6, <1>7, <1>8, <1>9 DEF Next

-----------------------------------------------------------------------------
(* The kinds of events ...                                                 *)
LEMMA EventFacts ==
  ASSUME NEW ev \in Event
  PROVE  /\ ev.pv \in PVs /\ ev.kind \in {"op", "first", "last"}
         /\ ev.kind = "op" => ev.op \in Ops
BY DEF Event

(* ... and the states of a drain loop.                                     *)
LEMMA LoopFacts ==
  ASSUME NEW w \in Loops
  PROVE  /\ w.st \in {"idle", "ended", "busy"}
         /\ w = Idle <=> w.st = "idle"
         /\ w.st = "busy" => w.ev \in Event
BY DEF Loops, Idle

(* finish() uses the sender up and answers a client that still waits.      *)
LEMMA FinishFacts ==
  ASSUME NEW r \in Operation, NEW a \in {"ok", "err", "lost"}
  PROVE  LET f == Finish(r, a) IN
         /\ f \in Operation /\ f.st = r.st /\ f.pv = r.pv /\ f.tx = FALSE
         /\ f.ans = IF r.tx /\ r.ans # "left" THEN a ELSE r.ans
BY DEF Finish, Operation

(* A drop does so too, and the operation is gone.                          *)
LEMMA DropFacts ==
  ASSUME NEW r \in Operation
  PROVE  LET d == Drop(r) IN
         /\ d \in Operation /\ d.st = "gone" /\ d.pv = r.pv /\ d.tx = FALSE
         /\ d.ans = IF r.tx /\ r.ans # "left" THEN "lost" ELSE r.ans
<1> DEFINE f == Finish(r, "lost")
<1>1. /\ f \in Operation /\ f.st = r.st /\ f.pv = r.pv /\ f.tx = FALSE
      /\ f.ans = IF r.tx /\ r.ans # "left" THEN "lost" ELSE r.ans
  BY FinishFacts
<1>2. Drop(r) = [f EXCEPT !.st = "gone"]
  BY DEF Drop
<1> HIDE DEF f
<1> QED BY <1>1, <1>2 DEF Operation

(* The fields an operation keeps.                                          *)
LEMMA RecordFacts ==
  ASSUME NEW r \in Operation, NEW s \in {"new", "queued", "held", "kept", "task", "gone"},
         NEW a \in {"none", "ok", "err", "lost", "left"}
  PROVE  /\ [r EXCEPT !.st = s] \in Operation
         /\ [r EXCEPT !.st = s].st = s /\ [r EXCEPT !.st = s].tx = r.tx
         /\ [r EXCEPT !.st = s].ans = r.ans /\ [r EXCEPT !.st = s].pv = r.pv
         /\ [r EXCEPT !.ans = a] \in Operation
         /\ [r EXCEPT !.ans = a].st = r.st /\ [r EXCEPT !.ans = a].tx = r.tx
         /\ [r EXCEPT !.ans = a].ans = a /\ [r EXCEPT !.ans = a].pv = r.pv
BY DEF Operation

(* An event is added at the end of one queue.                              *)
Sent(q, ev) == /\ queue' = [queue EXCEPT ![q] = Append(queue[q], ev)]
               /\ q \notin freed

(* The events keep their positions, the new one comes last.                *)
LEMMA SentFacts ==
  ASSUME Shape, NEW q \in Queues, NEW ev \in Event, Sent(q, ev)
  PROVE  /\ queue' \in [Queues -> Seq(Event)]
         /\ \A r \in Queues : r # q => queue'[r] = queue[r]
         /\ DOMAIN queue[q] = 1 .. Len(queue[q]) /\ Len(queue[q]) \in Nat
         /\ DOMAIN queue'[q] = 1 .. Len(queue[q]) + 1
         /\ \A i \in 1 .. Len(queue[q]) : queue'[q][i] = queue[q][i]
         /\ queue'[q][Len(queue[q]) + 1] = ev
<1>1. queue[q] \in Seq(Event) /\ queue \in [Queues -> Seq(Event)]
  BY DEF Shape
<1>2. queue'[q] = Append(queue[q], ev) /\ \A r \in Queues : r # q => queue'[r] = queue[r]
  BY <1>1 DEF Sent
<1>3. /\ queue'[q] \in Seq(Event) /\ Len(queue'[q]) = Len(queue[q]) + 1
      /\ \A i \in 1 .. Len(queue[q]) : queue'[q][i] = queue[q][i]
      /\ queue'[q][Len(queue[q]) + 1] = ev
  BY <1>1, <1>2, AppendProperties
<1>4. queue' \in [Queues -> Seq(Event)]
  BY <1>1, <1>3 DEF Sent
<1> QED BY <1>1, <1>2, <1>3, <1>4, LenProperties

(* An edge goes into the queue of its PV unless the queue is gone.         *)
LEMMA Sends ==
  ASSUME Tables, Shape, NEW p \in PVs, NEW kind \in {"first", "last"}, Send(p, kind)
  PROVE  /\ queueOf[p] \in Queues /\ [pv |-> p, kind |-> kind] \in Event
         /\ (UNCHANGED queue /\ queueOf[p] \in freed) \/ Sent(queueOf[p], [pv |-> p, kind |-> kind])
<1>1. queueOf[p] \in Queues
  BY OpsAssumption DEF Tables
<1> QED BY <1>1 DEF Send, Sent, Event

(* A loop takes the oldest event of its queue.                             *)
Taken(q) == queue[q] # <<>> /\ queue' = [queue EXCEPT ![q] = Tail(queue[q])]

(* The events move up by one.                                              *)
LEMMA TakenFacts ==
  ASSUME Shape, NEW q \in Queues, Taken(q)
  PROVE  /\ queue' \in [Queues -> Seq(Event)]
         /\ \A r \in Queues : r # q => queue'[r] = queue[r]
         /\ DOMAIN queue[q] = 1 .. Len(queue[q]) /\ Len(queue[q]) \in Nat \ {0}
         /\ DOMAIN queue'[q] = 1 .. Len(queue[q]) - 1
         /\ \A i \in 1 .. Len(queue[q]) - 1 : queue'[q][i] = queue[q][i + 1]
         /\ Head(queue[q]) = queue[q][1] /\ Head(queue[q]) \in Event
<1>1. queue[q] \in Seq(Event) /\ queue \in [Queues -> Seq(Event)] /\ queue[q] # <<>>
  BY DEF Shape, Taken
<1>2. queue'[q] = Tail(queue[q]) /\ \A r \in Queues : r # q => queue'[r] = queue[r]
  BY <1>1 DEF Taken
<1>3. /\ queue'[q] \in Seq(Event) /\ Len(queue'[q]) = Len(queue[q]) - 1
      /\ \A i \in 1 .. Len(queue'[q]) : queue'[q][i] = queue[q][i + 1]
      /\ Head(queue[q]) \in Event /\ Len(queue[q]) \in Nat \ {0}
  BY <1>1, <1>2, HeadTailProperties, EmptySeq
<1>4. queue' \in [Queues -> Seq(Event)]
  BY <1>1, <1>3 DEF Taken
<1>5. Head(queue[q]) = queue[q][1]
  BY <1>1
<1> QED BY <1>1, <1>2, <1>3, <1>4, <1>5, LenProperties

-----------------------------------------------------------------------------
Events == <<queueOf, queue, worker, freed>>

(* Steps that leave the queues and loops alone.                            *)
LEMMA RoutesKept ==
  ASSUME Routes, UNCHANGED Events, alive' \subseteq alive, stopped \subseteq stopped',
         \A q \in Queues : worker[q].st = "busy" => worker[q].ev.pv \in alive'
  PROVE  Routes'
BY DEF Routes, Routed, Events

(* The caller of close(sync=True) is idle or at a step for a PV.           *)
LEMMA CloserFacts ==
  ASSUME NEW k \in Closers
  PROVE  /\ k.st \in {"idle", "gather", "wait", "woken"}
         /\ k = Idle <=> k.st = "idle"
         /\ k # Idle => /\ k \in [pv : PVs, st : {"gather", "wait", "woken"}, ops : SUBSET Ops,
                                  hooks : Nat]
                        /\ k.pv \in PVs /\ k.hooks \in Nat /\ k.ops \subseteq Ops
         /\ k # Idle => \A s \in {"wait", "woken"} : [k EXCEPT !.st = s] \in Closers
         /\ k # Idle /\ k.hooks > 0 => [k EXCEPT !.hooks = k.hooks - 1] \in Closers
BY DEF Closers, Idle

(* The other conjuncts hold at first.                                      *)
LEMMA ShapeInit == Init => Shape /\ Routes /\ Carried /\ Placed /\ AllTold
<1> SUFFICES ASSUME Init PROVE Shape /\ Routes /\ Carried /\ Placed /\ AllTold
  OBVIOUS
<1>1. \A q \in Queues : queue[q] = <<>> /\ DOMAIN queue[q] = {} /\ worker[q].st = "idle"
  BY DEF Init, Idle
<1>2. \A o \in Ops : op[o].st = "new" /\ op[o] \in Operation
  BY DEF Init, Operation
<1>3. Shape
  <2>1. queue \in [Queues -> Seq(Event)] /\ worker \in [Queues -> Loops]
    BY DEF Init, Loops
  <2>2. op \in [Ops -> Operation]
    BY <1>2 DEF Init
  <2>3. /\ hookTasks \in [PVs -> Nat] /\ disconnected \subseteq PVs /\ closer \in Closers
        /\ moves \in 0..MaxMoves /\ freed \subseteq stopped /\ stopped \subseteq Queues
    BY OpsAssumption DEF Init, Closers
  <2> QED BY <2>1, <2>2, <2>3 DEF Shape
<1>4. Routes
  <2>1. freed = {}
    BY DEF Init
  <2> QED BY <1>1, <2>1 DEF Routes, Routed
<1>5. Carried
  BY <1>1 DEF Carried
<1>6. Placed
  BY <1>2 DEF Placed
<1>7. AllTold
  <2> SUFFICES ASSUME NEW p \in alive PROVE Told(p)
    BY DEF AllTold
  <2>1. queueOf[p] \in Queues /\ p \in PVs
    BY OpsAssumption DEF Init
  <2>2. EdgesOf(queue[queueOf[p]], p) = {} /\ ~Handling(p)
    BY <1>1, <2>1 DEF EdgesOf, Handling
  <2>3. count[p] = 0 /\ p \in disconnected
    BY <2>1 DEF Init
  <2> QED BY <2>2, <2>3 DEF Told
<1> QED BY <1>3, <1>4, <1>5, <1>6, <1>7

(* What each action does to the queues, the loops and the operations.      *)
OpEvent(p, o) == [pv |-> p, kind |-> "op", op |-> o]

(* An operation that starts is refused or queued with its PV.              *)
LEMMA Starts ==
  ASSUME Tables, Shape, Routes, NEW o \in Ops, NEW b \in BOOLEAN, PutStarts(o, b) \/ RpcStarts(o, b)
  PROVE  /\ op[o].st = "new" /\ moves' \in 0 .. MaxMoves
         /\ UNCHANGED <<tables, channels, stopped, freed, worker, hookTasks, disconnected, closer>>
         /\ \/ /\ op' = [op EXCEPT ![o] = [op[o] EXCEPT !.st = "gone", !.ans = "err"]]
               /\ UNCHANGED queue
            \/ /\ served \in PVs /\ queueOf[served] \in Queues /\ OpEvent(served, o) \in Event
               /\ op' = [op EXCEPT ![o] = [st |-> "queued", tx |-> TRUE, ans |-> "none",
                                           pv |-> served]]
               /\ Sent(queueOf[served], OpEvent(served, o))
<1>1. PICK r \in BOOLEAN : RunOp(o, r) /\ (~r => served \in PVs)
  BY OpsAssumption DEF PutStarts, RpcStarts, Tables
<1>2. op[o].st = "new" /\ moves' \in 0 .. MaxMoves
      /\ UNCHANGED <<tables, channels, stopped, freed, worker, hookTasks, disconnected, closer>>
  BY <1>1, OpsAssumption DEF RunOp, Move, Shape
<1>3. CASE r \/ queueOf[served] \in freed
  BY <1>1, <1>2, <1>3 DEF RunOp
<1>4. CASE ~(r \/ queueOf[served] \in freed)
  <2>1. served \in PVs /\ queueOf[served] \in Queues /\ OpEvent(served, o) \in Event
    BY <1>1, <1>4, OpsAssumption DEF Tables, OpEvent, Event
  <2>2. /\ op' = [op EXCEPT ![o] = [st |-> "queued", tx |-> TRUE, ans |-> "none",
                                           pv |-> served]]
        /\ Sent(queueOf[served], OpEvent(served, o))
    BY <1>1, <1>4 DEF RunOp, Sent, OpEvent
  <2> QED BY <1>2, <2>1, <2>2
<1> QED BY <1>3, <1>4

(* A loop that receives handles the event of a live PV and drops one of a  *)
(* dead PV.                                                                *)
LEMMA Receives ==
  ASSUME Shape, NEW q \in Queues, Receive(q)
  PROVE  /\ Taken(q) /\ worker[q].st = "idle" /\ q \notin stopped
         /\ UNCHANGED <<tables, channels, stopped, freed, hookTasks, closer, moves>>
         /\ \/ /\ Head(queue[q]).pv \in alive
               /\ worker' = [worker EXCEPT ![q] = [st |-> "busy", ev |-> Head(queue[q])]]
               /\ op' = IF Head(queue[q]).kind = "op"
                        THEN [op EXCEPT ![Head(queue[q]).op] =
                                [op[Head(queue[q]).op] EXCEPT !.st = "held"]] ELSE op
               /\ disconnected' = IF Head(queue[q]).kind = "first"
                                  THEN disconnected \ {Head(queue[q]).pv} ELSE disconnected
            \/ /\ Head(queue[q]).pv \notin alive
               /\ UNCHANGED <<worker, disconnected>>
               /\ op' = IF Head(queue[q]).kind = "op"
                        THEN [op EXCEPT ![Head(queue[q]).op] =
                                Drop(Finish(op[Head(queue[q]).op], "err"))] ELSE op
<1>1. worker[q].st = "idle"
  BY DEF Receive, Idle
<1>2. /\ Taken(q) /\ q \notin stopped
      /\ UNCHANGED <<tables, channels, stopped, freed, hookTasks, closer, moves>>
  BY DEF Receive, Taken
<1> DEFINE ev == Head(queue[q])
<1>3. CASE ev.pv \in alive
  BY <1>1, <1>2, <1>3 DEF Receive
<1>4. CASE ev.pv \notin alive
  BY <1>1, <1>2, <1>4 DEF Receive
<1> QED BY <1>3, <1>4

-----------------------------------------------------------------------------
(* The steps of owners and of close(sync=True) touch no queue, loop or     *)
(* operation.                                                              *)
LEMMA QuietSteps ==
  ASSUME Tables, Tables', Shape, Routes,
         \/ \E p \in PVs : Add(p) \/ Open(p) \/ Close(p) \/ Collect(p) \/ CloseSync(p) \/ HookTaskEnds(p)
         \/ Remove \/ (\E q \in Queues : Stop(q)) \/ Gathered \/ \E late \in BOOLEAN : CloseReturns(late)
         \/ UNCHANGED vars
  PROVE  /\ UNCHANGED <<Events, op, disconnected, count>> /\ alive' \subseteq alive
         /\ Shape' /\ Routes'
<1> DEFINE Good == /\ UNCHANGED <<Events, op, disconnected, count>> /\ alive' \subseteq alive
                   /\ stopped \subseteq stopped' /\ stopped' \subseteq Queues
                   /\ hookTasks' \in [PVs -> Nat] /\ closer' \in Closers /\ moves' \in 0 .. MaxMoves
                   /\ \A q \in Queues : worker[q].st = "busy" => worker[q].ev.pv \in alive'
<1>1. /\ hookTasks \in [PVs -> Nat] /\ closer \in Closers /\ moves \in 0 .. MaxMoves
      /\ stopped \subseteq Queues
      /\ \A q \in Queues : worker[q].st = "busy" => worker[q].ev.pv \in alive
  BY DEF Shape, Routes, Routed
<1>2. Move => moves' \in 0 .. MaxMoves
  BY <1>1, OpsAssumption DEF Move
<1>3. \A p \in PVs : queueOf[p] \in Queues
  BY OpsAssumption DEF Tables
<1>4. ASSUME NEW p \in PVs, Add(p) \/ Open(p) \/ Close(p) PROVE Good
  BY <1>1, <1>2, <1>4 DEF Add, Open, Close, channels, Events
<1>5. ASSUME NEW p \in PVs, Collect(p) PROVE Good
  <2>1. /\ UNCHANGED <<Events, op, disconnected, count, hookTasks, closer>> /\ alive' = alive \ {p}
        /\ stopped' = IF flavour = "loop" THEN stopped \cup {queueOf[p]} ELSE stopped
        /\ moves' \in 0 .. MaxMoves
    BY <1>2, <1>5 DEF Collect, channels, Events
  <2>2. \A q \in Queues : worker[q].st = "busy" => worker[q].ev.pv # p
    BY <1>5 DEF Collect, Idle
  <2> QED BY <1>1, <1>3, <2>1, <2>2
<1>6. ASSUME NEW p \in PVs, CloseSync(p) PROVE Good
  <2>1. /\ UNCHANGED <<Events, op, disconnected, count, hookTasks, alive, stopped>>
        /\ moves' \in 0 .. MaxMoves
    BY <1>2, <1>6 DEF CloseSync, Events
  <2>2. hookTasks[p] \in Nat
    BY <1>1
  <2>3. closer' \in [pv : PVs, st : {"gather", "wait", "woken"}, ops : SUBSET Ops, hooks : Nat]
    BY <1>6, <2>2 DEF CloseSync
  <2>4. closer' \in Closers
    BY <2>3 DEF Closers
  <2> QED BY <1>1, <2>1, <2>4
<1>7. ASSUME NEW p \in PVs, HookTaskEnds(p) PROVE Good
  <2>1. /\ UNCHANGED <<Events, op, disconnected, count, alive, stopped, moves>>
        /\ hookTasks[p] > 0 /\ hookTasks' = [hookTasks EXCEPT ![p] = @ - 1]
    BY <1>7 DEF HookTaskEnds, tables, channels, Events
  <2>2. hookTasks' \in [PVs -> Nat]
    BY <1>1, <2>1
  <2>3. closer' \in Closers
    <3>1. CASE UNCHANGED closer
      BY <1>1, <3>1
    <3>2. CASE ~UNCHANGED closer
      <4>1. closer.st = "gather" /\ closer.hooks > 0 /\ closer' = [closer EXCEPT !.hooks = closer.hooks - 1]
        BY <1>7, <3>2 DEF HookTaskEnds, Gathering
      <4>2. closer # Idle
        BY <4>1 DEF Idle
      <4> QED BY <1>1, <4>1, <4>2, CloserFacts
    <3> QED BY <3>1, <3>2
  <2> QED BY <1>1, <2>1, <2>2, <2>3
<1>8. ASSUME Remove PROVE Good
  BY <1>1, <1>8 DEF Remove, channels, Events
<1>9. ASSUME NEW q \in Queues, Stop(q) PROVE Good
  BY <1>1, <1>2, <1>9 DEF Stop, tables, channels, Events
<1>10. ASSUME Gathered PROVE Good
  <2>1. closer # Idle
    BY <1>10 DEF Gathered, Idle
  <2>2. \/ closer' = [closer EXCEPT !.st = "woken"]
        \/ closer' = [closer EXCEPT !.st = "wait"]
    BY <1>10 DEF Gathered
  <2>3. closer' \in Closers
    BY <1>1, <2>1, <2>2, CloserFacts
  <2> QED BY <1>1, <1>10, <2>3 DEF Gathered, tables, channels, Events
<1>11. ASSUME NEW late \in BOOLEAN, CloseReturns(late) PROVE Good
  <2>1. closer' \in Closers
    BY <1>11 DEF CloseReturns, Closers
  <2> QED BY <1>1, <1>11, <2>1 DEF CloseReturns, tables, channels, Events
<1>12. ASSUME UNCHANGED vars PROVE Good
  <2>1. UNCHANGED <<queueOf, queue, worker, freed, op, disconnected, count, alive, stopped,
                   hookTasks, closer, moves>>
    BY <1>12 DEF vars
  <2> QED BY <1>1, <2>1 DEF Events
<1> HIDE DEF Good
<1>13. Good
  BY <1>4, <1>5, <1>6, <1>7, <1>8, <1>9, <1>10, <1>11, <1>12
<1>14. Routes'
  BY <1>13, RoutesKept DEF Good
<1>15. Shape'
  BY <1>13 DEF Good, Shape, Events
<1> QED BY <1>13, <1>14, <1>15 DEF Good

(* An event sent to the queue of its PV.                                   *)
LEMMA RoutesSent ==
  ASSUME Shape, Routes, NEW q \in Queues, NEW ev \in Event, queueOf[ev.pv] = q, Sent(q, ev),
         UNCHANGED <<queueOf, alive, worker, stopped, freed>>
  PROVE  Routes'
<1>1. /\ \A r \in Queues : r # q => queue'[r] = queue[r]
      /\ DOMAIN queue[q] = 1 .. Len(queue[q]) /\ Len(queue[q]) \in Nat
      /\ DOMAIN queue'[q] = 1 .. Len(queue[q]) + 1
      /\ \A i \in 1 .. Len(queue[q]) : queue'[q][i] = queue[q][i]
      /\ queue'[q][Len(queue[q]) + 1] = ev
  BY SentFacts
<1>2. ASSUME NEW r \in Queues, r # q PROVE Routed(r)'
  BY <1>1, <1>2 DEF Routes, Routed
<1>3. Routed(q)'
  <2>1. q \notin freed
    BY DEF Sent
  <2>2. \A i \in DOMAIN queue'[q] : queueOf[queue'[q][i].pv] = q
    <3> TAKE i \in DOMAIN queue'[q]
    <3>1. CASE i = Len(queue[q]) + 1
      BY <1>1, <3>1
    <3>2. CASE i # Len(queue[q]) + 1
      <4>1. i \in DOMAIN queue[q] /\ queue'[q][i] = queue[q][i]
        BY <1>1, <3>2
      <4> QED BY <4>1 DEF Routes, Routed
    <3> QED BY <3>1, <3>2
  <2> QED BY <2>1, <2>2 DEF Routes, Routed
<1> QED BY <1>2, <1>3 DEF Routes

(* A channel that opens or closes sends at most one edge.                  *)
LEMMA ChannelSteps ==
  ASSUME Tables, Charges, Shape, Routes, NEW c \in Chans, ChannelOpens(c) \/ ChannelCloses(c)
  PROVE  /\ UNCHANGED <<queueOf, alive, worker, stopped, freed, op, disconnected>>
         /\ Shape' /\ Routes'
         /\ \/ UNCHANGED queue
            \/ \E p \in PVs, kind \in {"first", "last"} :
                 /\ queueOf[p] \in Queues /\ [pv |-> p, kind |-> kind] \in Event
                 /\ Sent(queueOf[p], [pv |-> p, kind |-> kind])
<1>1. UNCHANGED <<queueOf, alive, worker, stopped, freed, op, disconnected, hookTasks, closer>>
  BY DEF ChannelOpens, ChannelCloses, tables
<1>2. moves' \in 0 .. MaxMoves
  BY OpsAssumption DEF ChannelOpens, ChannelCloses, Move, Shape
<1>3. \/ UNCHANGED queue
      \/ \E p \in PVs, kind \in {"first", "last"} :
           /\ queueOf[p] \in Queues /\ [pv |-> p, kind |-> kind] \in Event
           /\ Sent(queueOf[p], [pv |-> p, kind |-> kind])
  BY OpensCharge, ClosesCharge, Sends
<1>4. queue' \in [Queues -> Seq(Event)]
  BY <1>3, SentFacts DEF Shape
<1>5. Shape'
  BY <1>1, <1>2, <1>4 DEF Shape
<1>6. Routes'
  <2>1. CASE UNCHANGED queue
    BY <1>1, <2>1 DEF Routes, Routed
  <2>2. ASSUME NEW p \in PVs, NEW kind \in {"first", "last"}, queueOf[p] \in Queues,
               [pv |-> p, kind |-> kind] \in Event, Sent(queueOf[p], [pv |-> p, kind |-> kind])
        PROVE  Routes'
    BY <1>1, <2>2, RoutesSent
  <2> QED BY <1>3, <2>1, <2>2
<1> QED BY <1>1, <1>3, <1>5, <1>6

-----------------------------------------------------------------------------
(* The shapes and the routes when an operation starts ...                  *)
LEMMA StartSteps ==
  ASSUME Tables, Shape, Routes, NEW o \in Ops, NEW b \in BOOLEAN, PutStarts(o, b) \/ RpcStarts(o, b)
  PROVE  Shape' /\ Routes'
<1>1. /\ UNCHANGED <<queueOf, alive, stopped, freed, worker, hookTasks, disconnected, closer>>
      /\ moves' \in 0 .. MaxMoves
  BY Starts DEF tables
<1>2. CASE op' = [op EXCEPT ![o] = [op[o] EXCEPT !.st = "gone", !.ans = "err"]] /\ UNCHANGED queue
  <2>1. [op[o] EXCEPT !.st = "gone", !.ans = "err"] \in Operation
    BY DEF Shape, Operation
  <2>2. op' \in [Ops -> Operation]
    BY <1>2, <2>1 DEF Shape
  <2>3. Shape'
    BY <1>1, <1>2, <2>2 DEF Shape
  <2>4. Routes'
    BY <1>1, <1>2 DEF Routes, Routed
  <2> QED BY <2>3, <2>4
<1>3. CASE /\ served \in PVs /\ queueOf[served] \in Queues /\ OpEvent(served, o) \in Event
           /\ op' = [op EXCEPT ![o] = [st |-> "queued", tx |-> TRUE, ans |-> "none",
                                       pv |-> served]]
           /\ Sent(queueOf[served], OpEvent(served, o))
  <2>1. [st |-> "queued", tx |-> TRUE, ans |-> "none", pv |-> served] \in Operation
    BY <1>3 DEF Operation
  <2>2. op' \in [Ops -> Operation]
    BY <1>3, <2>1 DEF Shape
  <2>3. queue' \in [Queues -> Seq(Event)]
    BY <1>3, SentFacts
  <2>4. Shape'
    BY <1>1, <2>2, <2>3 DEF Shape
  <2>5. OpEvent(served, o).pv = served
    BY DEF OpEvent
  <2>6. Routes'
    BY <1>1, <1>3, <2>5, RoutesSent
  <2> QED BY <2>4, <2>6
<1> QED BY <1>2, <1>3, Starts

(* ... when a loop receives ...                                            *)
LEMMA ReceiveSteps ==
  ASSUME Tables, Shape, Routes, NEW q \in Queues, Receive(q)
  PROVE  Shape' /\ Routes'
<1> DEFINE ev == Head(queue[q])
<1>1. /\ Taken(q) /\ worker[q].st = "idle" /\ q \notin stopped
      /\ UNCHANGED <<queueOf, alive, stopped, freed, hookTasks, closer, moves>>
  BY Receives DEF tables
<1>2. /\ queue' \in [Queues -> Seq(Event)]
      /\ \A r \in Queues : r # q => queue'[r] = queue[r]
      /\ DOMAIN queue[q] = 1 .. Len(queue[q]) /\ Len(queue[q]) \in Nat \ {0}
      /\ DOMAIN queue'[q] = 1 .. Len(queue[q]) - 1
      /\ \A i \in 1 .. Len(queue[q]) - 1 : queue'[q][i] = queue[q][i + 1]
      /\ ev = queue[q][1] /\ ev \in Event
  BY <1>1, TakenFacts
<1>3. /\ \/ ev.pv \in alive /\ worker' = [worker EXCEPT ![q] = [st |-> "busy", ev |-> ev]]
         \/ UNCHANGED worker
      /\ disconnected' \subseteq disconnected
  BY Receives
<1>4. \/ UNCHANGED op
      \/ /\ ev.kind = "op"
         /\ \/ op' = [op EXCEPT ![ev.op] = [op[ev.op] EXCEPT !.st = "held"]]
            \/ op' = [op EXCEPT ![ev.op] = Drop(Finish(op[ev.op], "err"))]
  BY Receives
<1> HIDE DEF ev
<1>5. op' \in [Ops -> Operation]
  <2>1. CASE UNCHANGED op
    BY <2>1 DEF Shape
  <2>2. CASE ~UNCHANGED op
    <3>1. ev.op \in Ops /\ op[ev.op] \in Operation
      BY <1>2, <1>4, <2>2, EventFacts DEF Shape
    <3>2. [op[ev.op] EXCEPT !.st = "held"] \in Operation
      BY <3>1, RecordFacts
    <3>3. Finish(op[ev.op], "err") \in Operation
      BY <3>1, FinishFacts
    <3>4. Drop(Finish(op[ev.op], "err")) \in Operation
      BY <3>3, DropFacts
    <3> QED BY <1>4, <2>2, <3>1, <3>2, <3>4 DEF Shape
  <2> QED BY <2>1, <2>2
<1>6. [st |-> "busy", ev |-> ev] \in Loops
  BY <1>2 DEF Loops
<1>7. worker \in [Queues -> Loops]
  BY DEF Shape
<1>8. worker' \in [Queues -> Loops]
  BY <1>3, <1>6, <1>7
<1>9. Shape'
  BY <1>1, <1>2, <1>3, <1>5, <1>8 DEF Shape
<1>10. \A r \in Queues : r # q => worker'[r] = worker[r]
  BY <1>3, <1>7
<1>11. ASSUME NEW r \in Queues, r # q PROVE Routed(r)'
  BY <1>1, <1>2, <1>10, <1>11 DEF Routes, Routed
<1>12. Routed(q)'
  <2>1. q \notin freed
    BY <1>1 DEF Shape
  <2>2. \A i \in DOMAIN queue[q] : queueOf[queue[q][i].pv] = q
    BY DEF Routes, Routed
  <2>3. \A i \in DOMAIN queue'[q] : queueOf[queue'[q][i].pv] = q
    <3> TAKE i \in DOMAIN queue'[q]
    <3>1. queue'[q][i] = queue[q][i + 1] /\ i + 1 \in DOMAIN queue[q]
      BY <1>2
    <3> QED BY <2>2, <3>1
  <2>4. queueOf[ev.pv] = q
    BY <1>2, <2>2
  <2>5. \/ worker'[q].st = "busy" /\ worker'[q].ev = ev /\ ev.pv \in alive
        \/ worker'[q].st = "idle"
    BY <1>1, <1>3, <1>7
  <2> QED BY <1>1, <2>1, <2>3, <2>4, <2>5 DEF Routed
<1> QED BY <1>9, <1>11, <1>12 DEF Routes

(* The steps of a loop that leave the queues alone.                        *)
LEMMA LoopMoves ==
  ASSUME Shape, Routes, NEW q \in Queues, NEW w \in Loops, worker' = [worker EXCEPT ![q] = w],
         w.st # "busy", q \notin freed, w.st = "ended" => q \in stopped,
         UNCHANGED <<queueOf, alive, queue, stopped, freed>>
  PROVE  Routes' /\ worker' \in [Queues -> Loops]
         /\ worker'[q] = w /\ \A r \in Queues : r # q => worker'[r] = worker[r]
<1>1. worker' \in [Queues -> Loops]
         /\ worker'[q] = w /\ \A r \in Queues : r # q => worker'[r] = worker[r]
  BY DEF Shape
<1> QED BY <1>1 DEF Routes, Routed

(* A loop between two events, and one that ended.                          *)
LEMMA IdleFacts == Idle \in Loops /\ Idle.st = "idle"
                   /\ [st |-> "ended"] \in Loops /\ [st |-> "ended"].st = "ended"
BY DEF Idle, Loops

(* A queue whose loop still runs is not gone.                              *)
LEMMA NotFreed ==
  ASSUME Routes, NEW q \in Queues, worker[q].st # "ended"
  PROVE  q \notin freed
BY DEF Routes, Routed

(* ... when a stopped loop ends ...                                        *)
LEMMA DrainSteps ==
  ASSUME Shape, Routes, NEW q \in Queues, DrainEnds(q)
  PROVE  Shape' /\ Routes' /\ worker[q].st = "idle" /\ worker'[q].st = "ended"
         /\ (\A r \in Queues : r # q => worker'[r] = worker[r])
         /\ UNCHANGED <<queueOf, alive, queue, op, disconnected, count>>
<1>1. /\ worker[q].st = "idle" /\ q \in stopped /\ worker' = [worker EXCEPT ![q] = [st |-> "ended"]]
      /\ UNCHANGED <<queueOf, alive, queue, stopped, freed, op, hookTasks, disconnected, closer,
                     moves, count>>
  BY IdleFacts DEF DrainEnds, tables, channels
<1>2. q \notin freed
  BY <1>1, NotFreed
<1>3. /\ Routes' /\ worker' \in [Queues -> Loops] /\ worker'[q].st = "ended"
      /\ \A r \in Queues : r # q => worker'[r] = worker[r]
  BY <1>1, <1>2, IdleFacts, LoopMoves
<1>4. Shape'
  BY <1>1, <1>3 DEF Shape
<1> QED BY <1>1, <1>3, <1>4

(* ... and when an edge hook returns.                                      *)
LEMMA HookSteps ==
  ASSUME Tables, Shape, Routes, NEW q \in Queues, NEW b \in BOOLEAN, HookEnds(q, b)
  PROVE  /\ Shape' /\ Routes' /\ worker[q].st = "busy" /\ worker[q].ev.kind # "op"
         /\ worker[q].ev.pv \in alive /\ queueOf[worker[q].ev.pv] = q
         /\ worker[q].ev.kind \in {"first", "last"}
         /\ worker'[q].st = "idle"
         /\ (\A r \in Queues : r # q => worker'[r] = worker[r])
         /\ UNCHANGED <<queueOf, alive, queue, op, count>>
         /\ disconnected' = IF worker[q].ev.kind = "last" THEN disconnected \cup {worker[q].ev.pv}
                            ELSE disconnected
<1> DEFINE p == worker[q].ev.pv
<1>1. /\ worker[q].st = "busy" /\ worker[q].ev.kind # "op" /\ worker' = [worker EXCEPT ![q] = Idle]
      /\ UNCHANGED <<queueOf, alive, queue, stopped, freed, op, moves, count>>
      /\ disconnected' = IF worker[q].ev.kind = "last" THEN disconnected \cup {p} ELSE disconnected
      /\ hookTasks' = [hookTasks EXCEPT ![p] = @ + 1] \/ UNCHANGED hookTasks
      /\ closer' = Woken(p) \/ UNCHANGED closer
  BY DEF HookEnds, tables, channels
<1>2. worker[q].ev \in Event /\ p \in PVs /\ worker[q].ev.kind \in {"first", "last"}
  BY <1>1, LoopFacts, EventFacts DEF Shape
<1>3. p \in alive /\ queueOf[p] = q
  BY <1>1 DEF Routes, Routed
<1>4. q \notin freed
  BY <1>1, NotFreed
<1>5. /\ Routes' /\ worker' \in [Queues -> Loops] /\ worker'[q].st = "idle"
      /\ \A r \in Queues : r # q => worker'[r] = worker[r]
  BY <1>1, <1>4, IdleFacts, LoopMoves
<1> HIDE DEF p
<1>6. hookTasks' \in [PVs -> Nat] /\ disconnected' \subseteq PVs
  <2>1. hookTasks' \in [PVs -> Nat]
    <3>1. hookTasks \in [PVs -> Nat] /\ hookTasks[p] + 1 \in Nat
      BY <1>2 DEF Shape
    <3>2. hookTasks' = [hookTasks EXCEPT ![p] = hookTasks[p] + 1] \/ hookTasks' = hookTasks
      BY <1>1
    <3> QED BY <3>1, <3>2
  <2>2. disconnected' \subseteq PVs
    BY <1>1, <1>2 DEF Shape
  <2> QED BY <2>1, <2>2
<1>7. closer' \in Closers
  <2>1. CASE closer.st = "wait" /\ closer.pv = p /\ closer' = [closer EXCEPT !.st = "woken"]
    <3>1. closer # Idle
      BY <2>1 DEF Idle
    <3> QED BY <2>1, <3>1, CloserFacts DEF Shape
  <2>2. CASE UNCHANGED closer
    BY <2>2 DEF Shape
  <2> QED BY <1>1, <2>1, <2>2 DEF Woken
<1>8. Shape'
  BY <1>1, <1>5, <1>6, <1>7 DEF Shape
<1> QED BY <1>1, <1>2, <1>3, <1>5, <1>8 DEF p

-----------------------------------------------------------------------------
(* The operations in a queue.                                              *)
LEMMA OpsInFacts ==
  ASSUME NEW s, NEW o
  PROVE  o \in OpsIn(s) <=> \E i \in DOMAIN s : s[i].kind = "op" /\ s[i].op = o
BY DEF OpsIn

(* An operation is in one queue, once ...                                  *)
LEMMA OneQueue ==
  ASSUME Routes, Carried, NEW q \in Queues, NEW i \in DOMAIN queue[q], queue[q][i].kind = "op",
         NEW r \in Queues, NEW j \in DOMAIN queue[r], queue[r][j].kind = "op",
         queue[q][i].op = queue[r][j].op
  PROVE  q = r /\ i = j
<1>1. queueOf[queue[q][i].pv] = q /\ queueOf[queue[r][j].pv] = r
  BY DEF Routes, Routed
<1>2. /\ queue[q][i].pv = op[queue[q][i].op].pv
      /\ queue[r][j].pv = op[queue[r][j].op].pv
  BY DEF Carried
<1>3. q = r
  BY <1>1, <1>2
<1> QED BY <1>3 DEF Carried

(* ... and with one loop.                                                  *)
LEMMA OneLoop ==
  ASSUME Routes, Carried, NEW q \in Queues, NEW r \in Queues, NEW o, Busy(q, o), Busy(r, o)
  PROVE  q = r
<1>1. queueOf[worker[q].ev.pv] = q /\ queueOf[worker[r].ev.pv] = r
  BY DEF Routes, Routed, Busy
<1>2. worker[q].ev.pv = op[o].pv /\ worker[r].ev.pv = op[o].pv
  BY DEF Carried, Busy
<1> QED BY <1>1, <1>2

Slot(r) == r.ans = "none" /\ r.st # "new" => r.tx /\ r.st # "gone"

(* An operation changes where it is, in no queue and with no loop.         *)
LEMMA OpMoves ==
  ASSUME Shape, Carried, Placed, NEW o \in Ops, NEW r \in Operation, op' = [op EXCEPT ![o] = r],
         UNCHANGED <<queue, worker>>, Slot(r),
         \/ r.st = op[o].st /\ r.pv = op[o].pv
         \/ op[o].st \notin {"queued", "held"} /\ r.st \notin {"queued", "held"}
  PROVE  Carried' /\ Placed'
<1>1. op'[o] = r /\ \A x \in Ops : x # o => op'[x] = op[x]
  BY DEF Shape
<1>2. /\ \A q \in Queues : \A i \in DOMAIN queue[q] : queue[q][i] \in Event
      /\ \A q \in Queues : worker[q].st = "busy" => worker[q].ev \in Event
  BY LoopFacts DEF Shape
<1>3. Carried'
  <2> SUFFICES ASSUME NEW q \in Queues
               PROVE  /\ \A i \in DOMAIN queue[q] : queue[q][i].kind = "op" =>
                           op'[queue[q][i].op].st = "queued" /\ op'[queue[q][i].op].pv = queue[q][i].pv
                      /\ worker[q].st = "busy" /\ worker[q].ev.kind = "op" =>
                           op'[worker[q].ev.op].st = "held" /\ op'[worker[q].ev.op].pv = worker[q].ev.pv
    BY DEF Carried
  <2>1. ASSUME NEW i \in DOMAIN queue[q], queue[q][i].kind = "op"
        PROVE  op'[queue[q][i].op].st = "queued" /\ op'[queue[q][i].op].pv = queue[q][i].pv
    <3>1. queue[q][i].op \in Ops
      BY <1>2, <2>1, EventFacts
    <3>2. op[queue[q][i].op].st = "queued" /\ op[queue[q][i].op].pv = queue[q][i].pv
      BY <2>1 DEF Carried
    <3> QED BY <1>1, <3>1, <3>2
  <2>2. ASSUME worker[q].st = "busy", worker[q].ev.kind = "op"
        PROVE  op'[worker[q].ev.op].st = "held" /\ op'[worker[q].ev.op].pv = worker[q].ev.pv
    <3>1. worker[q].ev.op \in Ops
      BY <1>2, <2>2, EventFacts
    <3>2. op[worker[q].ev.op].st = "held" /\ op[worker[q].ev.op].pv = worker[q].ev.pv
      BY <2>2 DEF Carried
    <3> QED BY <1>1, <3>1, <3>2
  <2> QED BY <2>1, <2>2
<1>4. Placed'
  <2> SUFFICES ASSUME NEW x \in Ops
               PROVE  /\ op'[x].st = "queued" => \E q \in Queues : x \in OpsIn(queue[q])
                      /\ op'[x].st = "held" => \E q \in Queues : Busy(q, x)
                      /\ Slot(op'[x])
    BY DEF Placed, Slot, Busy
  <2>1. /\ op[x].st = "queued" => \E q \in Queues : x \in OpsIn(queue[q])
        /\ op[x].st = "held" => \E q \in Queues : Busy(q, x)
        /\ Slot(op[x])
    BY DEF Placed, Slot
  <2>2. CASE x = o
    BY <1>1, <2>1, <2>2
  <2>3. CASE x # o
    BY <1>1, <2>1, <2>3
  <2> QED BY <2>2, <2>3
<1> QED BY <1>3, <1>4

(* No way of answering or dropping leaves a client with no answer to come. *)
LEMMA SlotFinish ==
  ASSUME NEW r \in Operation, NEW a \in {"ok", "err", "lost"}, Slot(r), r.st # "new"
  PROVE  Slot(Finish(r, a)) /\ Slot(Drop(r))
         /\ Slot(Drop(Finish(r, a)))
<1>1. /\ Finish(r, a) \in Operation /\ Finish(r, a).st = r.st
      /\ Finish(r, a).ans = IF r.tx /\ r.ans # "left" THEN a ELSE r.ans
      /\ Finish(r, a).tx = FALSE
  BY FinishFacts
<1>2. Drop(r).st = "gone" /\ Drop(r).ans = IF r.tx /\ r.ans # "left" THEN "lost" ELSE r.ans
  BY DropFacts
<1>3. /\ Drop(Finish(r, a)).st = "gone" /\ Drop(Finish(r, a)).ans = Finish(r, a).ans
  BY <1>1, DropFacts
<1> QED BY <1>1, <1>2, <1>3 DEF Slot

(* The steps of clients and of whoever holds an operation.                 *)
LEMMA OwnerSteps ==
  ASSUME Tables, Shape, Routes, Carried, Placed, NEW o \in Ops,
         \/ GiveUp(o) \/ Released(o) \/ \E a \in {"ok", "err"} : Done(o, a)
  PROVE  /\ Shape' /\ Routes' /\ Carried' /\ Placed'
         /\ UNCHANGED <<queueOf, alive, queue, worker, disconnected, count>>
<1>1. UNCHANGED <<queueOf, alive, queue, worker, stopped, freed, disconnected, hookTasks, closer,
                  moves, count>>
  BY DEF GiveUp, Released, OpReleased, Done, tables, channels
<1>2. op[o] \in Operation /\ Slot(op[o])
  BY DEF Shape, Placed, Slot
<1>3. \E r \in Operation : /\ op' = [op EXCEPT ![o] = r] /\ Slot(r)
                           /\ \/ r.st = op[o].st /\ r.pv = op[o].pv
                              \/ op[o].st \notin {"queued", "held"} /\ r.st \notin {"queued", "held"}
  <2>1. CASE GiveUp(o)
    <3>1. op' = [op EXCEPT ![o] = [op[o] EXCEPT !.ans = "left"]]
      BY <2>1 DEF GiveUp
    <3> DEFINE r == [op[o] EXCEPT !.ans = "left"]
    <3>2. r \in Operation /\ r.st = op[o].st /\ r.pv = op[o].pv /\ r.ans = "left"
      BY <1>2 DEF Operation
    <3> HIDE DEF r
    <3>3. op' = [op EXCEPT ![o] = r]
      BY <3>1 DEF r
    <3> QED BY <3>2, <3>3 DEF Slot
  <2>2. ASSUME NEW a \in {"ok", "err"}, Done(o, a)
        PROVE \E r \in Operation : /\ op' = [op EXCEPT ![o] = r] /\ Slot(r)
                                   /\ r.st = op[o].st /\ r.pv = op[o].pv
    <3>1. op' = [op EXCEPT ![o] = Finish(op[o], a)] /\ op[o].st # "new"
      BY <2>2 DEF Done
    <3> QED BY <1>2, <3>1, FinishFacts, SlotFinish
  <2>3. ASSUME NEW b \in BOOLEAN, OpReleased(o, b)
        PROVE \E r \in Operation : /\ op' = [op EXCEPT ![o] = r] /\ Slot(r)
                                   /\ op[o].st \notin {"queued", "held"} /\ r.st \notin {"queued", "held"}
    <3>1. op[o].st \in {"task", "kept"}
          /\ op' = [op EXCEPT ![o] = Drop(IF b THEN Finish(op[o], "err") ELSE op[o])]
      BY <2>3 DEF OpReleased
    <3>2. CASE b
      <4>1. op' = [op EXCEPT ![o] = Drop(Finish(op[o], "err"))]
        BY <3>1, <3>2
      <4>2. Finish(op[o], "err") \in Operation
        BY <1>2, FinishFacts
      <4>3. /\ Drop(Finish(op[o], "err")) \in Operation /\ Slot(Drop(Finish(op[o], "err")))
            /\ Drop(Finish(op[o], "err")).st = "gone"
        BY <1>2, <3>1, <4>2, DropFacts, SlotFinish
      <4> QED BY <3>1, <4>1, <4>3
    <3>3. CASE ~b
      <4>1. op' = [op EXCEPT ![o] = Drop(op[o])]
        BY <3>1, <3>3
      <4>2. /\ Drop(op[o]) \in Operation /\ Slot(Drop(op[o])) /\ Drop(op[o]).st = "gone"
        BY <1>2, <3>1, DropFacts, SlotFinish
      <4> QED BY <3>1, <4>1, <4>2
    <3> QED BY <3>2, <3>3
  <2> QED BY <2>1, <2>2, <2>3 DEF Released
<1>4. Carried' /\ Placed'
  BY <1>1, <1>3, OpMoves
<1>5. op' \in [Ops -> Operation]
  BY <1>3 DEF Shape
<1>6. Shape'
  BY <1>1, <1>5 DEF Shape
<1>7. Routes'
  BY <1>1 DEF Routes, Routed
<1> QED BY <1>1, <1>4, <1>6, <1>7

-----------------------------------------------------------------------------
(* The types of what is queued or handled, and where its operation says it *)
(* is.                                                                     *)
LEMMA QueuedFacts ==
  ASSUME Shape, Carried, NEW q \in Queues
  PROVE  /\ \A i \in DOMAIN queue[q] : queue[q][i] \in Event
         /\ \A i \in DOMAIN queue[q] : queue[q][i].kind = "op" =>
              queue[q][i].op \in Ops /\ op[queue[q][i].op].st = "queued"
              /\ op[queue[q][i].op].pv = queue[q][i].pv
         /\ worker[q].st = "busy" => worker[q].ev \in Event
         /\ worker[q].st = "busy" /\ worker[q].ev.kind = "op" =>
              worker[q].ev.op \in Ops /\ op[worker[q].ev.op].st = "held"
              /\ op[worker[q].ev.op].pv = worker[q].ev.pv
<1>1. \A i \in DOMAIN queue[q] : queue[q][i] \in Event
  BY DEF Shape
<1>2. worker[q].st = "busy" => worker[q].ev \in Event
  BY LoopFacts DEF Shape
<1> QED BY <1>1, <1>2, EventFacts DEF Carried

(* An edge is sent.                                                        *)
LEMMA CarriedEdge ==
  ASSUME Shape, Carried, Placed, NEW q \in Queues, NEW ev \in Event, Sent(q, ev), ev.kind # "op",
         UNCHANGED <<worker, op>>
  PROVE  Carried' /\ Placed'
<1>1. /\ \A r \in Queues : r # q => queue'[r] = queue[r]
      /\ DOMAIN queue[q] = 1 .. Len(queue[q]) /\ Len(queue[q]) \in Nat
      /\ DOMAIN queue'[q] = 1 .. Len(queue[q]) + 1
      /\ \A i \in 1 .. Len(queue[q]) : queue'[q][i] = queue[q][i]
      /\ queue'[q][Len(queue[q]) + 1] = ev
  BY SentFacts
<1>2. \A i \in DOMAIN queue'[q] : queue'[q][i].kind = "op" => i \in DOMAIN queue[q] /\ queue'[q][i] = queue[q][i]
  BY <1>1
<1>3. \A i \in DOMAIN queue[q] : i \in DOMAIN queue'[q] /\ queue'[q][i] = queue[q][i]
  BY <1>1
<1>4. Carried'
  <2>1. ASSUME NEW r \in Queues, r # q
        PROVE  /\ \A i \in DOMAIN queue'[r] : queue'[r][i].kind = "op" =>
                    /\ op'[queue'[r][i].op].st = "queued" /\ op'[queue'[r][i].op].pv = queue'[r][i].pv
                    /\ \A j \in DOMAIN queue'[r] :
                         queue'[r][j].kind = "op" /\ queue'[r][j].op = queue'[r][i].op => j = i
    BY <1>1, <2>1 DEF Carried
  <2>2. \A i \in DOMAIN queue'[q] : queue'[q][i].kind = "op" =>
          /\ op'[queue'[q][i].op].st = "queued" /\ op'[queue'[q][i].op].pv = queue'[q][i].pv
          /\ \A j \in DOMAIN queue'[q] :
               queue'[q][j].kind = "op" /\ queue'[q][j].op = queue'[q][i].op => j = i
    BY <1>2 DEF Carried
  <2> QED BY <2>1, <2>2 DEF Carried
<1>5. Placed'
  <2> SUFFICES ASSUME NEW o \in Ops
               PROVE  /\ op[o].st = "queued" => \E r \in Queues : o \in OpsIn(queue'[r])
                      /\ op[o].st = "held" => \E r \in Queues : Busy(r, o)
                      /\ op[o].ans = "none" /\ op[o].st # "new" => op[o].tx /\ op[o].st # "gone"
    BY DEF Placed, Busy
  <2>1. \A r \in Queues : o \in OpsIn(queue[r]) => o \in OpsIn(queue'[r])
    <3> TAKE r \in Queues
    <3>1. CASE r = q
      BY <1>3, <3>1, OpsInFacts
    <3>2. CASE r # q
      BY <1>1, <3>2
    <3> QED BY <3>1, <3>2
  <2> QED BY <2>1 DEF Placed
<1> QED BY <1>4, <1>5

(* An operation is queued.                                                 *)
LEMMA CarriedStart ==
  ASSUME Shape, Routes, Carried, Placed, NEW q \in Queues, NEW p \in PVs, NEW o \in Ops,
         op[o].st = "new", OpEvent(p, o) \in Event, Sent(q, OpEvent(p, o)),
         op' = [op EXCEPT ![o] = [st |-> "queued", tx |-> TRUE, ans |-> "none", pv |-> p]],
         UNCHANGED worker
  PROVE  Carried' /\ Placed'
<1> DEFINE ev == OpEvent(p, o)
<1>0. ev.kind = "op" /\ ev.op = o /\ ev.pv = p
  BY DEF OpEvent
<1> HIDE DEF ev
<1>1. /\ \A r \in Queues : r # q => queue'[r] = queue[r]
      /\ DOMAIN queue[q] = 1 .. Len(queue[q]) /\ Len(queue[q]) \in Nat
      /\ DOMAIN queue'[q] = 1 .. Len(queue[q]) + 1
      /\ \A i \in 1 .. Len(queue[q]) : queue'[q][i] = queue[q][i]
      /\ queue'[q][Len(queue[q]) + 1] = ev
  BY SentFacts DEF ev
<1>2. /\ op'[o].st = "queued" /\ op'[o].pv = p /\ op'[o].tx /\ \A x \in Ops : x # o => op'[x] = op[x]
  BY DEF Shape
<1>3. \A r \in Queues : \A i \in DOMAIN queue[r] : queue[r][i].kind = "op" =>
        queue[r][i].op \in Ops /\ queue[r][i].op # o
  BY QueuedFacts
<1>4. \A r \in Queues : worker[r].st = "busy" /\ worker[r].ev.kind = "op" =>
        worker[r].ev.op \in Ops /\ worker[r].ev.op # o
  BY QueuedFacts
<1>5. \A i \in DOMAIN queue'[q] : \/ i \in DOMAIN queue[q] /\ queue'[q][i] = queue[q][i]
                                  \/ i = Len(queue[q]) + 1 /\ queue'[q][i] = ev
  BY <1>1
<1>6. Carried'
  <2>1. ASSUME NEW r \in Queues, r # q
        PROVE  /\ \A i \in DOMAIN queue'[r] : queue'[r][i].kind = "op" =>
                    /\ op'[queue'[r][i].op].st = "queued" /\ op'[queue'[r][i].op].pv = queue'[r][i].pv
                    /\ \A j \in DOMAIN queue'[r] :
                         queue'[r][j].kind = "op" /\ queue'[r][j].op = queue'[r][i].op => j = i
    BY <1>1, <1>2, <1>3, <2>1 DEF Carried
  <2>2. ASSUME NEW i \in DOMAIN queue'[q], queue'[q][i].kind = "op"
        PROVE  /\ op'[queue'[q][i].op].st = "queued" /\ op'[queue'[q][i].op].pv = queue'[q][i].pv
               /\ \A j \in DOMAIN queue'[q] :
                    queue'[q][j].kind = "op" /\ queue'[q][j].op = queue'[q][i].op => j = i
    <3>1. CASE i \in DOMAIN queue[q] /\ queue'[q][i] = queue[q][i]
      BY <1>0, <1>2, <1>3, <1>5, <2>2, <3>1 DEF Carried
    <3>2. CASE i = Len(queue[q]) + 1 /\ queue'[q][i] = ev
      BY <1>0, <1>2, <1>3, <1>5, <3>2
    <3> QED BY <1>5, <3>1, <3>2
  <2>3. ASSUME NEW r \in Queues, worker[r].st = "busy", worker[r].ev.kind = "op"
        PROVE  op'[worker[r].ev.op].st = "held" /\ op'[worker[r].ev.op].pv = worker[r].ev.pv
    BY <1>2, <1>4, <2>3 DEF Carried
  <2> QED BY <2>1, <2>2, <2>3 DEF Carried
<1>7. Placed'
  <2> SUFFICES ASSUME NEW x \in Ops
               PROVE  /\ op'[x].st = "queued" => \E r \in Queues : x \in OpsIn(queue'[r])
                      /\ op'[x].st = "held" => \E r \in Queues : Busy(r, x)
                      /\ op'[x].ans = "none" /\ op'[x].st # "new" => op'[x].tx /\ op'[x].st # "gone"
    BY DEF Placed, Busy
  <2>1. CASE x = o
    <3>1. x \in OpsIn(queue'[q])
      BY <1>0, <1>1, <2>1, OpsInFacts
    <3> QED BY <1>2, <2>1, <3>1
  <2>2. CASE x # o
    <3>1. \A r \in Queues : x \in OpsIn(queue[r]) => x \in OpsIn(queue'[r])
      <4> TAKE r \in Queues
      <4>1. CASE r = q
        BY <1>1, <4>1, OpsInFacts
      <4>2. CASE r # q
        BY <1>1, <4>2
      <4> QED BY <4>1, <4>2
    <3> QED BY <1>2, <2>2, <3>1 DEF Placed
  <2> QED BY <2>1, <2>2
<1> QED BY <1>6, <1>7

(* The places of the operations when one starts ...                        *)
LEMMA StartCarries ==
  ASSUME Tables, Shape, Routes, Carried, Placed, NEW o \in Ops, NEW b \in BOOLEAN,
         PutStarts(o, b) \/ RpcStarts(o, b)
  PROVE  Carried' /\ Placed'
<1>1. op[o].st = "new" /\ UNCHANGED worker
  BY Starts
<1>2. CASE op' = [op EXCEPT ![o] = [op[o] EXCEPT !.st = "gone", !.ans = "err"]] /\ UNCHANGED queue
  <2> DEFINE r == [op[o] EXCEPT !.st = "gone", !.ans = "err"]
  <2>1. r \in Operation /\ r.st = "gone" /\ r.ans = "err"
    BY DEF Shape, Operation
  <2>2. op' = [op EXCEPT ![o] = r]
    BY <1>2
  <2> HIDE DEF r
  <2> QED BY <1>1, <1>2, <2>1, <2>2, OpMoves DEF Slot
<1>3. CASE /\ served \in PVs /\ queueOf[served] \in Queues /\ OpEvent(served, o) \in Event
           /\ op' = [op EXCEPT ![o] = [st |-> "queued", tx |-> TRUE, ans |-> "none",
                                       pv |-> served]]
           /\ Sent(queueOf[served], OpEvent(served, o))
  BY <1>1, <1>3, CarriedStart
<1> QED BY <1>2, <1>3, Starts

-----------------------------------------------------------------------------
(* A loop takes an edge, or an event it drops unhandled; the operation it  *)
(* takes is held by it, or gone.                                           *)
LEMMA ReceiveCarries ==
  ASSUME Tables, Shape, Routes, Carried, Placed, NEW q \in Queues, Receive(q), Shape'
  PROVE  Carried' /\ Placed'
<1> DEFINE ev == Head(queue[q])  o == ev.op
<1>1. Taken(q) /\ worker[q].st = "idle"
  BY Receives
<1>2. /\ \A r \in Queues : r # q => queue'[r] = queue[r]
      /\ DOMAIN queue[q] = 1 .. Len(queue[q]) /\ Len(queue[q]) \in Nat \ {0}
      /\ DOMAIN queue'[q] = 1 .. Len(queue[q]) - 1
      /\ \A i \in 1 .. Len(queue[q]) - 1 : queue'[q][i] = queue[q][i + 1]
      /\ ev = queue[q][1] /\ ev \in Event
  BY <1>1, TakenFacts
<1>3. /\ worker \in [Queues -> Loops]
      /\ \/ worker' = [worker EXCEPT ![q] = [st |-> "busy", ev |-> ev]]
         \/ UNCHANGED worker
  BY Receives DEF Shape
<1>4. ev.kind # "op" => UNCHANGED op
  BY Receives
<1>5. ev.kind = "op" =>
        \/ /\ worker' = [worker EXCEPT ![q] = [st |-> "busy", ev |-> ev]]
           /\ op' = [op EXCEPT ![o] = [op[o] EXCEPT !.st = "held"]]
        \/ /\ UNCHANGED worker
           /\ op' = [op EXCEPT ![o] = Drop(Finish(op[o], "err"))]
  BY Receives
<1>6. ev.kind = "op" => o \in Ops /\ op[o].st = "queued" /\ op[o].pv = ev.pv
  BY <1>2, QueuedFacts
<1> HIDE DEF ev, o
<1>7. \A r \in Queues : r # q => worker'[r] = worker[r]
  BY <1>3
<1>8. \/ worker'[q] = [st |-> "busy", ev |-> ev]
      \/ worker'[q] = worker[q]
  BY <1>3
<1>9. \A i \in DOMAIN queue'[q] : i + 1 \in DOMAIN queue[q] /\ queue'[q][i] = queue[q][i + 1] /\ i + 1 # 1
  BY <1>2
<1>10. \A i \in DOMAIN queue[q] : i # 1 => i - 1 \in DOMAIN queue'[q] /\ queue'[q][i - 1] = queue[q][i]
  BY <1>2
<1>11. 1 \in DOMAIN queue[q]
  BY <1>2
<1>12. CASE ev.kind # "op"
  <2>1. UNCHANGED op
    BY <1>4, <1>12
  <2>2. \A r \in Queues, x \in Ops : Busy(r, x)' <=> Busy(r, x)
    BY <1>1, <1>7, <1>8, <1>12 DEF Busy
  <2>3. Carried'
    <3>1. ASSUME NEW r \in Queues, r # q
          PROVE  /\ \A i \in DOMAIN queue'[r] : queue'[r][i].kind = "op" =>
                      /\ op[queue'[r][i].op].st = "queued" /\ op[queue'[r][i].op].pv = queue'[r][i].pv
                      /\ \A j \in DOMAIN queue'[r] :
                           queue'[r][j].kind = "op" /\ queue'[r][j].op = queue'[r][i].op => j = i
                 /\ worker'[r].st = "busy" /\ worker'[r].ev.kind = "op" =>
                      op[worker'[r].ev.op].st = "held" /\ op[worker'[r].ev.op].pv = worker'[r].ev.pv
      BY <1>2, <1>7, <3>1 DEF Carried
    <3>2. ASSUME NEW i \in DOMAIN queue'[q], queue'[q][i].kind = "op"
          PROVE  /\ op[queue'[q][i].op].st = "queued" /\ op[queue'[q][i].op].pv = queue'[q][i].pv
                 /\ \A j \in DOMAIN queue'[q] :
                      queue'[q][j].kind = "op" /\ queue'[q][j].op = queue'[q][i].op => j = i
      <4>1. op[queue'[q][i].op].st = "queued" /\ op[queue'[q][i].op].pv = queue'[q][i].pv
        BY <1>9, <3>2 DEF Carried
      <4>2. ASSUME NEW j \in DOMAIN queue'[q], queue'[q][j].kind = "op", queue'[q][j].op = queue'[q][i].op
            PROVE  j = i
        <5>1. j + 1 = i + 1
          BY <1>9, <3>2, <4>2 DEF Carried
        <5>2. i \in Nat /\ j \in Nat
          BY <1>2
        <5> QED BY <5>1, <5>2
      <4> QED BY <4>1, <4>2
    <3>3. ~(worker'[q].st = "busy" /\ worker'[q].ev.kind = "op")
      BY <1>1, <1>8, <1>12
    <3> QED BY <2>1, <3>1, <3>2, <3>3 DEF Carried
  <2>4. Placed'
    <3> SUFFICES ASSUME NEW x \in Ops
                 PROVE  /\ op[x].st = "queued" => \E r \in Queues : x \in OpsIn(queue'[r])
                        /\ op[x].st = "held" => \E r \in Queues : Busy(r, x)'
                        /\ op[x].ans = "none" /\ op[x].st # "new" => op[x].tx /\ op[x].st # "gone"
      BY <2>1 DEF Placed
    <3>1. \A r \in Queues : x \in OpsIn(queue[r]) => x \in OpsIn(queue'[r])
      <4> TAKE r \in Queues
      <4>1. CASE r = q
        <5>1. SUFFICES ASSUME x \in OpsIn(queue[q]) PROVE x \in OpsIn(queue'[q])
          BY <4>1
        <5>2. PICK i \in DOMAIN queue[q] : queue[q][i].kind = "op" /\ queue[q][i].op = x
          BY <5>1, OpsInFacts
        <5>3. i - 1 \in DOMAIN queue'[q] /\ queue'[q][i - 1] = queue[q][i]
          BY <1>2, <1>10, <1>12, <5>2
        <5> QED BY <5>2, <5>3, OpsInFacts
      <4>2. CASE r # q
        BY <1>2, <4>2
      <4> QED BY <4>1, <4>2
    <3> QED BY <2>2, <3>1 DEF Placed
  <2> QED BY <2>3, <2>4
<1>13. CASE ev.kind = "op"
  <2>1. o \in Ops /\ op[o] \in Operation /\ op[o].st = "queued" /\ op[o].pv = ev.pv /\ Slot(op[o])
    BY <1>6, <1>13 DEF Shape, Placed, Slot
  <2>2. \A x \in Ops : x # o => op'[x] = op[x]
    BY <1>5, <1>13, <2>1 DEF Shape
  <2>3. \A r \in Queues : \A i \in DOMAIN queue[r] : queue[r][i].kind = "op" /\ queue[r][i].op = o
          => r = q /\ i = 1
    BY <1>2, <1>11, <1>13, OneQueue DEF o
  <2>4. \A r \in Queues : worker[r].st = "busy" /\ worker[r].ev.kind = "op" => worker[r].ev.op # o
    BY <2>1, QueuedFacts
  <2>5. \/ worker'[q] = [st |-> "busy", ev |-> ev] /\ op'[o].st = "held" /\ op'[o].pv = ev.pv
           /\ Slot(op'[o])
        \/ worker'[q] = worker[q] /\ op'[o].st = "gone" /\ Slot(op'[o])
    <3>1. CASE /\ worker' = [worker EXCEPT ![q] = [st |-> "busy", ev |-> ev]]
               /\ op' = [op EXCEPT ![o] = [op[o] EXCEPT !.st = "held"]]
      <4> DEFINE r == [op[o] EXCEPT !.st = "held"]
      <4>1. r.st = "held" /\ r.pv = op[o].pv /\ r.ans = op[o].ans /\ r.tx = op[o].tx
        BY <2>1 DEF Operation
      <4>2. op'[o] = r
        BY <2>1, <3>1 DEF Shape
      <4> HIDE DEF r
      <4> QED BY <1>3, <2>1, <3>1, <4>1, <4>2 DEF Slot
    <3>2. CASE UNCHANGED worker /\ op' = [op EXCEPT ![o] = Drop(Finish(op[o], "err"))]
      <4>1. op'[o] = Drop(Finish(op[o], "err"))
        BY <2>1, <3>2 DEF Shape
      <4>2. Slot(Drop(Finish(op[o], "err"))) /\ Drop(Finish(op[o], "err")).st = "gone"
        BY <2>1, SlotFinish, FinishFacts, DropFacts
      <4> QED BY <3>2, <4>1, <4>2
    <3> QED BY <1>5, <1>13, <3>1, <3>2
  <2>6. Carried'
    <3>1. ASSUME NEW r \in Queues, r # q
          PROVE  /\ \A i \in DOMAIN queue'[r] : queue'[r][i].kind = "op" =>
                      /\ op'[queue'[r][i].op].st = "queued" /\ op'[queue'[r][i].op].pv = queue'[r][i].pv
                      /\ \A j \in DOMAIN queue'[r] :
                           queue'[r][j].kind = "op" /\ queue'[r][j].op = queue'[r][i].op => j = i
      <4>1. queue'[r] = queue[r]
        BY <1>2, <3>1
      <4>2. \A i \in DOMAIN queue[r] : queue[r][i].kind = "op" =>
              queue[r][i].op \in Ops /\ queue[r][i].op # o
        BY <2>3, <3>1, QueuedFacts
      <4> QED BY <2>2, <4>1, <4>2 DEF Carried
    <3>2. ASSUME NEW i \in DOMAIN queue'[q], queue'[q][i].kind = "op"
          PROVE  /\ op'[queue'[q][i].op].st = "queued" /\ op'[queue'[q][i].op].pv = queue'[q][i].pv
                 /\ \A j \in DOMAIN queue'[q] :
                      queue'[q][j].kind = "op" /\ queue'[q][j].op = queue'[q][i].op => j = i
      <4>0. queue'[q][i].op \in Ops /\ queue'[q][i].op # o
        BY <1>9, <2>3, <3>2, QueuedFacts
      <4>1. op'[queue'[q][i].op].st = "queued" /\ op'[queue'[q][i].op].pv = queue'[q][i].pv
        BY <1>9, <2>2, <3>2, <4>0 DEF Carried
      <4>2. ASSUME NEW j \in DOMAIN queue'[q], queue'[q][j].kind = "op", queue'[q][j].op = queue'[q][i].op
            PROVE  j = i
        <5>1. j + 1 = i + 1
          BY <1>9, <3>2, <4>2 DEF Carried
        <5>2. i \in Nat /\ j \in Nat
          BY <1>2
        <5> QED BY <5>1, <5>2
      <4> QED BY <4>1, <4>2
    <3>3. ASSUME NEW r \in Queues, worker'[r].st = "busy", worker'[r].ev.kind = "op"
          PROVE  op'[worker'[r].ev.op].st = "held" /\ op'[worker'[r].ev.op].pv = worker'[r].ev.pv
      <4>1. CASE r = q
        BY <1>1, <2>5, <3>3, <4>1 DEF o
      <4>2. CASE r # q
        <5>1. worker'[r] = worker[r]
          BY <1>7, <4>2
        <5>2. worker[r].ev.op \in Ops /\ worker[r].ev.op # o
          BY <2>4, <3>3, <5>1, QueuedFacts
        <5> QED BY <2>2, <3>3, <5>1, <5>2 DEF Carried
      <4> QED BY <4>1, <4>2
    <3> QED BY <3>1, <3>2, <3>3 DEF Carried
  <2>7. Placed'
    <3> SUFFICES ASSUME NEW x \in Ops
                 PROVE  /\ op'[x].st = "queued" => \E r \in Queues : x \in OpsIn(queue'[r])
                        /\ op'[x].st = "held" => \E r \in Queues : Busy(r, x)'
                        /\ Slot(op'[x])
      BY DEF Placed, Slot
    <3>1. CASE x = o
      <4>1. worker'[q] = [st |-> "busy", ev |-> ev] => Busy(q, x)'
        BY <1>13, <3>1 DEF Busy, o
      <4> QED BY <2>5, <3>1, <4>1
    <3>2. CASE x # o
      <4>1. \A r \in Queues : x \in OpsIn(queue[r]) => x \in OpsIn(queue'[r])
        <5> TAKE r \in Queues
        <5>1. CASE r = q
          <6>1. SUFFICES ASSUME x \in OpsIn(queue[q]) PROVE x \in OpsIn(queue'[q])
            BY <5>1
          <6>2. PICK i \in DOMAIN queue[q] : queue[q][i].kind = "op" /\ queue[q][i].op = x
            BY <6>1, OpsInFacts
          <6>3. i - 1 \in DOMAIN queue'[q] /\ queue'[q][i - 1] = queue[q][i]
            BY <1>2, <1>10, <3>2, <6>2 DEF o
          <6> QED BY <6>2, <6>3, OpsInFacts
        <5>2. CASE r # q
          BY <1>2, <5>2
        <5> QED BY <5>1, <5>2
      <4>2. \A r \in Queues : Busy(r, x) => Busy(r, x)'
        BY <1>1, <1>7 DEF Busy
      <4> QED BY <2>2, <3>2, <4>1, <4>2 DEF Placed, Slot
    <3> QED BY <3>1, <3>2
  <2> QED BY <2>6, <2>7
<1> QED BY <1>12, <1>13

-----------------------------------------------------------------------------
(* ... when its handler ends ...                                           *)
LEMMA HandlerSteps ==
  ASSUME Tables, Shape, Routes, Carried, Placed, NEW q \in Queues,
         NEW how \in {"drop", "raise", "kept", "task"}, OpHandlerEnds(q, how)
  PROVE  /\ Shape' /\ Routes' /\ Carried' /\ Placed'
         /\ worker[q].st = "busy" /\ worker[q].ev.kind = "op" /\ worker'[q].st = "idle"
         /\ (\A r \in Queues : r # q => worker'[r] = worker[r])
         /\ UNCHANGED <<queueOf, alive, queue, disconnected, count>>
<1> DEFINE o == worker[q].ev.op
           s == CASE how = "drop" -> Drop(op[o])
                  [] how = "raise" -> Drop(Finish(op[o], "err"))
                  [] OTHER -> [op[o] EXCEPT !.st = how]
<1>1. /\ worker[q].st = "busy" /\ worker[q].ev.kind = "op" /\ worker' = [worker EXCEPT ![q] = Idle]
      /\ op' = [op EXCEPT ![o] = s]
      /\ UNCHANGED <<queueOf, alive, queue, stopped, freed, disconnected, hookTasks, closer, moves,
                     count>>
  BY DEF OpHandlerEnds, tables, channels
<1>2. o \in Ops /\ op[o].st = "held" /\ op[o] \in Operation /\ Slot(op[o])
  <2>1. o \in Ops /\ op[o].st = "held"
    BY <1>1, QueuedFacts
  <2> QED BY <2>1 DEF Shape, Placed, Slot
<1> HIDE DEF o
<1>3. s \in Operation /\ s.st \in {"gone", "kept", "task"} /\ Slot(s)
  <2>1. CASE how = "drop"
    BY <1>2, <2>1, DropFacts, SlotFinish
  <2>2. CASE how = "raise"
    <3>1. s = Drop(Finish(op[o], "err"))
      BY <2>2
    <3>2. Finish(op[o], "err") \in Operation
      BY <1>2, FinishFacts
    <3> QED BY <1>2, <3>1, <3>2, DropFacts, SlotFinish
  <2>3. CASE how \in {"kept", "task"}
    <3>1. s = [op[o] EXCEPT !.st = how]
      BY <2>3
    <3>2. s \in Operation /\ s.st = how /\ s.tx = op[o].tx /\ s.ans = op[o].ans
      BY <1>2, <2>3, <3>1 DEF Operation
    <3> QED BY <1>2, <2>3, <3>2 DEF Slot
  <2> QED BY <2>1, <2>2, <2>3
<1> HIDE DEF s
<1>4. q \notin freed
  BY <1>1, NotFreed
<1>5. /\ Routes' /\ worker' \in [Queues -> Loops] /\ worker'[q].st = "idle"
      /\ \A r \in Queues : r # q => worker'[r] = worker[r]
  BY <1>1, <1>4, IdleFacts, LoopMoves
<1>6. op'[o] = s /\ (\A x \in Ops : x # o => op'[x] = op[x]) /\ op' \in [Ops -> Operation]
  BY <1>1, <1>2, <1>3 DEF Shape
<1>7. Shape'
  BY <1>1, <1>5, <1>6 DEF Shape
<1>8. \A r \in Queues : r # q => ~Busy(r, o)
  BY <1>1, OneLoop DEF Busy, o
<1>9. Carried'
  <2>1. ASSUME NEW r \in Queues, NEW i \in DOMAIN queue[r], queue[r][i].kind = "op"
        PROVE  /\ op'[queue[r][i].op].st = "queued" /\ op'[queue[r][i].op].pv = queue[r][i].pv
               /\ \A j \in DOMAIN queue[r] :
                    queue[r][j].kind = "op" /\ queue[r][j].op = queue[r][i].op => j = i
    <3>1. queue[r][i].op \in Ops /\ op[queue[r][i].op].st = "queued"
      BY <2>1, QueuedFacts
    <3>2. op'[queue[r][i].op] = op[queue[r][i].op]
      BY <1>2, <1>6, <3>1
    <3> QED BY <2>1, <3>2 DEF Carried
  <2>2. ASSUME NEW r \in Queues, worker'[r].st = "busy", worker'[r].ev.kind = "op"
        PROVE  op'[worker'[r].ev.op].st = "held" /\ op'[worker'[r].ev.op].pv = worker'[r].ev.pv
    <3>1. r # q /\ worker'[r] = worker[r]
      BY <1>5, <2>2
    <3>2. worker[r].ev.op \in Ops /\ worker[r].ev.op # o
      BY <1>8, <2>2, <3>1, QueuedFacts DEF Busy
    <3> QED BY <1>6, <2>2, <3>1, <3>2 DEF Carried
  <2> QED BY <1>1, <2>1, <2>2 DEF Carried
<1>10. Placed'
  <2> SUFFICES ASSUME NEW x \in Ops
               PROVE  /\ op'[x].st = "queued" => \E r \in Queues : x \in OpsIn(queue[r])
                      /\ op'[x].st = "held" => \E r \in Queues : Busy(r, x)'
                      /\ Slot(op'[x])
    BY <1>1 DEF Placed, Slot
  <2>1. CASE x = o
    BY <1>3, <1>6, <2>1
  <2>2. CASE x # o
    <3>1. op'[x] = op[x]
      BY <1>6, <2>2
    <3>2. \A r \in Queues : Busy(r, x) => Busy(r, x)'
      BY <1>5, <2>2 DEF Busy, o
    <3> QED BY <3>1, <3>2 DEF Placed, Slot
  <2> QED BY <2>1, <2>2
<1> QED BY <1>1, <1>5, <1>7, <1>9, <1>10

(* ... and when a queue goes with what is in it.                           *)
LEMMA FreeSteps ==
  ASSUME Tables, Shape, Routes, Carried, Placed, NEW q \in Queues, FreeQueue(q)
  PROVE  /\ Shape' /\ Routes' /\ Carried' /\ Placed'
         /\ UNCHANGED <<queueOf, alive, worker, disconnected, count>>
         /\ (\A p \in alive : queueOf[p] # q) /\ \A r \in Queues : r # q => queue'[r] = queue[r]
<1>1. /\ worker[q].st = "ended" /\ (\A p \in alive : queueOf[p] # q)
      /\ freed' = freed \cup {q} /\ queue' = [queue EXCEPT ![q] = <<>>]
      /\ op' = [o \in Ops |-> IF o \in OpsIn(queue[q]) THEN Drop(op[o]) ELSE op[o]]
      /\ UNCHANGED <<queueOf, alive, stopped, worker, disconnected, hookTasks, closer, moves, count>>
  BY DEF FreeQueue, tables, channels
<1>2. /\ queue'[q] = <<>> /\ DOMAIN queue'[q] = {} /\ queue' \in [Queues -> Seq(Event)]
      /\ \A r \in Queues : r # q => queue'[r] = queue[r]
  BY <1>1 DEF Shape
<1>3. \A o \in Ops : op[o] \in Operation /\ Slot(op[o])
  BY DEF Shape, Placed, Slot
<1>4. \A o \in OpsIn(queue[q]) : o \in Ops /\ op[o].st = "queued"
  BY QueuedFacts, OpsInFacts
<1>5. \A o \in OpsIn(queue[q]) : op'[o].st = "gone" /\ Slot(op'[o]) /\ op'[o] \in Operation
  BY <1>1, <1>3, <1>4, DropFacts, SlotFinish
<1>6. \A o \in Ops : o \notin OpsIn(queue[q]) => op'[o] = op[o]
  BY <1>1
<1>7. Shape'
  <2>1. op' \in [Ops -> Operation]
    BY <1>1, <1>3, <1>5
  <2>2. q \in stopped
    BY <1>1 DEF Routes, Routed
  <2> QED BY <1>1, <1>2, <2>1, <2>2 DEF Shape
<1>8. Routes'
  <2>1. ASSUME NEW r \in Queues, r # q PROVE Routed(r)'
    BY <1>1, <1>2, <2>1 DEF Routes, Routed
  <2>2. Routed(q)'
    BY <1>1, <1>2 DEF Routes, Routed
  <2> QED BY <2>1, <2>2 DEF Routes
<1>9. Carried'
  <2>1. ASSUME NEW r \in Queues, NEW i \in DOMAIN queue'[r], queue'[r][i].kind = "op"
        PROVE  /\ op'[queue'[r][i].op].st = "queued" /\ op'[queue'[r][i].op].pv = queue'[r][i].pv
               /\ \A j \in DOMAIN queue'[r] :
                    queue'[r][j].kind = "op" /\ queue'[r][j].op = queue'[r][i].op => j = i
    <3>1. r # q /\ queue'[r] = queue[r]
      BY <1>2, <2>1
    <3>2. queue[r][i].op \in Ops
      BY <2>1, <3>1, QueuedFacts
    <3>3. queue[r][i].op \notin OpsIn(queue[q])
      BY <2>1, <3>1, OneQueue, OpsInFacts
    <3> QED BY <1>6, <2>1, <3>1, <3>2, <3>3 DEF Carried
  <2>2. ASSUME NEW r \in Queues, worker[r].st = "busy", worker[r].ev.kind = "op"
        PROVE  op'[worker[r].ev.op].st = "held" /\ op'[worker[r].ev.op].pv = worker[r].ev.pv
    <3>1. worker[r].ev.op \in Ops /\ op[worker[r].ev.op].st = "held"
      BY <2>2, QueuedFacts
    <3>2. worker[r].ev.op \notin OpsIn(queue[q])
      BY <1>4, <3>1
    <3> QED BY <1>6, <2>2, <3>1, <3>2 DEF Carried
  <2> QED BY <1>1, <2>1, <2>2 DEF Carried
<1>10. Placed'
  <2> SUFFICES ASSUME NEW x \in Ops
               PROVE  /\ op'[x].st = "queued" => \E r \in Queues : x \in OpsIn(queue'[r])
                      /\ op'[x].st = "held" => \E r \in Queues : Busy(r, x)
                      /\ Slot(op'[x])
    BY <1>1 DEF Placed, Slot, Busy
  <2>1. CASE x \in OpsIn(queue[q])
    BY <1>5, <2>1
  <2>2. CASE x \notin OpsIn(queue[q])
    BY <1>2, <1>6, <2>2 DEF Placed, Slot
  <2> QED BY <2>1, <2>2
<1> QED BY <1>1, <1>2, <1>7, <1>8, <1>9, <1>10

(* The steps that leave the queues, the loops and the operations alone.    *)
LEMMA CarriedKept ==
  ASSUME Carried, Placed, UNCHANGED <<queue, worker, op>>
  PROVE  Carried' /\ Placed'
BY DEF Carried, Placed, Busy

(* A loop done with an edge, or ended.                                     *)
LEMMA CarriedLoop ==
  ASSUME Carried, Placed, NEW q \in Queues, UNCHANGED <<queue, op>>,
         \A r \in Queues : r # q => worker'[r] = worker[r],
         worker[q].st = "busy" => worker[q].ev.kind # "op", worker'[q].st # "busy"
  PROVE  Carried' /\ Placed'
<1>1. \A r \in Queues : worker'[r].st = "busy" => worker'[r] = worker[r]
  OBVIOUS
<1>2. Carried'
  BY <1>1 DEF Carried
<1>3. \A r \in Queues, o \in Ops : Busy(r, o) => Busy(r, o)'
  BY DEF Busy
<1>4. Placed'
  BY <1>3 DEF Placed
<1> QED BY <1>2, <1>4

-----------------------------------------------------------------------------
(* Neither the queue and the loop of the PV, nor what is told, changes.    *)
LEMMA ToldKept ==
  ASSUME NEW p \in PVs, Told(p), UNCHANGED queueOf,
         queue'[queueOf[p]] = queue[queueOf[p]], worker'[queueOf[p]] = worker[queueOf[p]],
         count'[p] # 0 <=> count[p] # 0, p \in disconnected' <=> p \in disconnected
  PROVE  Told(p)'
<1>1. Handling(p)' <=> Handling(p)
  BY DEF Handling
<1> QED BY <1>1 DEF Told

(* Something else is sent: the edges of the PV stay where they are.        *)
LEMMA ToldOther ==
  ASSUME Shape, NEW p \in PVs, Told(p), NEW q \in Queues, NEW ev \in Event, Sent(q, ev),
         ev.pv # p \/ ev.kind = "op", UNCHANGED <<queueOf, worker, disconnected>>,
         count'[p] # 0 <=> count[p] # 0
  PROVE  Told(p)'
<1>1. CASE q # queueOf[p]
  <2>1. queue'[queueOf[p]] = queue[queueOf[p]]
    BY <1>1 DEF Shape, Sent
  <2> QED BY <2>1, ToldKept
<1>2. CASE q = queueOf[p]
  <2>1. /\ DOMAIN queue[q] = 1 .. Len(queue[q]) /\ Len(queue[q]) \in Nat
        /\ DOMAIN queue'[q] = 1 .. Len(queue[q]) + 1
        /\ \A i \in 1 .. Len(queue[q]) : queue'[q][i] = queue[q][i]
        /\ queue'[q][Len(queue[q]) + 1] = ev
    BY SentFacts
  <2>2. EdgesOf(queue'[q], p) = EdgesOf(queue[q], p)
    BY <2>1 DEF EdgesOf
  <2>3. \A i \in EdgesOf(queue[q], p) : queue'[q][i] = queue[q][i]
    BY <2>1 DEF EdgesOf
  <2>4. Handling(p)' <=> Handling(p)
    BY DEF Handling
  <2> QED BY <1>2, <2>2, <2>3, <2>4 DEF Told
<1> QED BY <1>1, <1>2

(* An edge of the PV is sent: it is its last one.                          *)
LEMMA ToldEdge ==
  ASSUME Shape, NEW p \in PVs, Told(p), queueOf[p] \in Queues, NEW kind \in {"first", "last"},
         [pv |-> p, kind |-> kind] \in Event, Sent(queueOf[p], [pv |-> p, kind |-> kind]),
         UNCHANGED <<queueOf, worker, disconnected>>,
         kind = "first" <=> count'[p] # 0
  PROVE  Told(p)'
<1> DEFINE q == queueOf[p]  ev == [pv |-> p, kind |-> kind]
<1>1. /\ DOMAIN queue[q] = 1 .. Len(queue[q]) /\ Len(queue[q]) \in Nat
      /\ DOMAIN queue'[q] = 1 .. Len(queue[q]) + 1
      /\ queue'[q][Len(queue[q]) + 1] = ev
  BY SentFacts
<1>2. ev.pv = p /\ ev.kind = kind /\ ev.kind # "op"
  OBVIOUS
<1> HIDE DEF ev
<1>3. Len(queue[q]) + 1 \in EdgesOf(queue'[q], p)
  BY <1>1, <1>2 DEF EdgesOf
<1>4. \A i \in EdgesOf(queue'[q], p) : i \in 1 .. Len(queue[q]) + 1
  BY <1>1 DEF EdgesOf
<1>5. ASSUME NEW i \in EdgesOf(queue'[q], p), \A j \in EdgesOf(queue'[q], p) : j <= i
      PROVE  queue'[q][i].kind = kind
  <2>1. i = Len(queue[q]) + 1
    BY <1>1, <1>3, <1>4, <1>5
  <2> QED BY <1>1, <1>2, <2>1
<1>6. Handling(p)' <=> Handling(p)
  BY DEF Handling
<1>7. EdgesOf(queue'[q], p) # {}
  BY <1>3
<1>8. Handling(p) /\ worker[q].ev.kind = "first" => p \notin disconnected
  BY DEF Told
<1> QED BY <1>5, <1>6, <1>7, <1>8 DEF Told

(* The loop of the PV takes an event.                                      *)
LEMMA ToldReceive ==
  ASSUME Tables, Shape, Routes, NEW p \in PVs, p \in alive, Told(p), NEW q \in Queues, Receive(q)
  PROVE  Told(p)'
<1> DEFINE ev == Head(queue[q])
<1>1. Taken(q) /\ worker[q].st = "idle" /\ UNCHANGED <<queueOf, count, alive>>
  BY Receives DEF tables, channels
<1>2. /\ \A r \in Queues : r # q => queue'[r] = queue[r]
      /\ DOMAIN queue[q] = 1 .. Len(queue[q]) /\ Len(queue[q]) \in Nat \ {0}
      /\ DOMAIN queue'[q] = 1 .. Len(queue[q]) - 1
      /\ \A i \in 1 .. Len(queue[q]) - 1 : queue'[q][i] = queue[q][i + 1]
      /\ ev = queue[q][1] /\ ev \in Event
  BY <1>1, TakenFacts
<1>3. worker \in [Queues -> Loops] /\ queueOf[p] \in Queues
  BY OpsAssumption DEF Shape, Tables
<1>4. \/ /\ ev.pv \in alive
         /\ worker' = [worker EXCEPT ![q] = [st |-> "busy", ev |-> ev]]
         /\ disconnected' = IF ev.kind = "first" THEN disconnected \ {ev.pv} ELSE disconnected
      \/ ev.pv \notin alive /\ UNCHANGED <<worker, disconnected>>
  BY Receives
<1>5. queueOf[ev.pv] = q
  BY <1>2 DEF Routes, Routed
<1> HIDE DEF ev
<1>6. CASE queueOf[p] # q
  <2>1. queue'[queueOf[p]] = queue[queueOf[p]] /\ worker'[queueOf[p]] = worker[queueOf[p]]
    BY <1>2, <1>3, <1>4, <1>6
  <2>2. p \in disconnected' <=> p \in disconnected
    BY <1>4, <1>5, <1>6
  <2> QED BY <1>1, <2>1, <2>2, ToldKept
<1>7. CASE queueOf[p] = q
  <2> DEFINE S == EdgesOf(queue[q], p)
             T == EdgesOf(queue'[q], p)
  <2>1. \A i \in T : i + 1 \in S /\ queue'[q][i] = queue[q][i + 1] /\ i \in Nat \ {0}
    BY <1>2 DEF EdgesOf
  <2>2. \A i \in S : i # 1 => i - 1 \in T /\ i \in Nat \ {0}
    BY <1>2 DEF EdgesOf
  <2>3. 1 \in S <=> ev.pv = p /\ ev.kind # "op"
    BY <1>2 DEF EdgesOf
  <2>4. ~Handling(p)
    BY <1>1, <1>7 DEF Handling
  <2>5. \A i \in S : i \in Nat \ {0}
    BY <1>2 DEF EdgesOf
  <2>6. \A i \in S : (\A j \in S : j <= i) => (queue[q][i].kind = "first" <=> count[p] # 0)
    BY <1>7 DEF Told
  <2>7. S = {} => (p \in disconnected <=> count[p] = 0)
    BY <1>7, <2>4 DEF Told
  <2>8. \A i \in T : (\A j \in T : j <= i) => (queue'[q][i].kind = "first" <=> count[p] # 0)
    <3> SUFFICES ASSUME NEW i \in T, \A j \in T : j <= i
                 PROVE  queue'[q][i].kind = "first" <=> count[p] # 0
      OBVIOUS
    <3>1. \A j \in S : j <= i + 1
      BY <2>1, <2>2, <2>5
    <3> QED BY <2>1, <2>6, <3>1
  <2>9. CASE 1 \in S
    <3>1. worker'[q] = [st |-> "busy", ev |-> ev] /\ ev.pv = p /\ ev.kind # "op"
      BY <1>3, <1>4, <2>3, <2>9
    <3>2. ev.kind = "first" => p \notin disconnected'
      BY <1>4, <2>3, <2>9
    <3>3. T = {} => (ev.kind = "first" <=> count[p] # 0)
      <4> SUFFICES ASSUME T = {} PROVE ev.kind = "first" <=> count[p] # 0
        OBVIOUS
      <4>1. \A j \in S : j <= 1
        BY <2>2
      <4> QED BY <1>2, <2>6, <2>9, <4>1
    <3> HIDE DEF S
    <3>4. Handling(p)'
      BY <1>1, <1>7, <3>1 DEF Handling
    <3> QED BY <1>1, <1>7, <2>8, <3>1, <3>2, <3>3, <3>4 DEF Told
  <2>10. CASE 1 \notin S
    <3>1. ~Handling(p)'
      BY <1>1, <1>3, <1>4, <1>7, <2>3, <2>10 DEF Handling
    <3>2. T = {} => S = {}
      BY <2>2, <2>10
    <3>3. p \in disconnected' <=> p \in disconnected
      <4>1. ev.kind = "first" => ev.pv # p
        BY <2>3, <2>10
      <4> QED BY <1>4, <4>1
    <3> HIDE DEF S
    <3> QED BY <1>1, <1>7, <2>7, <2>8, <3>1, <3>2, <3>3 DEF Told
  <2> QED BY <2>9, <2>10
<1> QED BY <1>6, <1>7

(* The loop of the PV ends an edge hook.                                   *)
LEMMA ToldHook ==
  ASSUME Tables, Shape, Routes, NEW p \in PVs, p \in alive, Told(p), NEW q \in Queues,
         NEW b \in BOOLEAN, HookEnds(q, b)
  PROVE  Told(p)'
<1> DEFINE ev == worker[q].ev
<1>1. /\ worker[q].st = "busy" /\ ev.kind \in {"first", "last"} /\ queueOf[ev.pv] = q
      /\ worker'[q].st = "idle" /\ \A r \in Queues : r # q => worker'[r] = worker[r]
      /\ UNCHANGED <<queueOf, alive, queue, count>>
      /\ disconnected' = IF ev.kind = "last" THEN disconnected \cup {ev.pv} ELSE disconnected
  BY HookSteps
<1> HIDE DEF ev
<1>2. queueOf[p] \in Queues
  BY OpsAssumption DEF Tables
<1>3. CASE queueOf[p] # q
  <2>1. p \in disconnected' <=> p \in disconnected
    BY <1>1, <1>3
  <2> QED BY <1>1, <1>2, <1>3, <2>1, ToldKept
<1>4. CASE queueOf[p] = q
  <2>1. ~Handling(p)'
    BY <1>1, <1>4 DEF Handling
  <2>2. Handling(p) <=> ev.pv = p
    BY <1>1, <1>4 DEF Handling, ev
  <2>3. /\ Handling(p) /\ EdgesOf(queue[q], p) = {} => (ev.kind = "first" <=> count[p] # 0)
        /\ Handling(p) /\ ev.kind = "first" => p \notin disconnected
        /\ EdgesOf(queue[q], p) = {} /\ ~Handling(p) => (p \in disconnected <=> count[p] = 0)
    BY <1>4 DEF Told, ev
  <2>4. EdgesOf(queue[q], p) = {} => (p \in disconnected' <=> count[p] = 0)
    BY <1>1, <2>2, <2>3
  <2> QED BY <1>1, <1>4, <2>1, <2>4 DEF Told
<1> QED BY <1>3, <1>4

(* The loop of the PV goes from one event that is no edge to another, or   *)
(* ends.                                                                   *)
LEMMA ToldLoop ==
  ASSUME NEW p \in PVs, Told(p), NEW q \in Queues, queueOf[p] \in Queues,
         worker[q].st = "busy" => worker[q].ev.kind = "op", worker'[q].st # "busy",
         \A r \in Queues : r # q => worker'[r] = worker[r],
         UNCHANGED <<queueOf, queue, count, disconnected>>
  PROVE  Told(p)'
<1>1. CASE queueOf[p] # q
  BY <1>1, ToldKept
<1>2. CASE queueOf[p] = q
  <2>1. ~Handling(p) /\ ~Handling(p)'
    BY <1>2 DEF Handling
  <2> QED BY <1>2, <2>1 DEF Told
<1> QED BY <1>1, <1>2

-----------------------------------------------------------------------------
(* A channel that opens or closes tells of the PV it is charged to.        *)
LEMMA ChannelTells ==
  ASSUME Tables, Charges, Shape, Routes, NEW p \in PVs, p \in alive, Told(p), NEW c \in Chans,
         ChannelOpens(c) \/ ChannelCloses(c)
  PROVE  Told(p)'
<1>1. UNCHANGED <<queueOf, worker, disconnected, freed>>
  BY ChannelSteps
<1>2. queueOf[p] \in Queues /\ queueOf[p] \notin freed /\ count \in [PVs -> Nat]
  BY OpsAssumption DEF Tables, Charges, Routes, Routed
<1>3. \E x \in PVs, kind \in {"first", "last"} :
        /\ \A y \in PVs : y # x => count'[y] = count[y]
        /\ \/ UNCHANGED queue /\ (count'[x] # 0 <=> count[x] # 0)
           \/ Send(x, kind) /\ (kind = "first" <=> count'[x] # 0)
  <2>1. CASE ChannelOpens(c)
    BY <1>2, <2>1, OpensCharge
  <2>2. CASE ChannelCloses(c)
    <3>1. PICK x \in PVs : /\ count[x] \in Nat \ {0} /\ count' = [count EXCEPT ![x] = count[x] - 1]
                           /\ count[x] = 1 => Send(x, "last")
                           /\ count[x] # 1 => UNCHANGED queue
      BY <2>2, ClosesCharge
    <3>2. count'[x] = count[x] - 1 /\ \A y \in PVs : y # x => count'[y] = count[y]
      BY <1>2, <3>1
    <3>3. CASE count[x] = 1
      BY <3>1, <3>2, <3>3
    <3>4. CASE count[x] # 1
      BY <3>1, <3>2, <3>4
    <3> QED BY <3>3, <3>4
  <2> QED BY <2>1, <2>2
<1>4. PICK x \in PVs, kind \in {"first", "last"} :
        /\ \A y \in PVs : y # x => count'[y] = count[y]
        /\ \/ UNCHANGED queue /\ (count'[x] # 0 <=> count[x] # 0)
           \/ Send(x, kind) /\ (kind = "first" <=> count'[x] # 0)
  BY <1>3
<1>5. CASE UNCHANGED queue /\ (count'[x] # 0 <=> count[x] # 0)
  BY <1>1, <1>4, <1>5, ToldKept
<1>6. CASE Send(x, kind) /\ (kind = "first" <=> count'[x] # 0)
  <2> DEFINE ev == [pv |-> x, kind |-> kind]
  <2>1. /\ queueOf[x] \in Queues /\ ev \in Event /\ ev.pv = x
        /\ (UNCHANGED queue /\ queueOf[x] \in freed) \/ Sent(queueOf[x], ev)
    BY <1>6, Sends
  <2>2. CASE x = p
    <3>1. Sent(queueOf[p], [pv |-> p, kind |-> kind]) /\ [pv |-> p, kind |-> kind] \in Event
      BY <1>2, <2>1, <2>2
    <3>2. kind = "first" <=> count'[p] # 0
      BY <1>6, <2>2
    <3> QED BY <1>1, <1>2, <3>1, <3>2, ToldEdge
  <2>3. CASE x # p
    <3>1. count'[p] = count[p]
      BY <1>4, <2>3
    <3> HIDE DEF ev
    <3>2. CASE UNCHANGED queue
      BY <1>1, <3>1, <3>2, ToldKept
    <3>3. CASE Sent(queueOf[x], ev)
      BY <1>1, <2>1, <2>3, <3>1, <3>3, ToldOther
    <3> QED BY <2>1, <3>2, <3>3
  <2> QED BY <2>2, <2>3
<1> QED BY <1>4, <1>5, <1>6

(* Every step keeps the invariant.                                         *)
LEMMA InvStep == IInv /\ [Next]_vars => IInv'
<1> SUFFICES ASSUME IInv, [Next]_vars PROVE IInv'
  OBVIOUS
<1>0. Tables /\ Charges /\ Shape /\ Routes /\ Carried /\ Placed /\ AllTold
  BY DEF IInv
<1>1. Tables' /\ Charges'
  BY <1>0, ChargesStep
<1>2. /\ \A p \in alive : p \in PVs /\ Told(p) /\ queueOf[p] \in Queues
      /\ alive \subseteq PVs
  BY <1>0, OpsAssumption DEF Tables, AllTold
<1> DEFINE Rest == Shape' /\ Routes' /\ Carried' /\ Placed' /\ AllTold'
<1>3. ASSUME \/ \E p \in PVs : Add(p) \/ Open(p) \/ Close(p) \/ Collect(p) \/ CloseSync(p) \/ HookTaskEnds(p)
             \/ Remove \/ (\E q \in Queues : Stop(q)) \/ Gathered \/ \E late \in BOOLEAN : CloseReturns(late)
             \/ UNCHANGED vars
      PROVE  Rest
  <2>1. /\ UNCHANGED <<Events, op, disconnected, count>> /\ alive' \subseteq alive
        /\ Shape' /\ Routes'
    BY <1>0, <1>1, <1>3, QuietSteps
  <2>2. UNCHANGED <<queueOf, queue, worker, op, disconnected, count>>
    BY <2>1 DEF Events
  <2>3. Carried' /\ Placed'
    BY <1>0, <2>2, CarriedKept
  <2>4. ASSUME NEW p \in alive' PROVE Told(p)'
    <3>1. p \in PVs /\ Told(p)
      BY <1>2, <2>1
    <3> QED BY <2>2, <3>1, ToldKept
  <2> QED BY <2>1, <2>3, <2>4 DEF AllTold
<1>4. ASSUME NEW c \in Chans, ChannelOpens(c) \/ ChannelCloses(c)
      PROVE  Rest
  <2>1. /\ UNCHANGED <<queueOf, alive, worker, stopped, freed, op, disconnected>>
        /\ Shape' /\ Routes'
    BY <1>0, <1>4, ChannelSteps
  <2>2. Carried' /\ Placed'
    <3>1. CASE UNCHANGED queue
      BY <1>0, <2>1, <3>1, CarriedKept
    <3>2. ASSUME NEW p \in PVs, NEW kind \in {"first", "last"}, queueOf[p] \in Queues,
                 [pv |-> p, kind |-> kind] \in Event, Sent(queueOf[p], [pv |-> p, kind |-> kind])
          PROVE  Carried' /\ Placed'
      BY <1>0, <2>1, <3>2, CarriedEdge
    <3> QED BY <1>0, <1>4, <3>1, <3>2, ChannelSteps
  <2>3. ASSUME NEW p \in alive PROVE Told(p)'
    BY <1>0, <1>2, <1>4, ChannelTells
  <2> QED BY <2>1, <2>2, <2>3 DEF AllTold
<1>5. ASSUME NEW o \in Ops, NEW b \in BOOLEAN, PutStarts(o, b) \/ RpcStarts(o, b)
      PROVE  Rest
  <2>1. Shape' /\ Routes' /\ Carried' /\ Placed'
    BY <1>0, <1>5, StartSteps, StartCarries
  <2>2. /\ UNCHANGED <<queueOf, alive, count, worker, disconnected>>
        /\ \/ UNCHANGED queue
           \/ /\ served \in PVs /\ queueOf[served] \in Queues /\ OpEvent(served, o) \in Event
              /\ Sent(queueOf[served], OpEvent(served, o))
    BY <1>0, <1>5, Starts DEF tables, channels
  <2>3. OpEvent(served, o).kind = "op"
    BY DEF OpEvent
  <2>4. ASSUME NEW p \in alive PROVE Told(p)'
    <3>1. CASE UNCHANGED queue
      BY <1>2, <2>2, <3>1, ToldKept
    <3>2. CASE /\ served \in PVs /\ queueOf[served] \in Queues /\ OpEvent(served, o) \in Event
               /\ Sent(queueOf[served], OpEvent(served, o))
      BY <1>0, <1>2, <2>2, <2>3, <3>2, ToldOther
    <3> QED BY <2>2, <3>1, <3>2
  <2> QED BY <2>1, <2>2, <2>4 DEF AllTold
<1>6. ASSUME NEW o \in Ops, GiveUp(o) \/ Released(o) \/ \E a \in {"ok", "err"} : Done(o, a)
      PROVE  Rest
  <2>1. /\ Shape' /\ Routes' /\ Carried' /\ Placed'
        /\ UNCHANGED <<queueOf, alive, queue, worker, disconnected, count>>
    BY <1>0, <1>6, OwnerSteps
  <2>2. ASSUME NEW p \in alive PROVE Told(p)'
    BY <1>2, <2>1, ToldKept
  <2> QED BY <2>1, <2>2 DEF AllTold
<1>7. ASSUME NEW q \in Queues, Receive(q) PROVE Rest
  <2>1. Shape' /\ Routes'
    BY <1>0, <1>7, ReceiveSteps
  <2>2. Carried' /\ Placed'
    BY <1>0, <1>7, <2>1, ReceiveCarries
  <2>3. alive' = alive
    BY <1>0, <1>7, Receives DEF tables
  <2>4. ASSUME NEW p \in alive PROVE Told(p)'
    BY <1>0, <1>2, <1>7, ToldReceive
  <2> QED BY <2>1, <2>2, <2>3, <2>4 DEF AllTold
<1>8. ASSUME NEW q \in Queues, DrainEnds(q) PROVE Rest
  <2>1. /\ Shape' /\ Routes' /\ worker[q].st = "idle" /\ worker'[q].st = "ended"
        /\ (\A r \in Queues : r # q => worker'[r] = worker[r])
        /\ UNCHANGED <<queueOf, alive, queue, op, disconnected, count>>
    BY <1>0, <1>8, DrainSteps
  <2>2. Carried' /\ Placed'
    BY <1>0, <2>1, CarriedLoop
  <2>3. ASSUME NEW p \in alive PROVE Told(p)'
    BY <1>2, <2>1, ToldLoop
  <2> QED BY <2>1, <2>2, <2>3 DEF AllTold
<1>9. ASSUME NEW q \in Queues, NEW how \in {"drop", "raise", "kept", "task"}, OpHandlerEnds(q, how)
      PROVE  Rest
  <2>1. /\ Shape' /\ Routes' /\ Carried' /\ Placed'
        /\ worker[q].st = "busy" /\ worker[q].ev.kind = "op" /\ worker'[q].st = "idle"
        /\ (\A r \in Queues : r # q => worker'[r] = worker[r])
        /\ UNCHANGED <<queueOf, alive, queue, disconnected, count>>
    BY <1>0, <1>9, HandlerSteps
  <2>2. ASSUME NEW p \in alive PROVE Told(p)'
    BY <1>2, <2>1, ToldLoop
  <2> QED BY <2>1, <2>2 DEF AllTold
<1>10. ASSUME NEW q \in Queues, NEW b \in BOOLEAN, HookEnds(q, b) PROVE Rest
  <2>1. /\ Shape' /\ Routes' /\ worker[q].st = "busy" /\ worker[q].ev.kind # "op"
        /\ worker'[q].st = "idle"
        /\ (\A r \in Queues : r # q => worker'[r] = worker[r])
        /\ UNCHANGED <<queueOf, alive, queue, op, count>>
    BY <1>0, <1>10, HookSteps
  <2>2. Carried' /\ Placed'
    BY <1>0, <2>1, CarriedLoop
  <2>3. ASSUME NEW p \in alive PROVE Told(p)'
    BY <1>0, <1>2, <1>10, ToldHook
  <2> QED BY <2>1, <2>2, <2>3 DEF AllTold
<1>11. ASSUME NEW q \in Queues, FreeQueue(q) PROVE Rest
  <2>1. /\ Shape' /\ Routes' /\ Carried' /\ Placed'
        /\ UNCHANGED <<queueOf, alive, worker, disconnected, count>>
        /\ (\A p \in alive : queueOf[p] # q) /\ \A r \in Queues : r # q => queue'[r] = queue[r]
    BY <1>0, <1>11, FreeSteps
  <2>2. ASSUME NEW p \in alive PROVE Told(p)'
    <3>1. queue'[queueOf[p]] = queue[queueOf[p]]
      BY <1>2, <2>1
    <3> QED BY <1>2, <2>1, <3>1, ToldKept
  <2> QED BY <2>1, <2>2 DEF AllTold
<1> HIDE DEF Rest
<1>12. Rest
  BY <1>3, <1>4, <1>5, <1>6, <1>7, <1>8, <1>9, <1>10, <1>11 DEF Next, HandlerEnds
<1> QED BY <1>1, <1>12 DEF IInv, Rest

(* The invariant holds of every behaviour ...                              *)
LEMMA InvHolds == Spec => []IInv
<1>1. Init => IInv
  BY ChargesInit, ShapeInit DEF IInv
<1> QED BY <1>1, InvStep, PTL DEF Spec

(* ... it gives the types, ...                                             *)
LEMMA InvTypes == IInv => TypeOK
<1> SUFFICES ASSUME IInv PROVE TypeOK
  OBVIOUS
<1>1. \A p \in PVs : count[p] \in 0 .. Cardinality(Chans)
  <2> TAKE p \in PVs
  <2>1. attached \in Seq(PVs) /\ Len(attached) = Cardinality(OpenChans)
        /\ count[p] = Cardinality(Positions(attached, p))
    BY DEF IInv, Charges, OpenChans
  <2>2. count[p] \in Nat /\ count[p] <= Len(attached)
    BY <2>1, PositionsFinite
  <2> QED BY <2>1, <2>2, OpenFinite
<1>2. count \in [PVs -> 0 .. Cardinality(Chans)]
  BY <1>1 DEF IInv, Charges
<1>3. closer.st \in {"idle", "gather", "wait", "woken"}
  BY CloserFacts DEF IInv, Shape
<1>4. op \in [Ops -> [st : {"new", "queued", "held", "kept", "task", "gone"}, tx : BOOLEAN,
                     ans : {"none", "ok", "err", "lost", "left"}, pv : PVs \cup {NoPV}]]
  BY DEF IInv, Shape, Operation
<1>5. served \in PVs \cup {NoPV}
  BY DEF IInv, Tables
<1> QED BY <1>2, <1>3, <1>4, <1>5 DEF IInv, Tables, Charges, Shape, TypeOK

(* ... the places of the operations ...                                    *)
LEMMA InvPlaces == IInv => NeverDangling
<1> SUFFICES ASSUME IInv PROVE NeverDangling
  OBVIOUS
<1>1. Shape /\ Routes /\ Carried /\ Placed
  BY DEF IInv
<1>2. ASSUME NEW o \in Ops
      PROVE  /\ op[o].st = "queued" <=> \E q \in Queues \ freed : o \in OpsIn(queue[q])
             /\ op[o].st = "held" <=> \E q \in Queues : Busy(q, o)
             /\ op[o].ans = "none" /\ op[o].st # "new" => op[o].tx /\ op[o].st # "gone"
  <2>1. \A q \in Queues : o \in OpsIn(queue[q]) => op[o].st = "queued" /\ q \notin freed
    <3> SUFFICES ASSUME NEW q \in Queues, o \in OpsIn(queue[q])
                 PROVE  op[o].st = "queued" /\ q \notin freed
      OBVIOUS
    <3>1. PICK i \in DOMAIN queue[q] : queue[q][i].kind = "op" /\ queue[q][i].op = o
      BY OpsInFacts
    <3>2. queue[q] # <<>>
      BY <3>1
    <3> QED BY <1>1, <3>1, <3>2 DEF Routes, Routed, Carried
  <2>2. \A q \in Queues : Busy(q, o) => op[o].st = "held"
    BY <1>1 DEF Carried, Busy
  <2> QED BY <1>1, <2>1, <2>2 DEF Placed
<1> QED BY <1>2, InvTypes DEF NeverDangling

(* ... and the truth of the event.                                         *)
LEMMA InvEdges == IInv => EdgeTruth
<1> SUFFICES ASSUME IInv, NEW p \in alive, ~Edges(p) PROVE p \in disconnected <=> count[p] = 0
  BY DEF EdgeTruth
<1>1. queueOf[p] \in Queues /\ Told(p)
  BY OpsAssumption DEF IInv, Tables, AllTold
<1>2. EdgesOf(queue[queueOf[p]], p) = {}
  BY DEF Edges, EdgesOf
<1>3. ~Handling(p)
  BY <1>1 DEF Edges, Handling
<1> QED BY <1>1, <1>2, <1>3 DEF Told

(* An operation is never left dangling (server.rs, ServerOperation): while *)
(* its client waits it has its reply slot and is in exactly one place from *)
(* which an answer or the drop that fails it still comes.                  *)
THEOREM AnswersOwed == Spec => []NeverDangling
BY InvHolds, InvPlaces, PTL

(* What close(sync=True) waits on (_sharedpv.py, _disconnected): once the  *)
(* edges of a live PV are handled, its event is set exactly when nothing   *)
(* is attached to it, whatever was served under its name meanwhile.        *)
THEOREM DisconnectTruth == Spec => []EdgeTruth
BY InvHolds, InvEdges, PTL
=============================================================================
