------------------------ MODULE CaMonitorTask_proofs ------------------------
(***************************************************************************)
(* Theorems about CaMonitorTask for any tasks, capacities and bounds.      *)
(***************************************************************************)
EXTENDS CaMonitorTask, SequenceTheorems, TLAPS

(* The items of a subscription, those it has begun to send included, are   *)
(* in order so far ...                                                     *)
Ordered(s) ==
  \A i \in DOMAIN s :
    /\ s[i] = "connected" => ~ToldUp(s, i - 1)
    /\ s[i] = "disconnected" => ToldUp(s, i - 1)
    /\ s[i] = "value" => \E j \in 1..(i - 1) : s[j] = "connected"

HasTold(s) == \E i \in DOMAIN s : s[i] = "connected"
Ends(s) == \E i \in DOMAIN s : s[i] = "end"
EndsLast(s) == \A i \in DOMAIN s : s[i] = "end" => i = Len(s)

Stream(t) == sent[t] \o out[t]

(* ... they tell the task's own idea of the connection, and an End only    *)
(* when the task is over.                                                  *)
StreamOK(t) ==
  /\ Ordered(Stream(t)) /\ EndsLast(Stream(t))
  /\ Ends(Stream(t)) => phase[t] = "over"
  /\ phase[t] # "over" => (ToldUp(Stream(t), Len(Stream(t))) <=> connected[t])
  /\ phase[t] \in {"subscribing", "opening", "forwarding"} => HasTold(Stream(t))
  /\ phase[t] \in {"none", "spawned", "probing"} =>
       sent[t] = <<>> /\ out[t] = <<>> /\ ~connected[t]

(* The last event that tells of the connection and is not received yet     *)
(* tells its state; with none the task knows it, unless some were dropped  *)
(* or wait_connected's answer was late.                                    *)
Tells(s, quiet, i) == s[i] # quiet /\ \A j \in DOMAIN s : j > i => s[j] = quiet
Quiet(s, quiet) == \A i \in DOMAIN s : s[i] = quiet

NewsOK(t) ==
  /\ phase[t] \in {"none", "spawned"} => events[t] = <<>> /\ ~lagged[t]
  /\ Listening(t) /\ chan[t] # "gone" =>
       \A i \in DOMAIN events[t] :
         Tells(events[t], "access", i) => (events[t][i] # "disconnected" <=> chan[t] = "up")
  /\ ~LateAnswer /\ phase[t] \in {"waiting", "subscribing", "opening", "forwarding"}
       /\ chan[t] # "gone" /\ ~lagged[t] /\ Quiet(events[t], "access") => (connected[t] <=> chan[t] = "up")

(* The last command not received is the last one given; with none the task *)
(* or its handle is in the state the last one asked for.                   *)
Asked(t) == steered[t] # <<>> /\ steered[t][Len(steered[t])] = "pause"

SteerOK(t) ==
  /\ phase[t] \notin {"forwarding", "over"} => handle[t] = "none"
  /\ phase[t] # "over" /\ (phase[t] = "forwarding" => handle[t] # "none") =>
       /\ \A i \in DOMAIN ctrl[t] : Tells(ctrl[t], "close", i) =>
            (ctrl[t][i] = "pause" <=> Asked(t))
       /\ Quiet(ctrl[t], "close") =>
            (Asked(t) <=> IF phase[t] = "forwarding" THEN handle[t] = "paused" ELSE paused[t])

IInv == TypeOK /\ \A t \in Tasks : StreamOK(t) /\ NewsOK(t) /\ SteerOK(t)

-----------------------------------------------------------------------------
(* What one more item makes of a stream in order.                          *)
LEMMA OrderedSays ==
  ASSUME NEW s \in Seq(Kinds), NEW x \in Kinds, Ordered(s),
         x = "connected" => ~ToldUp(s, Len(s)), x = "disconnected" => ToldUp(s, Len(s)),
         x = "value" => HasTold(s), ~Ends(s)
  PROVE  LET w == Append(s, x) IN
         /\ w \in Seq(Kinds) /\ Ordered(w) /\ EndsLast(w)
         /\ Ends(w) <=> x = "end"
         /\ ToldUp(w, Len(w)) <=> x = "connected" \/ (x # "disconnected" /\ ToldUp(s, Len(s)))
         /\ HasTold(w) <=> HasTold(s) \/ x = "connected"
<1> DEFINE w == Append(s, x)  n == Len(s)
<1>1. /\ w \in Seq(Kinds) /\ Len(w) = n + 1 /\ n \in Nat
      /\ DOMAIN s = 1 .. n /\ DOMAIN w = 1 .. n + 1
      /\ \A i \in 1 .. n : w[i] = s[i]
      /\ w[n + 1] = x
  BY AppendProperties, LenProperties
<1> HIDE DEF w, n
<1>2. ASSUME NEW m \in 0 .. n PROVE ToldUp(w, m) <=> ToldUp(s, m)
  <2>1. \A i \in 1 .. m : i \in 1 .. n /\ w[i] = s[i]
    BY <1>1
  <2>2. \A i \in 1 .. m : \A j \in (i + 1) .. m : j \in 1 .. m
    BY <1>1
  <2> QED BY <2>1, <2>2 DEF ToldUp
<1>3. ToldUp(w, n + 1) <=> x = "connected" \/ (x # "disconnected" /\ ToldUp(s, n))
  <2>1. CASE x = "connected"
    <3>1. n + 1 \in 1 .. n + 1 /\ \A j \in (n + 1 + 1) .. n + 1 : FALSE
      BY <1>1
    <3> QED BY <1>1, <2>1, <3>1 DEF ToldUp
  <2>2. CASE x = "disconnected"
    <3>1. \A i \in 1 .. n : n + 1 \in (i + 1) .. n + 1
      BY <1>1
    <3>2. \A i \in 1 .. n + 1 : i \in 1 .. n \/ i = n + 1
      BY <1>1
    <3> QED BY <1>1, <2>2, <3>1, <3>2 DEF ToldUp
  <2>3. CASE x \notin {"connected", "disconnected"}
    <3>1. ToldUp(w, n + 1) => ToldUp(w, n)
      <4> SUFFICES ASSUME NEW i \in 1 .. n + 1, w[i] = "connected",
                          \A j \in (i + 1) .. n + 1 : w[j] # "disconnected"
                   PROVE  ToldUp(w, n)
        BY DEF ToldUp
      <4>1. i \in 1 .. n /\ \A j \in (i + 1) .. n : j \in (i + 1) .. n + 1
        BY <1>1, <2>3
      <4> QED BY <4>1 DEF ToldUp
    <3>2. ToldUp(w, n) => ToldUp(w, n + 1)
      <4> SUFFICES ASSUME NEW i \in 1 .. n, w[i] = "connected",
                          \A j \in (i + 1) .. n : w[j] # "disconnected"
                   PROVE  ToldUp(w, n + 1)
        BY DEF ToldUp
      <4>1. i \in 1 .. n + 1
        BY <1>1
      <4>2. \A j \in (i + 1) .. n + 1 : j \in (i + 1) .. n \/ j = n + 1
        BY <1>1
      <4> QED BY <1>1, <2>3, <4>1, <4>2 DEF ToldUp
    <3>3. n \in 0 .. n
      BY <1>1
    <3> QED BY <1>2, <2>3, <3>1, <3>2, <3>3
  <2> QED BY <2>1, <2>2, <2>3
<1>4. HasTold(w) <=> HasTold(s) \/ x = "connected"
  <2>1. n + 1 \in 1 .. n + 1 /\ \A i \in 1 .. n : i \in 1 .. n + 1
    BY <1>1
  <2>2. \A i \in 1 .. n + 1 : i \in 1 .. n \/ i = n + 1
    BY <1>1
  <2> QED BY <1>1, <2>1, <2>2 DEF HasTold
<1>5. EndsLast(w) /\ (Ends(w) <=> x = "end")
  <2>1. \A i \in 1 .. n : w[i] # "end"
    BY <1>1 DEF Ends
  <2>2. \A i \in 1 .. n + 1 : i \in 1 .. n \/ i = n + 1
    BY <1>1
  <2>3. n + 1 \in 1 .. n + 1
    BY <1>1
  <2> QED BY <1>1, <2>1, <2>2, <2>3 DEF Ends, EndsLast
<1>6. Ordered(w)
  <2> SUFFICES ASSUME NEW i \in 1 .. n + 1
               PROVE  /\ w[i] = "connected" => ~ToldUp(w, i - 1)
                      /\ w[i] = "disconnected" => ToldUp(w, i - 1)
                      /\ w[i] = "value" => \E j \in 1..(i - 1) : w[j] = "connected"
    BY <1>1 DEF Ordered
  <2>1. CASE i \in 1 .. n
    <3>1. i - 1 \in 0 .. n /\ \A j \in 1 .. (i - 1) : j \in 1 .. n
      BY <1>1, <2>1
    <3>2. ToldUp(w, i - 1) <=> ToldUp(s, i - 1)
      BY <1>2, <3>1
    <3>3. /\ s[i] = "connected" => ~ToldUp(s, i - 1)
          /\ s[i] = "disconnected" => ToldUp(s, i - 1)
          /\ s[i] = "value" => \E j \in 1..(i - 1) : s[j] = "connected"
      BY <1>1, <2>1 DEF Ordered
    <3> QED BY <1>1, <2>1, <3>1, <3>2, <3>3
  <2>2. CASE i = n + 1
    <3>1. i - 1 = n /\ n \in 0 .. n
      BY <1>1, <2>2
    <3>2. ToldUp(w, i - 1) <=> ToldUp(s, n)
      BY <1>2, <3>1
    <3>3. x = "value" => \E j \in 1..n : w[j] = "connected"
      BY <1>1 DEF HasTold
    <3> QED BY <1>1, <2>2, <3>1, <3>2, <3>3 DEF n
  <2> QED BY <1>1, <2>1, <2>2
<1> QED BY <1>1, <1>3, <1>4, <1>5, <1>6 DEF w, n

(* The items before some point are in order when all are.                  *)
LEMMA OrderedPrefix ==
  ASSUME NEW s \in Seq(Kinds), NEW r \in Seq(Kinds), Ordered(s \o r)
  PROVE  Ordered(s)
<1> DEFINE w == s \o r
<1>1. /\ Len(s) \in Nat /\ Len(r) \in Nat /\ DOMAIN s = 1 .. Len(s)
      /\ DOMAIN w = 1 .. Len(s) + Len(r)
      /\ \A i \in 1 .. Len(s) + Len(r) : w[i] = IF i <= Len(s) THEN s[i] ELSE r[i - Len(s)]
  BY ConcatProperties, LenProperties
<1> HIDE DEF w
<1>2. \A i \in 1 .. Len(s) : i \in DOMAIN w /\ w[i] = s[i]
  BY <1>1
<1>3. SUFFICES ASSUME NEW i \in 1 .. Len(s)
               PROVE  /\ s[i] = "connected" => ~ToldUp(s, i - 1)
                      /\ s[i] = "disconnected" => ToldUp(s, i - 1)
                      /\ s[i] = "value" => \E j \in 1..(i - 1) : s[j] = "connected"
  BY <1>1 DEF Ordered
<1>4. \A k \in 1 .. (i - 1) : k \in 1 .. Len(s) /\ \A j \in (k + 1) .. (i - 1) : j \in 1 .. Len(s)
  BY <1>1
<1>5. ToldUp(w, i - 1) <=> ToldUp(s, i - 1)
  BY <1>2, <1>4 DEF ToldUp
<1>6. /\ w[i] = "connected" => ~ToldUp(w, i - 1)
      /\ w[i] = "disconnected" => ToldUp(w, i - 1)
      /\ w[i] = "value" => \E j \in 1..(i - 1) : w[j] = "connected"
  BY <1>2 DEF Ordered, w
<1> QED BY <1>2, <1>4, <1>5, <1>6

-----------------------------------------------------------------------------
(* The parts of TypeOK that one action may change without another.         *)
ChanTypes ==
  /\ chan \in [Tasks -> {"down", "up", "gone"}] /\ changes \in [Tasks -> 0..MaxChanges]
  /\ events \in [Tasks -> Seq(Events)] /\ \A t \in Tasks : Len(events[t]) <= EventCap
  /\ lagged \in [Tasks -> BOOLEAN] /\ answer \in [Tasks -> BOOLEAN]
  /\ fresh \in [Tasks -> BOOLEAN] /\ lost \in [Tasks -> BOOLEAN]

TaskTypes ==
  /\ connected \in [Tasks -> BOOLEAN] /\ deadline \in [Tasks -> BOOLEAN]
  /\ paused \in [Tasks -> BOOLEAN] /\ phase \in [Tasks -> Phases]
  /\ handle \in [Tasks -> {"none", "running", "paused"}]

HubTypes ==
  /\ ctrl \in [Tasks -> Seq(Commands)] /\ steered \in [Tasks -> Seq({"pause", "resume"})]
  /\ subs \subseteq Tasks /\ open \in BOOLEAN

ItemTypes ==
  /\ out \in [Tasks -> Seq(Kinds)] /\ sent \in [Tasks -> Seq(Kinds)]
  /\ queue \in Seq([task: Tasks, kind: Kinds]) /\ Len(queue) <= Queue

(* The parts are all of it.                                                *)
LEMMA TypeParts ==
  /\ TypeOK <=> ChanTypes /\ TaskTypes /\ HubTypes /\ ItemTypes
  /\ ChanTypes' /\ TaskTypes' /\ HubTypes' /\ ItemTypes' => TypeOK'
<1>1. TypeOK <=> ChanTypes /\ TaskTypes /\ HubTypes /\ ItemTypes
  BY DEF TypeOK, ChanTypes, TaskTypes, HubTypes, ItemTypes
<1>2. ChanTypes' /\ TaskTypes' /\ HubTypes' /\ ItemTypes' => TypeOK'
  BY DEF TypeOK, ChanTypes, TaskTypes, HubTypes, ItemTypes
<1> QED BY <1>1, <1>2

(* The items a step sends.                                                 *)
LEMMA KindSeqs ==
  /\ <<>> \in Seq(Kinds) /\ \A x \in Kinds : <<x>> \in Seq(Kinds)
  /\ \A x, y \in Kinds : <<x, y>> \in Seq(Kinds)
  /\ {"value", "error", "timeout", "connected", "end", "disconnected", "access"} \subseteq Kinds
BY DEF Kinds

(* The cases of News.                                                      *)
LEMMA NewsFacts ==
  ASSUME NEW t \in Tasks, connected[t] \in BOOLEAN, NEW now \in BOOLEAN
  PROVE  News(t, now) = IF now = connected[t] THEN <<>>
                        ELSE IF now THEN <<"connected">> ELSE <<"disconnected">>
<1>1. CASE now = connected[t]
  BY <1>1 DEF News
<1>2. CASE now /\ ~connected[t]
  BY <1>2 DEF News
<1>3. CASE ~now /\ connected[t]
  BY <1>3 DEF News
<1> QED BY <1>1, <1>2, <1>3

(* Forward keeps the types ...                                             *)
LEMMA ForwardTypes ==
  ASSUME TaskTypes, ItemTypes, NEW t \in Tasks, NEW now \in BOOLEAN, Forward(t, now)
  PROVE  connected' \in [Tasks -> BOOLEAN] /\ out' \in [Tasks -> Seq(Kinds)]
<1>1. News(t, now) \in Seq(Kinds)
  BY NewsFacts, KindSeqs DEF TaskTypes
<1> QED BY <1>1 DEF Forward, Sends, TaskTypes, ItemTypes

(* ... and so does a broadcast, which respects the capacity.               *)
LEMMA BroadcastTypes ==
  ASSUME ChanTypes, NEW t \in Tasks, NEW e \in Events, Broadcast(t, e)
  PROVE  /\ events' \in [Tasks -> Seq(Events)] /\ \A u \in Tasks : Len(events'[u]) <= EventCap
         /\ lagged' \in [Tasks -> BOOLEAN]
<1>1. events[t] \in Seq(Events) /\ Len(events[t]) <= EventCap /\ Len(events[t]) \in Nat
  BY DEF ChanTypes
<1>2. CASE ~Listening(t)
  BY <1>2 DEF Broadcast, ChanTypes
<1>3. CASE Listening(t) /\ Len(events[t]) < EventCap
  <2>1. events' = [events EXCEPT ![t] = Append(events[t], e)] /\ UNCHANGED lagged
    BY <1>3 DEF Broadcast
  <2>2. Append(events[t], e) \in Seq(Events) /\ Len(Append(events[t], e)) <= EventCap
    BY <1>1, <1>3, AppendProperties, TaskAssumption
  <2> QED BY <2>1, <2>2 DEF ChanTypes
<1>4. CASE Listening(t) /\ ~(Len(events[t]) < EventCap)
  <2>1. /\ events' = [events EXCEPT ![t] = Append(Tail(events[t]), e)]
        /\ lagged' = [lagged EXCEPT ![t] = TRUE]
    BY <1>4 DEF Broadcast
  <2>2. events[t] # <<>>
    BY <1>1, <1>4, TaskAssumption
  <2>3. Tail(events[t]) \in Seq(Events) /\ Len(Tail(events[t])) = Len(events[t]) - 1
    BY <1>1, <2>2, HeadTailProperties
  <2>4. Append(Tail(events[t]), e) \in Seq(Events)
        /\ Len(Append(Tail(events[t]), e)) = Len(events[t]) - 1 + 1
    BY <2>3, AppendProperties
  <2>5. events' \in [Tasks -> Seq(Events)] /\ \A u \in Tasks : Len(events'[u]) <= EventCap
    BY <1>1, <2>1, <2>4 DEF ChanTypes
  <2>6. lagged' \in [Tasks -> BOOLEAN]
    BY <2>1 DEF ChanTypes
  <2> QED BY <2>5, <2>6
<1> QED BY <1>2, <1>3, <1>4

(* The types hold at first, ...                                            *)
LEMMA TypeInit == Init => TypeOK
<1> SUFFICES ASSUME Init PROVE TypeOK
  OBVIOUS
<1>1. ChanTypes
  BY TaskAssumption DEF Init, ChanTypes
<1>2. TaskTypes /\ HubTypes
  BY DEF Init, TaskTypes, HubTypes, Phases
<1>3. ItemTypes
  BY TaskAssumption DEF Init, ItemTypes
<1> QED BY <1>1, <1>2, <1>3, TypeParts

(* ... through the methods of the hub, ...                                 *)
LEMMA HubTypeSteps ==
  ASSUME TypeOK, \/ \E t \in Tasks : Hub(t)
                 \/ ClearSubs \/ CloseDrain \/ RecvBatch
  PROVE  TypeOK'
<1>0. ChanTypes /\ TaskTypes /\ HubTypes /\ ItemTypes
  BY TypeParts
<1>1. ASSUME NEW t \in Tasks, Subscribe(t) PROVE TypeOK'
  <2>1. ChanTypes' /\ ItemTypes'
    BY <1>0, <1>1 DEF Subscribe, chanVars, ChanTypes, ItemTypes
  <2>2. TaskTypes' /\ HubTypes'
    BY <1>0, <1>1 DEF Subscribe, TaskTypes, HubTypes, Phases
  <2> QED BY <2>1, <2>2, TypeParts
<1>2. ASSUME NEW t \in Tasks, NEW c \in {"pause", "resume"}, Steer(t, c) PROVE TypeOK'
  <2>1. ChanTypes' /\ ItemTypes' /\ TaskTypes'
    BY <1>0, <1>2 DEF Steer, chanVars, taskVars, ChanTypes, ItemTypes, TaskTypes
  <2>2. HubTypes'
    <3>1. Append(steered[t], c) \in Seq({"pause", "resume"}) /\ Append(ctrl[t], c) \in Seq(Commands)
      BY <1>0, <1>2 DEF HubTypes, Commands
    <3> QED BY <1>0, <1>2, <3>1 DEF Steer, HubTypes
  <2> QED BY <2>1, <2>2, TypeParts
<1>3. ASSUME NEW t \in Tasks, CloseSubscription(t) PROVE TypeOK'
  <2>1. ChanTypes' /\ ItemTypes' /\ TaskTypes'
    BY <1>0, <1>3 DEF CloseSubscription, chanVars, taskVars, ChanTypes, ItemTypes, TaskTypes
  <2>2. HubTypes'
    <3>1. Append(ctrl[t], "close") \in Seq(Commands)
      BY <1>0 DEF HubTypes, Commands
    <3> QED BY <1>0, <1>3, <3>1 DEF CloseSubscription, HubTypes
  <2> QED BY <2>1, <2>2, TypeParts
<1>4. CASE ClearSubs
  <2>1. ChanTypes' /\ ItemTypes' /\ TaskTypes'
    BY <1>0, <1>4 DEF ClearSubs, chanVars, taskVars, ChanTypes, ItemTypes, TaskTypes
  <2>2. HubTypes'
    <3>1. \A t \in Tasks : Append(ctrl[t], "close") \in Seq(Commands) /\ ctrl[t] \in Seq(Commands)
      BY <1>0 DEF HubTypes, Commands
    <3> QED BY <1>0, <1>4, <3>1 DEF ClearSubs, HubTypes
  <2> QED BY <2>1, <2>2, TypeParts
<1>5. CASE CloseDrain \/ RecvBatch
  <2>1. ChanTypes' /\ TaskTypes' /\ HubTypes'
    BY <1>0, <1>5 DEF CloseDrain, RecvBatch, chanVars, taskVars, ChanTypes, TaskTypes, HubTypes
  <2>2. queue' = <<>> /\ UNCHANGED <<out, sent>>
    BY <1>5 DEF CloseDrain, RecvBatch, taskVars
  <2>3. queue' \in Seq([task: Tasks, kind: Kinds]) /\ Len(queue') <= Queue
    BY <2>2, EmptySeq, TaskAssumption
  <2>4. ItemTypes'
    BY <1>0, <2>2, <2>3 DEF ItemTypes
  <2> QED BY <2>1, <2>4, TypeParts
<1> QED BY <1>1, <1>2, <1>3, <1>4, <1>5 DEF Hub

(* ... the changes of a channel ...                                        *)
LEMMA ChannelTypeSteps ==
  ASSUME TypeOK, NEW t \in Tasks, Channel(t) \/ WaitAnswers(t)
  PROVE  TypeOK'
<1>0. ChanTypes /\ TaskTypes /\ HubTypes /\ ItemTypes
  BY TypeParts
<1>1. TaskTypes' /\ HubTypes' /\ ItemTypes'
  BY <1>0 DEF Channel, ChannelUp, ChannelDown, ChannelGone, Update, ChannelNotes, WaitAnswers,
              taskVars, hubVars, TaskTypes, HubTypes, ItemTypes
<1>2. MayChange(t) => changes' \in [Tasks -> 0 .. MaxChanges]
  BY <1>0, TaskAssumption DEF MayChange, ChanTypes
<1>4. CASE ChannelUp(t)
  <2>1. Broadcast(t, "connected") /\ "connected" \in Events
    BY <1>4 DEF ChannelUp, Events
  <2>2. ChanTypes'
    BY <1>0, <1>2, <1>4, <2>1, BroadcastTypes DEF ChannelUp, ChanTypes
  <2> QED BY <1>1, <2>2, TypeParts
<1>5. CASE ChannelDown(t)
  <2>1. Broadcast(t, "disconnected") /\ "disconnected" \in Events
    BY <1>5 DEF ChannelDown, Events
  <2>2. ChanTypes'
    BY <1>0, <1>2, <1>5, <2>1, BroadcastTypes DEF ChannelDown, ChanTypes
  <2> QED BY <1>1, <2>2, TypeParts
<1>6. ASSUME NEW e \in Notes, ChannelNotes(t, e) PROVE TypeOK'
  <2>1. Broadcast(t, e) /\ e \in Events
    BY <1>6, TaskAssumption DEF ChannelNotes, Events
  <2>2. ChanTypes'
    BY <1>0, <1>2, <1>6, <2>1, BroadcastTypes DEF ChannelNotes, ChanTypes
  <2> QED BY <1>1, <2>2, TypeParts
<1>7. CASE ChannelGone(t)
  <2>1. ChanTypes'
    BY <1>0, <1>2, <1>7 DEF ChannelGone, ChanTypes
  <2> QED BY <1>1, <2>1, TypeParts
<1>8. CASE Update(t)
  <2>1. ChanTypes'
    BY <1>0, <1>2, <1>8 DEF Update, ChanTypes
  <2> QED BY <1>1, <2>1, TypeParts
<1>9. CASE WaitAnswers(t)
  <2>1. ChanTypes'
    BY <1>0, <1>2, <1>9 DEF WaitAnswers, chanVars, ChanTypes
  <2> QED BY <1>1, <2>1, TypeParts
<1> QED BY <1>4, <1>5, <1>6, <1>7, <1>8, <1>9 DEF Channel

-----------------------------------------------------------------------------
(* ... and the steps of a task.                                            *)
LEMMA TaskTypeSteps ==
  ASSUME TypeOK, NEW t \in Tasks, TaskStep(t)
  PROVE  TypeOK'
<1>0. ChanTypes /\ TaskTypes /\ HubTypes /\ ItemTypes
  BY TypeParts
<1>1. CASE Send(t)
  <2>1. ChanTypes' /\ HubTypes'
    BY <1>0, <1>1 DEF Send, chanVars, ChanTypes, HubTypes
  <2>2. TaskTypes'
    BY <1>0, <1>1 DEF Send, TaskTypes
  <2>3. out[t] \in Seq(Kinds) /\ out[t] # <<>>
    BY <1>0, <1>1 DEF Send, ItemTypes
  <2>4. Head(out[t]) \in Kinds /\ Tail(out[t]) \in Seq(Kinds)
    BY <2>3, HeadTailProperties
  <2>5. Append(sent[t], Head(out[t])) \in Seq(Kinds)
    BY <1>0, <2>4 DEF ItemTypes
  <2> DEFINE x == [task |-> t, kind |-> Head(out[t])]
  <2>6. x \in [task : Tasks, kind : Kinds]
    BY <2>4
  <2>7. queue' = Append(queue, x) /\ Len(queue) < Queue
    BY <1>1 DEF Send, HasRoom
  <2> HIDE DEF x
  <2>8. queue' \in Seq([task : Tasks, kind : Kinds]) /\ Len(queue') <= Queue
    <3>1. queue \in Seq([task : Tasks, kind : Kinds]) /\ Len(queue) \in Nat
      BY <1>0 DEF ItemTypes
    <3>2. Append(queue, x) \in Seq([task : Tasks, kind : Kinds]) /\ Len(Append(queue, x)) = Len(queue) + 1
      BY <3>1, <2>6, AppendProperties
    <3> QED BY <2>7, <3>1, <3>2, TaskAssumption
  <2>9. ItemTypes'
    BY <1>0, <1>1, <2>4, <2>5, <2>8 DEF Send, ItemTypes
  <2> QED BY <2>1, <2>2, <2>9, TypeParts
<1>3. CASE SendFails(t) \/ Listen(t) \/ TakeClosed(t) \/ ConnectFails(t) \/ NoValues(t)
           \/ SubscribeCall(t) \/ HandleEnds(t)
  <2>1. ChanTypes' /\ HubTypes'
    BY <1>0, <1>3 DEF SendFails, Listen, TakeClosed, ConnectFails, NoValues, SubscribeCall, HandleEnds,
       chanVars, hubVars, ChanTypes, HubTypes
  <2>2. /\ \E p \in {"over", "probing", "forwarding", "opening"} : phase' = [phase EXCEPT ![t] = p]
        /\ UNCHANGED <<connected, deadline, paused, handle, queue, sent>>
    BY <1>3 DEF SendFails, Listen, TakeClosed, ConnectFails, NoValues, SubscribeCall, HandleEnds, hubVars,
       Goes
  <2>3. TaskTypes'
    BY <1>0, <2>2 DEF TaskTypes, Phases
  <2>4. UNCHANGED out \/ \E r \in Seq(Kinds) : out' = [out EXCEPT ![t] = r]
    BY <1>3, KindSeqs DEF SendFails, Listen, TakeClosed, ConnectFails, NoValues, SubscribeCall, HandleEnds,
       Sends
  <2>5. ItemTypes'
    BY <1>0, <2>2, <2>4 DEF ItemTypes
  <2> QED BY <2>1, <2>3, <2>5, TypeParts
<1>4. CASE Probe(t)
  <2>1. ChanTypes' /\ HubTypes'
    BY <1>0, <1>4 DEF Probe, chanVars, hubVars, ChanTypes, HubTypes
  <2>2. TaskTypes'
    BY <1>0, <1>4 DEF Probe, Goes, TaskTypes, Phases
  <2>3. ItemTypes'
    BY <1>0, <1>4, KindSeqs DEF Probe, Sends, hubVars, ItemTypes
  <2> QED BY <2>1, <2>2, <2>3, TypeParts
<1>5. CASE TakeEvent(t)
  <2>1. events[t] \in Seq(Events) /\ events[t] # <<>> /\ Len(events[t]) <= EventCap
    BY <1>0, <1>5 DEF TakeEvent, ChanTypes
  <2>2. Tail(events[t]) \in Seq(Events) /\ Len(Tail(events[t])) <= EventCap
    BY <2>1, HeadTailProperties, TaskAssumption, EmptySeq
  <2>3. ChanTypes' /\ HubTypes'
    BY <1>0, <1>5, <2>2 DEF TakeEvent, hubVars, ChanTypes, HubTypes
  <2>4. connected' \in [Tasks -> BOOLEAN] /\ out' \in [Tasks -> Seq(Kinds)]
    <3>1. CASE Head(events[t]) = "access"
      BY <1>0, <1>5, <3>1, KindSeqs DEF TakeEvent, Sends, TaskTypes, ItemTypes
    <3>2. CASE Head(events[t]) # "access"
      BY <1>0, <1>5, <3>2, ForwardTypes DEF TakeEvent
    <3> QED BY <3>1, <3>2
  <2>5. TaskTypes' /\ ItemTypes'
    BY <1>0, <1>5, <2>4 DEF TakeEvent, hubVars, TaskTypes, ItemTypes
  <2> QED BY <2>3, <2>5, TypeParts
<1>6. CASE TakeLagged(t)
  <2>1. ChanTypes' /\ HubTypes'
    BY <1>0, <1>6 DEF TakeLagged, hubVars, ChanTypes, HubTypes
  <2>2. connected' \in [Tasks -> BOOLEAN] /\ out' \in [Tasks -> Seq(Kinds)]
    BY <1>0, <1>6, ForwardTypes DEF TakeLagged, Resync
  <2>3. TaskTypes' /\ ItemTypes'
    BY <1>0, <1>6, <2>2 DEF TakeLagged, hubVars, TaskTypes, ItemTypes
  <2> QED BY <2>1, <2>3, TypeParts
<1>7. CASE Timeout(t)
  <2>1. ChanTypes' /\ HubTypes'
    BY <1>0, <1>7 DEF Timeout, chanVars, hubVars, ChanTypes, HubTypes
  <2>2. TaskTypes' /\ ItemTypes'
    BY <1>0, <1>7, KindSeqs DEF Timeout, Sends, hubVars, TaskTypes, ItemTypes
  <2> QED BY <2>1, <2>2, TypeParts
<1>8. CASE Connect(t)
  <2>1. ChanTypes' /\ HubTypes'
    BY <1>0, <1>8 DEF Connect, chanVars, hubVars, ChanTypes, HubTypes
  <2>2. connected' \in [Tasks -> BOOLEAN] /\ out' \in [Tasks -> Seq(Kinds)]
    BY <1>0, <1>8, ForwardTypes DEF Connect
  <2>3. TaskTypes' /\ ItemTypes'
    BY <1>0, <1>8, <2>2 DEF Connect, Goes, hubVars, TaskTypes, ItemTypes, Phases
  <2> QED BY <2>1, <2>3, TypeParts
<1>9. CASE SubscribeReturns(t)
  <2>1. ChanTypes' /\ HubTypes'
    BY <1>0, <1>9 DEF SubscribeReturns, hubVars, ChanTypes, HubTypes
  <2>2. handle' \in [Tasks -> {"none", "running", "paused"}] /\ phase' \in [Tasks -> Phases]
    BY <1>0, <1>9 DEF SubscribeReturns, NewHandle, Goes, TaskTypes, Phases
  <2>3. TaskTypes'
    BY <1>0, <1>9, <2>2 DEF SubscribeReturns, TaskTypes
  <2>4. ItemTypes'
    BY <1>0, <1>9, KindSeqs DEF SubscribeReturns, Sends, hubVars, ItemTypes
  <2> QED BY <2>1, <2>3, <2>4, TypeParts
<1>10. CASE TakeValue(t) \/ TakeError(t)
  <2>1. ChanTypes' /\ HubTypes'
    BY <1>0, <1>10 DEF TakeValue, TakeError, hubVars, ChanTypes, HubTypes
  <2>2. TaskTypes' /\ ItemTypes'
    BY <1>0, <1>10, KindSeqs DEF TakeValue, TakeError, Sends, hubVars, TaskTypes, ItemTypes
  <2> QED BY <2>1, <2>2, TypeParts
<1>11. CASE TakeCommand(t) \/ TakeClose(t)
  <2>1. ctrl[t] \in Seq(Commands) /\ ctrl[t] # <<>>
    BY <1>0, <1>11 DEF TakeCommand, TakeClose, HubTypes
  <2>2. Tail(ctrl[t]) \in Seq(Commands)
    BY <2>1, HeadTailProperties
  <2>3. ChanTypes' /\ HubTypes'
    BY <1>0, <1>11, <2>2 DEF TakeCommand, TakeClose, chanVars, hubVars, ChanTypes, HubTypes
  <2>4. TaskTypes' /\ ItemTypes'
    <3>1. CASE TakeCommand(t)
      <4>1. handle' \in [Tasks -> {"none", "running", "paused"}] /\ paused' \in [Tasks -> BOOLEAN]
        BY <1>0, <3>1 DEF TakeCommand, TaskTypes
      <4> QED BY <1>0, <3>1, <4>1 DEF TakeCommand, hubVars, TaskTypes, ItemTypes
    <3>2. CASE TakeClose(t)
      <4>1. TaskTypes'
        BY <1>0, <3>2 DEF TakeClose, Goes, TaskTypes, Phases
      <4>2. ItemTypes'
        BY <1>0, <3>2, KindSeqs DEF TakeClose, Sends, hubVars, ItemTypes
      <4> QED BY <4>1, <4>2
    <3> QED BY <1>11, <3>1, <3>2
  <2> QED BY <2>3, <2>4, TypeParts
<1> QED BY <1>1, <1>3, <1>4, <1>5, <1>6, <1>7, <1>8, <1>9, <1>10, <1>11 DEF TaskStep

(* So every step keeps the types.                                          *)
LEMMA TypeStep == TypeOK /\ [Next]_vars => TypeOK'
<1> SUFFICES ASSUME TypeOK, [Next]_vars PROVE TypeOK'
  OBVIOUS
<1>1. CASE Next
  BY <1>1, HubTypeSteps, ChannelTypeSteps, TaskTypeSteps DEF Next
<1>2. CASE UNCHANGED vars
  BY <1>2 DEF vars, chanVars, taskVars, hubVars, TypeOK
<1> QED BY <1>1, <1>2

-----------------------------------------------------------------------------
(* What the invariant says of a subscription reads nothing else.           *)
SameStream(t) == /\ sent'[t] = sent[t] /\ out'[t] = out[t] /\ phase'[t] = phase[t]
                 /\ connected'[t] = connected[t]
SameNews(t) == /\ phase'[t] = phase[t] /\ connected'[t] = connected[t] /\ chan'[t] = chan[t]
               /\ events'[t] = events[t] /\ lagged'[t] = lagged[t]
SameSteer(t) == /\ phase'[t] = phase[t] /\ handle'[t] = handle[t] /\ paused'[t] = paused[t]
                /\ ctrl'[t] = ctrl[t] /\ steered'[t] = steered[t]

(* So a step that leaves these alone keeps it ...                          *)
LEMMA StreamSame ==
  ASSUME NEW t \in Tasks, StreamOK(t), SameStream(t)
  PROVE  StreamOK(t)'
BY DEF StreamOK, Stream, SameStream

(* ... for the events ...                                                  *)
LEMMA NewsSame ==
  ASSUME NEW t \in Tasks, NewsOK(t), SameNews(t)
  PROVE  NewsOK(t)'
BY DEF NewsOK, Listening, SameNews

(* ... and for the commands.                                               *)
LEMMA SteerSame ==
  ASSUME NEW t \in Tasks, SteerOK(t), SameSteer(t)
  PROVE  SteerOK(t)'
BY DEF SteerOK, Asked, SameSteer

(* A task changes nothing of another.                                      *)
LEMMA Apart ==
  ASSUME TypeOK, NEW t \in Tasks, TaskStep(t), NEW u \in Tasks, u # t
  PROVE  SameStream(u) /\ SameNews(u) /\ SameSteer(u)
<1>0. ChanTypes /\ TaskTypes /\ HubTypes /\ ItemTypes
  BY TypeParts
<1>1. ASSUME Send(t) \/ SendFails(t) PROVE SameStream(u) /\ SameNews(u) /\ SameSteer(u)
  BY <1>0, <1>1 DEF Send, SendFails, Sends, Goes, chanVars, hubVars, SameStream, SameNews, SameSteer,
     ChanTypes, TaskTypes, HubTypes, ItemTypes
<1>2. ASSUME Listen(t) \/ Probe(t) \/ NoValues(t)
      PROVE SameStream(u) /\ SameNews(u) /\ SameSteer(u)
  BY <1>0, <1>2 DEF Listen, Probe, NoValues, Sends, Goes, chanVars, hubVars,
     SameStream, SameNews, SameSteer, ChanTypes, TaskTypes, HubTypes, ItemTypes
<1>3. ASSUME TakeEvent(t) \/ TakeLagged(t) PROVE SameStream(u) /\ SameNews(u) /\ SameSteer(u)
  BY <1>0, <1>3 DEF TakeEvent, TakeLagged, Resync, Forward, Sends, hubVars,
     SameStream, SameNews, SameSteer, ChanTypes, TaskTypes, HubTypes, ItemTypes
<1>4. ASSUME TakeClosed(t) \/ Timeout(t) \/ Connect(t) \/ ConnectFails(t)
      PROVE SameStream(u) /\ SameNews(u) /\ SameSteer(u)
  BY <1>0, <1>4 DEF TakeClosed, Timeout, Connect, ConnectFails, Forward, Sends, Goes, chanVars, hubVars,
     SameStream, SameNews, SameSteer, ChanTypes, TaskTypes, HubTypes, ItemTypes
<1>5. ASSUME SubscribeCall(t) \/ SubscribeReturns(t)
      PROVE SameStream(u) /\ SameNews(u) /\ SameSteer(u)
  BY <1>0, <1>5 DEF SubscribeCall, SubscribeReturns, Sends, Goes, chanVars, hubVars,
     SameStream, SameNews, SameSteer, ChanTypes, TaskTypes, HubTypes, ItemTypes
<1>6. ASSUME TakeValue(t) \/ TakeError(t) \/ HandleEnds(t)
      PROVE SameStream(u) /\ SameNews(u) /\ SameSteer(u)
  BY <1>0, <1>6 DEF TakeValue, TakeError, HandleEnds, Sends, Goes, chanVars, hubVars,
     SameStream, SameNews, SameSteer, ChanTypes, TaskTypes, HubTypes, ItemTypes
<1>7. ASSUME TakeCommand(t) \/ TakeClose(t) PROVE SameStream(u) /\ SameNews(u) /\ SameSteer(u)
  <2>1. UNCHANGED <<chan, events, lagged, connected, sent, steered>>
    BY <1>7 DEF TakeCommand, TakeClose, chanVars, hubVars
  <2>2. phase'[u] = phase[u] /\ out'[u] = out[u] /\ ctrl'[u] = ctrl[u]
    BY <1>0, <1>7 DEF TakeCommand, TakeClose, Sends, Goes, TaskTypes, HubTypes, ItemTypes
  <2>3. handle'[u] = handle[u] /\ paused'[u] = paused[u]
    BY <1>0, <1>7 DEF TakeCommand, TakeClose, TaskTypes
  <2> QED BY <2>1, <2>2, <2>3 DEF SameStream, SameNews, SameSteer
<1> QED BY <1>1, <1>2, <1>3, <1>4, <1>5, <1>6, <1>7 DEF TaskStep

(* A task with nothing left to send says nothing, an item, or an error and *)
(* the End.                                                                *)
Saying(t, items) == /\ out[t] = <<>> /\ phase[t] # "over"
                    /\ sent'[t] = sent[t] /\ out'[t] = items

(* The stream of a task with nothing left to send is what it sent.         *)
LEMMA StreamTypes ==
  ASSUME TypeOK, NEW t \in Tasks
  PROVE  /\ sent[t] \in Seq(Kinds) /\ out[t] \in Seq(Kinds) /\ Stream(t) \in Seq(Kinds)
         /\ out[t] = <<>> => Stream(t) = sent[t]
<1>1. sent[t] \in Seq(Kinds) /\ out[t] \in Seq(Kinds)
  BY DEF TypeOK
<1>2. Stream(t) \in Seq(Kinds)
  BY <1>1, ConcatProperties DEF Stream
<1>3. sent[t] \o <<>> = sent[t]
  BY <1>1, ConcatEmptySeq
<1> QED BY <1>1, <1>2, <1>3 DEF Stream

(* A task that has nothing to say leaves its stream alone.                 *)
LEMMA SaysNothing ==
  ASSUME TypeOK, NEW t \in Tasks, Saying(t, <<>>)
  PROVE  Stream(t)' = Stream(t)
BY DEF Saying, Stream

(* What the stream tells after one more item.                              *)
LEMMA SaysItem ==
  ASSUME TypeOK, NEW t \in Tasks, StreamOK(t), NEW x \in Kinds, Saying(t, <<x>>),
         x = "connected" => ~connected[t], x = "disconnected" => connected[t],
         x = "value" => HasTold(Stream(t))
  PROVE  /\ Ordered(Stream(t)') /\ EndsLast(Stream(t)') /\ (Ends(Stream(t)') <=> x = "end")
         /\ ToldUp(Stream(t)', Len(Stream(t)')) <=>
              x = "connected" \/ (x # "disconnected" /\ connected[t])
         /\ HasTold(Stream(t)') <=> HasTold(Stream(t)) \/ x = "connected"
<1>1. sent[t] \in Seq(Kinds) /\ Stream(t) = sent[t]
  BY StreamTypes DEF Saying
<1>2. Stream(t)' = Append(sent[t], x)
  BY <1>1, AppendIsConcat DEF Saying, Stream
<1>3. Ordered(sent[t]) /\ ~Ends(sent[t]) /\ (ToldUp(sent[t], Len(sent[t])) <=> connected[t])
  BY <1>1 DEF StreamOK, Saying
<1> QED BY <1>1, <1>2, <1>3, OrderedSays

(* The stream that ends in an error.                                       *)
LEMMA SaysError ==
  ASSUME TypeOK, NEW t \in Tasks, StreamOK(t), Saying(t, <<"error", "end">>)
  PROVE  Ordered(Stream(t)') /\ EndsLast(Stream(t)')
<1>1. sent[t] \in Seq(Kinds) /\ Stream(t) = sent[t] /\ "error" \in Kinds /\ "end" \in Kinds
  BY StreamTypes, KindSeqs DEF Saying
<1>2. Ordered(sent[t]) /\ ~Ends(sent[t])
  BY <1>1 DEF StreamOK, Saying
<1> DEFINE w == Append(sent[t], "error")
<1>3. w \in Seq(Kinds) /\ Ordered(w) /\ ~Ends(w)
  BY <1>1, <1>2, OrderedSays
<1>4. Ordered(Append(w, "end")) /\ EndsLast(Append(w, "end"))
  <2> HIDE DEF w
  <2> QED BY <1>1, <1>3, OrderedSays
<1>5. Stream(t)' = Append(w, "end")
  <2>1. Stream(t)' = sent[t] \o <<"error", "end">>
    BY DEF Saying, Stream
  <2>2. <<"error", "end">> = <<"error">> \o <<"end">> /\ <<"error">> \in Seq(Kinds) /\ <<"end">> \in Seq(Kinds)
    BY KindSeqs
  <2>3. sent[t] \o (<<"error">> \o <<"end">>) = (sent[t] \o <<"error">>) \o <<"end">>
    BY <1>1, <2>2, ConcatAssociative
  <2>4. sent[t] \o <<"error">> = w
    BY <1>1, AppendIsConcat
  <2> HIDE DEF w
  <2>5. w \o <<"end">> = Append(w, "end")
    BY <1>1, <1>3, AppendIsConcat
  <2> QED BY <2>1, <2>2, <2>3, <2>4, <2>5
<1> QED BY <1>4, <1>5

-----------------------------------------------------------------------------
(* A stream that left Python with a connection told of one.                *)
LEMMA ToldHas ==
  ASSUME NEW s \in Seq(Kinds), ToldUp(s, Len(s))
  PROVE  HasTold(s)
BY LenProperties DEF ToldUp, HasTold

(* Forward tells the state it is given, if it is not told already.         *)
LEMMA ForwardSays ==
  ASSUME TypeOK, NEW t \in Tasks, StreamOK(t), NEW now \in BOOLEAN, Forward(t, now),
         out[t] = <<>>, phase[t] \in {"waiting", "forwarding"}, sent' = sent,
         phase'[t] \in {"waiting", "subscribing", "forwarding"},
         phase'[t] # "waiting" => now \/ phase[t] = "forwarding"
  PROVE  StreamOK(t)' /\ connected'[t] = now
<1>1. connected'[t] = now /\ out'[t] = News(t, now) /\ connected[t] \in BOOLEAN
  BY DEF Forward, Sends, TypeOK
<1>2. ToldUp(Stream(t), Len(Stream(t))) <=> connected[t]
  BY DEF StreamOK
<1>3. connected[t] \/ phase[t] = "forwarding" => HasTold(Stream(t))
  BY <1>2, ToldHas, StreamTypes DEF StreamOK
<1>4. CASE now = connected[t]
  <2>1. Saying(t, <<>>)
    BY <1>1, <1>4, NewsFacts DEF Saying
  <2>2. Stream(t)' = Stream(t)
    BY <2>1, SaysNothing
  <2> QED BY <1>1, <1>2, <1>3, <1>4, <2>2 DEF StreamOK
<1>5. CASE now # connected[t]
  <2> DEFINE x == IF now THEN "connected" ELSE "disconnected"
  <2>1. Saying(t, <<x>>) /\ x \in Kinds
    BY <1>1, <1>5, NewsFacts DEF Saying, Kinds
  <2>2. (x = "connected" <=> now) /\ (x = "disconnected" <=> ~now) /\ x # "value" /\ x # "end"
    OBVIOUS
  <2> HIDE DEF x
  <2>3. /\ Ordered(Stream(t)') /\ EndsLast(Stream(t)') /\ ~Ends(Stream(t)')
        /\ ToldUp(Stream(t)', Len(Stream(t)')) <=> now
        /\ HasTold(Stream(t)') <=> HasTold(Stream(t)) \/ now
    BY <1>1, <1>5, <2>1, <2>2, SaysItem
  <2> QED BY <1>1, <1>3, <2>3 DEF StreamOK
<1> QED BY <1>4, <1>5, <1>1

(* A task says an item that tells nothing of the connection.               *)
LEMMA OtherSays ==
  ASSUME TypeOK, NEW t \in Tasks, StreamOK(t), NEW x \in Kinds, Saying(t, <<x>>),
         phase[t] \in {"waiting", "forwarding"},
         x \notin {"connected", "disconnected"}, x = "value" => phase[t] = "forwarding",
         connected'[t] = connected[t],
         \/ x # "end" /\ phase'[t] = phase[t]
         \/ phase'[t] = "over"
  PROVE  StreamOK(t)'
<1>1. phase[t] = "forwarding" => HasTold(Stream(t))
  BY DEF StreamOK
<1>2. /\ Ordered(Stream(t)') /\ EndsLast(Stream(t)') /\ (Ends(Stream(t)') <=> x = "end")
      /\ ToldUp(Stream(t)', Len(Stream(t)')) <=> connected[t]
      /\ HasTold(Stream(t)') <=> HasTold(Stream(t))
  BY <1>1, SaysItem
<1> QED BY <1>1, <1>2 DEF StreamOK

(* A task whose subscribe fails says so and is over.                       *)
LEMMA ErrorSays ==
  ASSUME TypeOK, NEW t \in Tasks, StreamOK(t), Saying(t, <<"error", "end">>), phase'[t] = "over"
  PROVE  StreamOK(t)'
BY SaysError DEF StreamOK

(* A task that goes on without a word.                                     *)
LEMMA NothingSaid ==
  ASSUME TypeOK, NEW t \in Tasks, StreamOK(t), sent'[t] = sent[t], out'[t] = out[t],
         connected'[t] = connected[t],
         \/ phase[t] \in {"none", "spawned"} /\ phase'[t] \in {"spawned", "probing"}
         \/ /\ phase[t] \in {"waiting", "subscribing", "opening", "forwarding"}
            /\ phase'[t] \in {"opening", "forwarding", phase[t]}
            /\ phase[t] = "waiting" => phase'[t] = "waiting"
  PROVE  StreamOK(t)'
<1>1. Stream(t)' = Stream(t)
  BY DEF Stream
<1> QED BY <1>1 DEF StreamOK

(* An item that moves from one sequence's front to another's back.         *)
LEMMA MovesOne ==
  ASSUME NEW s \in Seq(Kinds), NEW o \in Seq(Kinds), o # <<>>
  PROVE  Append(s, Head(o)) \o Tail(o) = s \o o
<1>1. /\ Len(o) \in Nat \ {0} /\ Head(o) \in Kinds /\ Tail(o) \in Seq(Kinds)
      /\ Tail(o) = SubSeq(o, 2, Len(o)) /\ SubSeq(o, 1, Len(o)) = o
  BY EmptySeq, HeadTailProperties, TailIsSubSeq, SubSeqFull
<1>2. Head(o) = o[1]
  OBVIOUS
<1>3. 1 \in 1 .. Len(o) /\ Len(o) \in 1 .. Len(o) /\ 1 + 1 = 2
  BY <1>1
<1>4. o = <<o[1]>> \o SubSeq(o, 2, Len(o))
  BY <1>1, <1>3, SubSeqRecursiveFirst
<1> DEFINE x == Head(o)  r == Tail(o)
<1>5. x \in Kinds /\ r \in Seq(Kinds) /\ o = <<x>> \o r
  BY <1>1, <1>2, <1>4
<1> HIDE DEF x, r
<1>6. <<x>> \in Seq(Kinds)
  BY <1>5
<1>7. (s \o <<x>>) \o r = s \o (<<x>> \o r)
  BY <1>5, <1>6, ConcatAssociative
<1>8. Append(s, x) = s \o <<x>>
  BY <1>5, AppendIsConcat
<1>9. Append(s, x) \o r = s \o o
  BY <1>5, <1>7, <1>8
<1> QED BY <1>9 DEF x, r

(* Every step of a task keeps its stream in order.                         *)
LEMMA StreamStep ==
  ASSUME TypeOK, NEW t \in Tasks, StreamOK(t), TaskStep(t)
  PROVE  StreamOK(t)'
<1>0. /\ phase \in [Tasks -> Phases] /\ connected \in [Tasks -> BOOLEAN]
      /\ out \in [Tasks -> Seq(Kinds)] /\ sent \in [Tasks -> Seq(Kinds)]
      /\ \A r \in Kinds : r \in Kinds
  BY DEF TypeOK
<1>1. CASE Send(t)
  <2>1. /\ out[t] # <<>> /\ sent'[t] = Append(sent[t], Head(out[t])) /\ out'[t] = Tail(out[t])
        /\ phase' = phase /\ connected' = connected
    BY <1>0, <1>1 DEF Send
  <2>2. out[t] \in Seq(Kinds) /\ sent[t] \in Seq(Kinds)
    BY <1>0
  <2>3. Stream(t)' = Stream(t)
    BY <2>1, <2>2, MovesOne DEF Stream
  <2> QED BY <2>1, <2>3 DEF StreamOK
<1>2. CASE SendFails(t)
  <2>1. out[t] # <<>> /\ sent'[t] = sent[t] /\ out'[t] = <<>> /\ phase'[t] = "over"
    BY <1>0, <1>2 DEF SendFails, Sends, Goes
  <2>2. sent[t] \in Seq(Kinds) /\ out[t] \in Seq(Kinds) /\ Stream(t)' = sent[t]
    BY <1>0, <2>1, ConcatEmptySeq DEF Stream
  <2>3. Ordered(sent[t])
    BY <2>2, OrderedPrefix DEF StreamOK, Stream
  <2>4. ~Ends(sent[t])
    <3>1. /\ Len(Stream(t)) = Len(sent[t]) + Len(out[t]) /\ DOMAIN sent[t] = 1 .. Len(sent[t])
          /\ Len(sent[t]) \in Nat /\ Len(out[t]) \in Nat \ {0}
          /\ DOMAIN Stream(t) = 1 .. Len(sent[t]) + Len(out[t])
      BY <2>1, <2>2, ConcatProperties, LenProperties, EmptySeq DEF Stream
    <3>2. \A i \in 1 .. Len(sent[t]) + Len(out[t]) :
            Stream(t)[i] = IF i <= Len(sent[t]) THEN sent[t][i] ELSE out[t][i - Len(sent[t])]
      BY <2>2, ConcatProperties DEF Stream
    <3>3. ASSUME NEW i \in DOMAIN sent[t]
          PROVE  i \in DOMAIN Stream(t) /\ Stream(t)[i] = sent[t][i] /\ i # Len(Stream(t))
      <4> DEFINE n == Len(sent[t])  m == Len(out[t])
      <4>1. n \in Nat /\ m \in Nat \ {0} /\ i \in 1 .. n
        BY <3>1
      <4>2. n + m = Len(Stream(t)) /\ DOMAIN Stream(t) = 1 .. n + m
        BY <3>1
      <4>3. \A k \in 1 .. n + m : Stream(t)[k] = IF k <= n THEN sent[t][k] ELSE out[t][k - n]
        BY <3>2
      <4> HIDE DEF n, m
      <4>4. i \in 1 .. n + m /\ i <= n /\ i # n + m
        BY <4>1
      <4> QED BY <4>2, <4>3, <4>4
    <3>4. EndsLast(Stream(t))
      BY DEF StreamOK
    <3> QED BY <3>3, <3>4 DEF Ends, EndsLast
  <2> QED BY <2>1, <2>2, <2>3, <2>4 DEF StreamOK, Ends, EndsLast
<1>3. CASE Listen(t) \/ NoValues(t) \/ TakeCommand(t)
  <2>1. sent'[t] = sent[t] /\ out'[t] = out[t] /\ connected'[t] = connected[t]
    BY <1>3 DEF Listen, NoValues, TakeCommand, hubVars
  <2>2. \/ phase[t] = "spawned" /\ phase'[t] = "probing"
        \/ phase[t] = "subscribing" /\ phase'[t] = "forwarding"
        \/ phase[t] \in {"waiting", "forwarding"} /\ phase'[t] = phase[t]
    BY <1>0, <1>3 DEF Listen, NoValues, TakeCommand, At, Goes, Steered
  <2> QED BY <2>1, <2>2, NothingSaid
<1>4. CASE Probe(t)
  <2>1. /\ phase[t] = "probing" /\ out[t] = <<>> /\ sent'[t] = sent[t] /\ phase'[t] = "waiting"
        /\ connected'[t] = (chan[t] = "up")
        /\ out'[t] = IF chan[t] = "up" THEN <<"connected">> ELSE <<>>
    BY <1>0, <1>4 DEF Probe, At, Sends, Goes, hubVars
  <2>2. ~connected[t] /\ (ToldUp(Stream(t), Len(Stream(t))) <=> connected[t])
    BY <2>1 DEF StreamOK
  <2>3. CASE chan[t] = "up"
    <3>1. Saying(t, <<"connected">>) /\ "connected" \in Kinds
      BY <2>1, <2>3, KindSeqs DEF Saying
    <3>2. /\ Ordered(Stream(t)') /\ EndsLast(Stream(t)') /\ ~Ends(Stream(t)')
          /\ ToldUp(Stream(t)', Len(Stream(t)'))
      BY <2>2, <3>1, SaysItem
    <3> QED BY <2>1, <2>3, <3>2 DEF StreamOK
  <2>4. CASE chan[t] # "up"
    <3>1. Stream(t)' = Stream(t)
      BY <2>1, <2>4, SaysNothing DEF Saying
    <3> QED BY <2>1, <2>2, <2>4, <3>1 DEF StreamOK
  <2> QED BY <2>3, <2>4
<1>5. CASE TakeEvent(t)
  <2>1. /\ phase[t] \in {"waiting", "forwarding"} /\ out[t] = <<>> /\ sent' = sent /\ phase' = phase
        /\ \/ Sends(t, <<"access">>) /\ UNCHANGED connected
           \/ Forward(t, Head(events[t]) # "disconnected")
    BY <1>5 DEF TakeEvent, At, hubVars
  <2>2. CASE Sends(t, <<"access">>) /\ UNCHANGED connected
    <3>1. Saying(t, <<"access">>) /\ "access" \in Kinds
      BY <1>0, <2>1, <2>2, KindSeqs DEF Saying, Sends
    <3> QED BY <2>1, <2>2, <3>1, OtherSays
  <2>3. CASE Forward(t, Head(events[t]) # "disconnected")
    BY <2>1, <2>3, ForwardSays
  <2> QED BY <2>1, <2>2, <2>3
<1>6. CASE TakeLagged(t)
  <2>1. /\ phase[t] \in {"waiting", "forwarding"} /\ out[t] = <<>> /\ sent' = sent /\ phase' = phase
        /\ Forward(t, chan[t] = "up")
    BY <1>6 DEF TakeLagged, Resync, At, hubVars
  <2> QED BY <2>1, ForwardSays
<1>7. CASE Connect(t)
  <2>1. /\ phase[t] = "waiting" /\ out[t] = <<>> /\ sent' = sent /\ phase'[t] = "subscribing"
        /\ Forward(t, TRUE)
    BY <1>0, <1>7 DEF Connect, At, Goes, hubVars
  <2> QED BY <2>1, ForwardSays
<1>8. CASE TakeClosed(t) \/ HandleEnds(t) \/ TakeClose(t)
  <2>1. /\ phase[t] \in {"waiting", "forwarding"} /\ Saying(t, <<"end">>)
        /\ connected' = connected /\ phase'[t] = "over"
    BY <1>0, <1>8 DEF TakeClosed, HandleEnds, TakeClose, Steered, At, Sends, Goes, hubVars, Saying
  <2> QED BY <2>1, OtherSays, KindSeqs
<1>9. CASE Timeout(t) \/ TakeValue(t) \/ TakeError(t)
  <2>1. \E x \in {"timeout", "value", "error"} :
          /\ phase[t] \in {"waiting", "forwarding"} /\ Saying(t, <<x>>)
          /\ x = "value" => phase[t] = "forwarding"
          /\ connected' = connected /\ phase' = phase
    BY <1>0, <1>9 DEF Timeout, TakeValue, TakeError, At, Sends, hubVars, Saying
  <2> QED BY <2>1, OtherSays, KindSeqs
<1>10. CASE ConnectFails(t)
  <2>1. Saying(t, <<"error", "end">>) /\ phase'[t] = "over"
    BY <1>0, <1>10 DEF ConnectFails, At, Sends, Goes, hubVars, Saying
  <2> QED BY <2>1, ErrorSays
<1>11. CASE SubscribeCall(t)
  <2>1. CASE t \in Sized /\ chan[t] # "up"
    <3>1. Saying(t, <<"error", "end">>) /\ phase'[t] = "over"
      BY <1>0, <1>11, <2>1 DEF SubscribeCall, At, Sends, Goes, hubVars, Saying
    <3> QED BY <3>1, ErrorSays
  <2>2. CASE ~(t \in Sized /\ chan[t] # "up")
    <3>1. /\ phase[t] = "subscribing" /\ phase'[t] = "opening"
          /\ UNCHANGED <<sent, out, connected>>
      BY <1>0, <1>11, <2>2 DEF SubscribeCall, At, Goes, hubVars
    <3> QED BY <3>1, NothingSaid
  <2> QED BY <2>1, <2>2
<1>12. CASE SubscribeReturns(t)
  <2>1. CASE chan[t] = "gone"
    <3>1. Saying(t, <<"error", "end">>) /\ phase'[t] = "over"
      BY <1>0, <1>12, <2>1 DEF SubscribeReturns, At, Sends, Goes, hubVars, Saying
    <3> QED BY <3>1, ErrorSays
  <2>2. CASE chan[t] # "gone"
    <3>1. /\ phase[t] = "opening" /\ phase'[t] = "forwarding"
          /\ UNCHANGED <<sent, out, connected>>
      BY <1>0, <1>12, <2>2 DEF SubscribeReturns, At, Goes, hubVars
    <3> QED BY <3>1, NothingSaid
  <2> QED BY <2>1, <2>2
<1> QED BY <1>1, <1>2, <1>3, <1>4, <1>5, <1>6, <1>7, <1>8, <1>9, <1>10, <1>11, <1>12 DEF TaskStep

-----------------------------------------------------------------------------
(* An event behind the others: the last to tell of the connection if it    *)
(* tells of it at all.                                                     *)
LEMMA ToldAppended ==
  ASSUME NEW S, NEW s \in Seq(S), NEW e \in S, NEW q \in S
  PROVE  LET w == Append(s, e) IN
         /\ e # q =>
              /\ ~Quiet(w, q)
              /\ \A i \in DOMAIN w : Tells(w, q, i) => w[i] = e
         /\ e = q =>
              /\ Quiet(w, q) => Quiet(s, q)
              /\ \A i \in DOMAIN w : Tells(w, q, i) => i \in DOMAIN s /\ Tells(s, q, i) /\ w[i] = s[i]
<1> DEFINE w == Append(s, e)  n == Len(s)
<1>1. /\ n \in Nat /\ DOMAIN s = 1 .. n /\ DOMAIN w = 1 .. n + 1
      /\ \A i \in 1 .. n : w[i] = s[i]
      /\ w[n + 1] = e
  BY AppendProperties, LenProperties
<1> HIDE DEF w, n
<1>2. /\ n + 1 \in 1 .. n + 1 /\ \A i \in 1 .. n : i \in 1 .. n + 1 /\ n + 1 > i
      /\ \A i \in 1 .. n + 1 : i \in 1 .. n \/ i = n + 1
  BY <1>1
<1>3. ASSUME e # q
      PROVE  /\ ~Quiet(w, q)
             /\ \A i \in DOMAIN w : Tells(w, q, i) => w[i] = e
  BY <1>1, <1>2, <1>3 DEF Quiet, Tells
<1>4. ASSUME e = q
      PROVE  /\ Quiet(w, q) => Quiet(s, q)
             /\ \A i \in DOMAIN w : Tells(w, q, i) => i \in DOMAIN s /\ Tells(s, q, i) /\ w[i] = s[i]
  BY <1>1, <1>2, <1>4 DEF Quiet, Tells
<1> QED BY <1>3, <1>4 DEF w

(* The oldest event is dropped or received.                                *)
LEMMA ToldTail ==
  ASSUME NEW S, NEW q \in S, NEW s \in Seq(S), s # <<>>
  PROVE  LET w == Tail(s) IN
         /\ \A i \in DOMAIN w : Tells(w, q, i) => i + 1 \in DOMAIN s /\ Tells(s, q, i + 1) /\ w[i] = s[i + 1]
         /\ Quiet(w, q) => Quiet(s, q) \/ (1 \in DOMAIN s /\ Tells(s, q, 1))
         /\ Quiet(w, q) /\ Head(s) = q => Quiet(s, q)
         /\ Quiet(w, q) /\ Head(s) # q => 1 \in DOMAIN s /\ Tells(s, q, 1) /\ s[1] = Head(s)
<1> DEFINE w == Tail(s)  n == Len(w)
<1>1. /\ n \in Nat /\ DOMAIN s = 1 .. n + 1 /\ DOMAIN w = 1 .. n
      /\ \A i \in 1 .. n : w[i] = s[i + 1]
      /\ Head(s) = s[1]
  <2>1. w \in Seq(S) /\ n = Len(s) - 1 /\ Len(s) \in Nat \ {0} /\ \A i \in 1 .. n : w[i] = s[i + 1]
    BY HeadTailProperties, EmptySeq
  <2>2. DOMAIN s = 1 .. Len(s) /\ DOMAIN w = 1 .. n
    BY <2>1, LenProperties
  <2>3. Head(s) = s[1]
    OBVIOUS
  <2> HIDE DEF w, n
  <2> QED BY <2>1, <2>2, <2>3
<1> HIDE DEF w, n
<1>2. 1 \in 1 .. n + 1 /\ \A j \in 1 .. n + 1 : j # 1 => j - 1 \in 1 .. n /\ (j - 1) + 1 = j
  BY <1>1
<1>3. \A j \in 1 .. n + 1 : j # 1 => w[j - 1] = s[j]
  BY <1>1, <1>2
<1>4. ASSUME NEW i \in 1 .. n, Tells(w, q, i)
      PROVE  i + 1 \in 1 .. n + 1 /\ Tells(s, q, i + 1) /\ w[i] = s[i + 1]
  <2>1. ASSUME NEW j \in 1 .. n + 1, j > i + 1 PROVE s[j] = q
    <3>1. j # 1 /\ j - 1 \in 1 .. n /\ j - 1 > i
      BY <1>1, <1>2, <2>1
    <3> QED BY <1>1, <1>3, <1>4, <3>1 DEF Tells
  <2> QED BY <1>1, <1>4, <2>1 DEF Tells
<1>5. Quiet(w, q) => \A j \in 1 .. n + 1 : j # 1 => s[j] = q
  BY <1>1, <1>2, <1>3 DEF Quiet
<1>6. Quiet(w, q) /\ s[1] = q => Quiet(s, q)
  BY <1>1, <1>5 DEF Quiet
<1>7. Quiet(w, q) /\ s[1] # q => Tells(s, q, 1)
  BY <1>1, <1>5 DEF Tells
<1> QED BY <1>1, <1>2, <1>4, <1>6, <1>7 DEF w

(* A broadcast to a listening task comes last, after at most one lost.     *)
LEMMA BroadcastSays ==
  ASSUME ChanTypes, NEW t \in Tasks, NEW e \in Events, Broadcast(t, e), Listening(t)
  PROVE  \/ events'[t] = Append(events[t], e) /\ lagged'[t] = lagged[t]
         \/ events[t] # <<>> /\ events'[t] = Append(Tail(events[t]), e) /\ lagged'[t]
<1>1. CASE Len(events[t]) < EventCap
  BY <1>1 DEF Broadcast, ChanTypes
<1>2. CASE ~(Len(events[t]) < EventCap)
  <2>1. events[t] # <<>>
    BY <1>2, TaskAssumption
  <2> QED BY <1>2, <2>1 DEF Broadcast, ChanTypes
<1> QED BY <1>1, <1>2

(* What is broadcast tells the state of the channel.                       *)
LEMMA NewsBroadcast ==
  ASSUME TypeOK, NEW t \in Tasks, NewsOK(t), NEW e \in Events, Broadcast(t, e),
         phase'[t] = phase[t], connected'[t] = connected[t],
         \/ e # "access" /\ (chan'[t] = "up" <=> e # "disconnected")
         \/ chan'[t] = chan[t]  /\ e = "access" /\ chan[t] # "gone"
  PROVE  NewsOK(t)'
<1>0. ChanTypes /\ TaskTypes
  BY TypeParts
<1>1. CASE ~Listening(t)
  <2>1. events'[t] = events[t] /\ lagged'[t] = lagged[t]
    BY <1>1 DEF Broadcast
  <2> QED BY <1>1, <2>1 DEF NewsOK, Listening
<1>2. CASE Listening(t)
  <2> DEFINE s == events[t]
  <2>1. s \in Seq(Events)
    BY <1>0 DEF ChanTypes
  <2>2. PICK r \in Seq(Events) :
          /\ events'[t] = Append(r, e)
          /\ \/ r = s /\ lagged'[t] = lagged[t]
             \/ s # <<>> /\ r = Tail(s) /\ lagged'[t]
    <3>1. s # <<>> => Tail(s) \in Seq(Events)
      BY <2>1, HeadTailProperties
    <3> QED BY <1>0, <1>2, <2>1, <3>1, BroadcastSays
  <2> DEFINE w == Append(r, e)
  <2>0. "access" \in Events
    BY DEF Events
  <2>3. phase'[t] \notin {"none", "spawned"}
    BY <1>2 DEF Listening
  <2>4. CASE e # "access"
    <3>1. ~Quiet(w, "access") /\ \A i \in DOMAIN w : Tells(w, "access", i) => w[i] = e
      BY <2>0, <2>4, ToldAppended
    <3> HIDE DEF w
    <3>2. events'[t] = w
      BY <2>2 DEF w
    <3> QED BY <2>3, <2>4, <3>1, <3>2 DEF NewsOK
  <2>5. CASE e = "access" /\ chan'[t] = chan[t] /\ chan[t] # "gone"
    <3>1. /\ Quiet(w, "access") => Quiet(r, "access")
          /\ \A i \in DOMAIN w : Tells(w, "access", i) => i \in DOMAIN r /\ Tells(r, "access", i) /\ w[i] = r[i]
      BY <2>0, <2>5, ToldAppended
    <3> HIDE DEF w
    <3>2. events'[t] = w
      BY <2>2 DEF w
    <3>3. \A i \in DOMAIN s : Tells(s, "access", i) => (s[i] # "disconnected" <=> chan[t] = "up")
      BY <1>2, <2>5 DEF NewsOK
    <3>4. ASSUME NEW i \in DOMAIN r, Tells(r, "access", i) PROVE r[i] # "disconnected" <=> chan[t] = "up"
      <4>1. CASE r = s
        BY <3>3, <3>4, <4>1
      <4>2. CASE s # <<>> /\ r = Tail(s)
        <5>1. i + 1 \in DOMAIN s /\ Tells(s, "access", i + 1) /\ r[i] = s[i + 1]
          BY <2>0, <2>1, <3>4, <4>2, ToldTail
        <5> QED BY <3>3, <5>1
      <4> QED BY <2>2, <4>1, <4>2
    <3>5. \A i \in DOMAIN w : Tells(w, "access", i) => (w[i] # "disconnected" <=> chan[t] = "up")
      BY <3>1, <3>4
    <3>6. ~LateAnswer /\ phase[t] \in {"waiting", "subscribing", "opening", "forwarding"}
            /\ ~lagged'[t] /\ Quiet(w, "access") => (connected[t] <=> chan[t] = "up")
      BY <2>2, <2>5, <3>1 DEF NewsOK
    <3> QED BY <2>3, <2>5, <3>2, <3>5, <3>6 DEF NewsOK
  <2> QED BY <2>4, <2>5
<1> QED BY <1>1, <1>2

(* So the last event not received tells the state of the channel ...       *)
LEMMA ChannelNews ==
  ASSUME TypeOK, NEW t \in Tasks, NewsOK(t), Channel(t) \/ WaitAnswers(t)
  PROVE  NewsOK(t)'
<1>0. ChanTypes /\ TaskTypes
  BY TypeParts
<1>1. CASE ChannelUp(t)
  <2>1. /\ Broadcast(t, "connected") /\ "connected" \in Events /\ chan'[t] = "up"
        /\ phase'[t] = phase[t] /\ connected'[t] = connected[t]
    BY <1>0, <1>1 DEF ChannelUp, Events, taskVars, ChanTypes
  <2> QED BY <2>1, NewsBroadcast
<1>2. CASE ChannelDown(t)
  <2>1. /\ Broadcast(t, "disconnected") /\ "disconnected" \in Events /\ chan'[t] = "down"
        /\ phase'[t] = phase[t] /\ connected'[t] = connected[t]
    BY <1>0, <1>2 DEF ChannelDown, Events, taskVars, ChanTypes
  <2> QED BY <2>1, NewsBroadcast
<1>3. ASSUME NEW e \in Notes, ChannelNotes(t, e) PROVE NewsOK(t)'
  <2>1. /\ Broadcast(t, e) /\ e \in {"access", "type"} /\ chan'[t] = chan[t] /\ chan[t] = "up"
        /\ phase'[t] = phase[t] /\ connected'[t] = connected[t]
    BY <1>3, TaskAssumption DEF ChannelNotes, taskVars
  <2>2. e \in Events
    BY <2>1 DEF Events
  <2> QED BY <2>1, <2>2, NewsBroadcast
<1>4. CASE ChannelGone(t)
  <2>1. chan'[t] = "gone" /\ UNCHANGED <<events, lagged, phase, connected>>
    BY <1>0, <1>4 DEF ChannelGone, taskVars, ChanTypes
  <2> QED BY <2>1 DEF NewsOK
<1>5. CASE Update(t) \/ WaitAnswers(t)
  <2>1. SameNews(t)
    BY <1>5 DEF Update, WaitAnswers, chanVars, taskVars, SameNews
  <2> QED BY <2>1, NewsSame
<1> QED BY <1>1, <1>2, <1>3, <1>4, <1>5 DEF Channel

(* ... and the task that received them all knows it.                       *)
LEMMA NewsStep ==
  ASSUME TypeOK, NEW t \in Tasks, StreamOK(t), NewsOK(t), TaskStep(t)
  PROVE  NewsOK(t)'
<1>0. ChanTypes /\ TaskTypes /\ ItemTypes
  BY TypeParts
<1>1. ASSUME phase'[t] = "over" PROVE NewsOK(t)'
  BY <1>1 DEF NewsOK, Listening
<1>2. ASSUME chan'[t] = chan[t], events'[t] = events[t], lagged'[t] = lagged[t],
             connected'[t] = connected[t],
             \/ phase'[t] = phase[t]
             \/ /\ phase[t] \in {"waiting", "subscribing", "opening", "forwarding"}
                /\ phase'[t] \in {"waiting", "subscribing", "opening", "forwarding"}
      PROVE  NewsOK(t)'
  BY <1>2 DEF NewsOK, Listening
<1>3. CASE Send(t) \/ Timeout(t) \/ TakeValue(t) \/ TakeError(t) \/ TakeCommand(t)
  BY <1>0, <1>2, <1>3 DEF Send, Timeout, TakeValue, TakeError, TakeCommand, chanVars, TaskTypes
<1>4. CASE SendFails(t) \/ TakeClosed(t) \/ ConnectFails(t) \/ HandleEnds(t) \/ TakeClose(t)
  BY <1>0, <1>1, <1>4 DEF SendFails, TakeClosed, ConnectFails, HandleEnds, TakeClose, Goes, TaskTypes
<1>5. CASE NoValues(t) \/ SubscribeCall(t) \/ SubscribeReturns(t)
  <2>1. /\ UNCHANGED <<chan, events, lagged, connected>>
        /\ phase[t] \in {"subscribing", "opening"}
        /\ phase'[t] \in {"opening", "forwarding", "over"}
    BY <1>0, <1>5 DEF NoValues, SubscribeCall, SubscribeReturns, At, Goes, chanVars, TaskTypes
  <2> QED BY <1>1, <1>2, <2>1
<1>6. CASE Listen(t)
  <2>1. /\ UNCHANGED <<chan, events, lagged, connected>> /\ phase[t] = "spawned" /\ phase'[t] = "probing"
    BY <1>0, <1>6 DEF Listen, At, Goes, chanVars, TaskTypes
  <2>2. events[t] = <<>>
    BY <2>1 DEF NewsOK
  <2> QED BY <2>1, <2>2 DEF NewsOK
<1>7. CASE Probe(t)
  <2>1. /\ UNCHANGED <<chan, events, lagged>> /\ phase[t] = "probing" /\ phase'[t] = "waiting"
        /\ connected'[t] = (chan[t] = "up")
    BY <1>0, <1>7 DEF Probe, At, Goes, chanVars, TaskTypes
  <2> QED BY <2>1 DEF NewsOK, Listening
<1>8. CASE TakeEvent(t)
  <2> DEFINE s == events[t]  w == Tail(s)
  <2>1. /\ chan' = chan /\ lagged' = lagged /\ phase' = phase /\ phase[t] \in {"waiting", "forwarding"}
        /\ s # <<>> /\ s \in Seq(Events) /\ events'[t] = w /\ ~lagged[t]
        /\ connected'[t] = IF Head(s) = "access" THEN connected[t] ELSE Head(s) # "disconnected"
    BY <1>0, <1>8 DEF TakeEvent, At, Forward, ChanTypes, TaskTypes
  <2>2. /\ \A i \in DOMAIN w : Tells(w, "access", i) => i + 1 \in DOMAIN s /\ Tells(s, "access", i + 1) /\ w[i] = s[i + 1]
        /\ Quiet(w, "access") /\ Head(s) = "access" => Quiet(s, "access")
        /\ Quiet(w, "access") /\ Head(s) # "access" => 1 \in DOMAIN s /\ Tells(s, "access", 1) /\ s[1] = Head(s)
    <3>1. "access" \in Events
      BY DEF Events
    <3> QED BY <2>1, <3>1, ToldTail
  <2> HIDE DEF w
  <2>3. CASE chan[t] = "gone"
    BY <2>1, <2>3 DEF NewsOK
  <2>4. CASE chan[t] # "gone"
    <3>1. \A i \in DOMAIN s : Tells(s, "access", i) => (s[i] # "disconnected" <=> chan[t] = "up")
      BY <2>1, <2>4 DEF NewsOK, Listening
    <3>2. \A i \in DOMAIN w : Tells(w, "access", i) => (w[i] # "disconnected" <=> chan[t] = "up")
      BY <2>2, <3>1
    <3>3. ~LateAnswer /\ Quiet(s, "access") => (connected[t] <=> chan[t] = "up")
      BY <2>1, <2>4 DEF NewsOK
    <3>4. ~LateAnswer /\ Quiet(w, "access") => (connected'[t] <=> chan[t] = "up")
      BY <2>1, <2>2, <3>1, <3>3
    <3> QED BY <2>1, <3>2, <3>4 DEF NewsOK
  <2> QED BY <2>3, <2>4
<1>9. CASE TakeLagged(t)
  <2>1. /\ UNCHANGED <<chan, events, phase>> /\ phase[t] \in {"waiting", "forwarding"}
        /\ connected'[t] = (chan[t] = "up")
    BY <1>0, <1>9 DEF TakeLagged, At, Resync, Forward, TaskTypes
  <2> QED BY <2>1 DEF NewsOK, Listening
<1>10. CASE Connect(t)
  <2>1. /\ UNCHANGED <<chan, events, lagged>> /\ phase[t] = "waiting" /\ phase'[t] = "subscribing"
        /\ connected'[t] = TRUE /\ (LateAnswer \/ chan[t] = "up")
    BY <1>0, <1>10 DEF Connect, At, Goes, Forward, chanVars, TaskTypes
  <2> QED BY <2>1 DEF NewsOK, Listening
<1> QED BY <1>3, <1>4, <1>5, <1>6, <1>7, <1>8, <1>9, <1>10 DEF TaskStep

-----------------------------------------------------------------------------
(* A task that is over is not steered.                                     *)
LEMMA SteerOver ==
  ASSUME NEW t \in Tasks, phase'[t] = "over"
  PROVE  SteerOK(t)'
BY DEF SteerOK

(* A pause or resume is put behind the commands not received.              *)
LEMMA SteerCommand ==
  ASSUME TypeOK, NEW t \in Tasks, SteerOK(t), NEW c \in {"pause", "resume"},
         ctrl'[t] = Append(ctrl[t], c), steered'[t] = Append(steered[t], c),
         phase'[t] = phase[t], handle'[t] = handle[t], paused'[t] = paused[t]
  PROVE  SteerOK(t)'
<1>1. ctrl[t] \in Seq(Commands) /\ c \in Commands /\ "close" \in Commands /\ c # "close"
  BY DEF TypeOK, Commands
<1>2. Asked(t)' <=> c = "pause"
  <2>1. steered[t] \in Seq({"pause", "resume"})
    BY DEF TypeOK
  <2> DEFINE w == Append(steered[t], c)
  <2>2. w # <<>> /\ w[Len(w)] = c
    BY <2>1, AppendProperties
  <2> HIDE DEF w
  <2>3. steered'[t] = w
    BY DEF w
  <2> QED BY <2>2, <2>3 DEF Asked
<1> DEFINE w == Append(ctrl[t], c)
<1>3. ~Quiet(w, "close") /\ \A i \in DOMAIN w : Tells(w, "close", i) => w[i] = c
  BY <1>1, ToldAppended
<1> HIDE DEF w
<1>4. ctrl'[t] = w
  BY DEF w
<1> QED BY <1>2, <1>3, <1>4 DEF SteerOK

(* A close tells nothing of pausing.                                       *)
LEMMA SteerClose ==
  ASSUME TypeOK, NEW t \in Tasks, SteerOK(t), ctrl'[t] = Append(ctrl[t], "close"),
         steered'[t] = steered[t], phase'[t] = phase[t], handle'[t] = handle[t], paused'[t] = paused[t]
  PROVE  SteerOK(t)'
<1>1. ctrl[t] \in Seq(Commands) /\ "close" \in Commands
  BY DEF TypeOK, Commands
<1>2. Asked(t)' <=> Asked(t)
  BY DEF Asked
<1> DEFINE w == Append(ctrl[t], "close")
<1>3. /\ Quiet(w, "close") => Quiet(ctrl[t], "close")
      /\ \A i \in DOMAIN w : Tells(w, "close", i) =>
           i \in DOMAIN ctrl[t] /\ Tells(ctrl[t], "close", i) /\ w[i] = ctrl[t][i]
  BY <1>1, ToldAppended
<1> HIDE DEF w
<1>4. ctrl'[t] = w
  BY DEF w
<1> QED BY <1>2, <1>3, <1>4 DEF SteerOK

(* A command that is received takes effect where the task is.              *)
LEMMA SteerTaken ==
  ASSUME TypeOK, NEW t \in Tasks, SteerOK(t), TakeCommand(t)
  PROVE  SteerOK(t)'
<1>0. TaskTypes /\ HubTypes
  BY TypeParts
<1> DEFINE s == ctrl[t]  w == Tail(s)
<1>1. /\ phase' = phase /\ steered' = steered /\ phase[t] \in {"waiting", "forwarding"}
      /\ s \in Seq(Commands) /\ s # <<>> /\ Head(s) # "close" /\ ctrl'[t] = w
      /\ phase[t] = "waiting" => paused'[t] = (Head(s) = "pause") /\ handle'[t] = handle[t]
      /\ phase[t] = "forwarding" =>
           /\ handle[t] = "none" => handle'[t] = "none"
           /\ handle[t] # "none" => handle'[t] = IF Head(s) = "pause" THEN "paused" ELSE "running"
  <2>1. /\ phase' = phase /\ steered' = steered /\ phase[t] \in {"waiting", "forwarding"}
        /\ s # <<>> /\ Head(s) # "close"
    BY DEF TakeCommand, Steered, At, hubVars
  <2>2. s \in Seq(Commands) /\ ctrl'[t] = w
    BY <1>0 DEF TakeCommand, HubTypes
  <2>3. phase[t] = "waiting" => paused'[t] = (Head(s) = "pause") /\ handle'[t] = handle[t]
    BY <1>0 DEF TakeCommand, TaskTypes
  <2>4. phase[t] = "forwarding" =>
           /\ handle[t] = "none" => handle'[t] = "none"
           /\ handle[t] # "none" => handle'[t] = IF Head(s) = "pause" THEN "paused" ELSE "running"
    BY <1>0 DEF TakeCommand, TaskTypes
  <2> QED BY <2>1, <2>2, <2>3, <2>4
<1>2. "close" \in Commands
  BY DEF Commands
<1>3. /\ \A i \in DOMAIN w : Tells(w, "close", i) =>
           i + 1 \in DOMAIN s /\ Tells(s, "close", i + 1) /\ w[i] = s[i + 1]
      /\ Quiet(w, "close") => 1 \in DOMAIN s /\ Tells(s, "close", 1) /\ s[1] = Head(s)
  BY <1>1, <1>2, ToldTail
<1>4. Asked(t)' <=> Asked(t)
  BY <1>1 DEF Asked
<1> HIDE DEF w
<1>5. phase[t] = "waiting" => handle[t] = "none"
  BY DEF SteerOK
<1>6. CASE phase[t] = "forwarding" /\ handle[t] = "none"
  BY <1>1, <1>6 DEF SteerOK
<1>7. CASE phase[t] = "waiting" \/ handle[t] # "none"
  <2>1. \A i \in DOMAIN s : Tells(s, "close", i) => (s[i] = "pause" <=> Asked(t))
    BY <1>1, <1>7 DEF SteerOK
  <2>2. \A i \in DOMAIN w : Tells(w, "close", i) => (w[i] = "pause" <=> Asked(t))
    BY <1>3, <2>1
  <2>3. Quiet(w, "close") => (Asked(t) <=> Head(s) = "pause")
    BY <1>3, <2>1
  <2> QED BY <1>1, <1>4, <1>5, <1>7, <2>2, <2>3 DEF SteerOK
<1> QED BY <1>1, <1>6, <1>7

(* No step of a task loses a pause or a resume ...                         *)
LEMMA SteerStep ==
  ASSUME TypeOK, NEW t \in Tasks, SteerOK(t), TaskStep(t)
  PROVE  SteerOK(t)'
<1>0. TaskTypes /\ HubTypes
  BY TypeParts
<1>1. ASSUME handle'[t] = handle[t], paused'[t] = paused[t], ctrl'[t] = ctrl[t], steered'[t] = steered[t],
             phase[t] \notin {"forwarding", "over"}, phase'[t] \notin {"forwarding", "over"}
      PROVE  SteerOK(t)'
  BY <1>1 DEF SteerOK, Asked
<1>2. CASE Send(t) \/ Timeout(t) \/ TakeValue(t) \/ TakeError(t) \/ TakeEvent(t) \/ TakeLagged(t)
  <2>1. SameSteer(t)
    BY <1>2 DEF Send, Timeout, TakeValue, TakeError, TakeEvent, TakeLagged, hubVars, SameSteer
  <2> QED BY <2>1, SteerSame
<1>3. CASE SendFails(t) \/ TakeClosed(t) \/ ConnectFails(t) \/ HandleEnds(t) \/ TakeClose(t)
  BY <1>0, <1>3, SteerOver DEF SendFails, TakeClosed, ConnectFails, HandleEnds, TakeClose, Goes, TaskTypes
<1>4. CASE Listen(t) \/ Probe(t) \/ Connect(t)
  <2>1. /\ UNCHANGED <<handle, paused, ctrl, steered>>
        /\ phase[t] \in {"spawned", "probing", "waiting"} /\ phase'[t] \in {"probing", "waiting", "subscribing"}
    BY <1>0, <1>4 DEF Listen, Probe, Connect, At, Goes, hubVars, TaskTypes
  <2> QED BY <1>1, <2>1
<1>5. CASE SubscribeCall(t)
  <2>1. /\ UNCHANGED <<handle, paused, ctrl, steered>>
        /\ phase[t] = "subscribing" /\ phase'[t] \in {"opening", "over"}
    BY <1>0, <1>5 DEF SubscribeCall, At, Goes, hubVars, TaskTypes
  <2> QED BY <1>1, <2>1, SteerOver
<1>6. CASE NoValues(t)
  <2>1. handle' = handle /\ phase[t] = "subscribing" /\ phase'[t] = "forwarding"
    BY <1>0, <1>6 DEF NoValues, At, Goes, TaskTypes
  <2> QED BY <2>1 DEF SteerOK
<1>7. CASE SubscribeReturns(t)
  <2>1. CASE chan[t] = "gone"
    BY <1>0, <1>7, <2>1, SteerOver DEF SubscribeReturns, Goes, TaskTypes
  <2>2. CASE chan[t] # "gone"
    <3>1. /\ UNCHANGED <<paused, ctrl, steered>> /\ phase[t] = "opening" /\ phase'[t] = "forwarding"
          /\ handle'[t] = IF paused[t] THEN "paused" ELSE "running"
      BY <1>0, <1>7, <2>2 DEF SubscribeReturns, At, Goes, NewHandle, hubVars, TaskTypes
    <3> QED BY <3>1 DEF SteerOK, Asked
  <2> QED BY <2>1, <2>2
<1>8. CASE TakeCommand(t)
  BY <1>8, SteerTaken
<1> QED BY <1>2, <1>3, <1>4, <1>5, <1>6, <1>7, <1>8 DEF TaskStep

(* ... and no method of the hub.                                           *)
LEMMA HubSteer ==
  ASSUME TypeOK, NEW t \in Tasks, SteerOK(t), (\E u \in Tasks : Hub(u)) \/ ClearSubs
  PROVE  SteerOK(t)'
<1>0. TaskTypes /\ HubTypes
  BY TypeParts
<1>1. ASSUME NEW u \in Tasks, Subscribe(u) PROVE SteerOK(t)'
  <2>1. UNCHANGED <<handle, paused, ctrl, steered>>
    BY <1>1 DEF Subscribe
  <2>2. phase'[t] = phase[t] \/ (phase[t] = "none" /\ phase'[t] = "spawned")
    BY <1>0, <1>1 DEF Subscribe, TaskTypes
  <2> QED BY <2>1, <2>2 DEF SteerOK, Asked
<1>2. ASSUME NEW u \in Tasks, NEW c \in {"pause", "resume"}, Steer(u, c) PROVE SteerOK(t)'
  <2>1. UNCHANGED <<phase, handle, paused>>
    BY <1>2 DEF Steer, taskVars
  <2>2. CASE u = t
    <3>1. ctrl'[t] = Append(ctrl[t], c) /\ steered'[t] = Append(steered[t], c)
      BY <1>0, <1>2, <2>2 DEF Steer, HubTypes
    <3> QED BY <2>1, <3>1, SteerCommand
  <2>3. CASE u # t
    <3>1. SameSteer(t)
      BY <1>0, <1>2, <2>1, <2>3 DEF Steer, HubTypes, SameSteer
    <3> QED BY <3>1, SteerSame
  <2> QED BY <2>2, <2>3
<1>3. ASSUME NEW u \in Tasks, CloseSubscription(u) PROVE SteerOK(t)'
  <2>1. UNCHANGED <<phase, handle, paused, steered>>
    BY <1>3 DEF CloseSubscription, taskVars
  <2>2. ctrl'[t] = ctrl[t] \/ ctrl'[t] = Append(ctrl[t], "close")
    BY <1>0, <1>3 DEF CloseSubscription, HubTypes
  <2> QED BY <2>1, <2>2, SteerClose, SteerSame DEF SameSteer
<1>4. CASE ClearSubs
  <2>1. UNCHANGED <<phase, handle, paused, steered>>
    BY <1>4 DEF ClearSubs, taskVars
  <2>2. ctrl'[t] = ctrl[t] \/ ctrl'[t] = Append(ctrl[t], "close")
    BY <1>4 DEF ClearSubs
  <2> QED BY <2>1, <2>2, SteerClose, SteerSame DEF SameSteer
<1> QED BY <1>1, <1>2, <1>3, <1>4 DEF Hub

-----------------------------------------------------------------------------
(* The invariant holds at first, ...                                       *)
LEMMA InvInit == Init => IInv
<1> SUFFICES ASSUME Init PROVE IInv
  OBVIOUS
<1>1. TypeOK
  BY TypeInit
<1>2. ASSUME NEW t \in Tasks PROVE StreamOK(t) /\ NewsOK(t) /\ SteerOK(t)
  <2>1. /\ sent[t] = <<>> /\ out[t] = <<>> /\ phase[t] = "none" /\ ~connected[t] /\ handle[t] = "none"
        /\ events[t] = <<>> /\ ~lagged[t] /\ ctrl[t] = <<>> /\ steered[t] = <<>> /\ ~paused[t]
    BY DEF Init
  <2>2. Stream(t) = <<>> /\ Len(Stream(t)) = 0 /\ DOMAIN Stream(t) = {}
    BY <2>1, StreamTypes, <1>1 DEF Stream
  <2>3. ~ToldUp(Stream(t), Len(Stream(t)))
    BY <2>2 DEF ToldUp
  <2>4. StreamOK(t)
    BY <2>1, <2>2, <2>3 DEF StreamOK, Ordered, EndsLast, Ends
  <2>5. NewsOK(t)
    BY <2>1 DEF NewsOK, Listening
  <2>6. SteerOK(t)
    BY <2>1 DEF SteerOK, Asked
  <2> QED BY <2>4, <2>5, <2>6
<1> QED BY <1>1, <1>2 DEF IInv

(* ... every step keeps it, ...                                            *)
LEMMA InvStep == IInv /\ [Next]_vars => IInv'
<1> SUFFICES ASSUME IInv, [Next]_vars PROVE IInv'
  OBVIOUS
<1>0. TypeOK /\ \A t \in Tasks : StreamOK(t) /\ NewsOK(t) /\ SteerOK(t)
  BY DEF IInv
<1>00. ChanTypes /\ TaskTypes /\ HubTypes /\ ItemTypes
  BY <1>0, TypeParts
<1>1. ASSUME NEW t \in Tasks, TaskStep(t) PROVE IInv'
  <2>1. TypeOK'
    BY <1>0, <1>1, TypeStep DEF Next
  <2>2. ASSUME NEW u \in Tasks PROVE (StreamOK(u) /\ NewsOK(u) /\ SteerOK(u))'
    <3>1. CASE u = t
      BY <1>0, <1>1, <3>1, StreamStep, NewsStep, SteerStep
    <3>2. CASE u # t
      BY <1>0, <1>1, <3>2, Apart, StreamSame, NewsSame, SteerSame
    <3> QED BY <3>1, <3>2
  <2> QED BY <2>1, <2>2 DEF IInv
<1>2. ASSUME NEW t \in Tasks, Channel(t) \/ WaitAnswers(t) PROVE IInv'
  <2>1. TypeOK'
    BY <1>0, <1>2, TypeStep DEF Next
  <2>2. ASSUME NEW u \in Tasks PROVE (StreamOK(u) /\ NewsOK(u) /\ SteerOK(u))'
    <3>1. SameStream(u) /\ SameSteer(u)
      BY <1>2 DEF Channel, ChannelUp, ChannelDown, ChannelGone, ChannelNotes, Update, WaitAnswers,
         taskVars, hubVars, SameStream, SameSteer
    <3>2. NewsOK(u)'
      <4>1. CASE u = t
        BY <1>0, <1>2, <4>1, ChannelNews
      <4>2. CASE u # t
        <5>1. /\ chan'[u] = chan[u] /\ phase' = phase /\ connected' = connected
          BY <1>00, <1>2, <4>2 DEF Channel, ChannelUp, ChannelDown, ChannelGone, ChannelNotes, Update,
             WaitAnswers, chanVars, taskVars, ChanTypes
        <5>2. events'[u] = events[u] /\ lagged'[u] = lagged[u]
          BY <1>00, <1>2, <4>2 DEF Channel, ChannelUp, ChannelDown, ChannelGone, ChannelNotes, Update,
             WaitAnswers, Broadcast, chanVars, ChanTypes
        <5> QED BY <1>0, <5>1, <5>2, NewsSame DEF SameNews
      <4> QED BY <4>1, <4>2
    <3> QED BY <1>0, <3>1, <3>2, StreamSame, SteerSame
  <2> QED BY <2>1, <2>2 DEF IInv
<1>3. CASE (\E t \in Tasks : Hub(t)) \/ ClearSubs
  <2>1. TypeOK'
    BY <1>0, <1>3, TypeStep DEF Next
  <2>2. ASSUME NEW u \in Tasks PROVE (StreamOK(u) /\ NewsOK(u) /\ SteerOK(u))'
    <3>1. SteerOK(u)'
      BY <1>0, <1>3, HubSteer
    <3>2. \/ SameStream(u) /\ SameNews(u)
          \/ /\ phase[u] = "none" /\ phase'[u] = "spawned"
             /\ UNCHANGED <<sent, out, connected, chan, events, lagged>>
      BY <1>00, <1>3 DEF Hub, Subscribe, Steer, CloseSubscription, ClearSubs, chanVars, taskVars,
         TaskTypes, SameStream, SameNews
    <3>3. CASE SameStream(u) /\ SameNews(u)
      BY <1>0, <3>1, <3>3, StreamSame, NewsSame
    <3>4. CASE /\ phase[u] = "none" /\ phase'[u] = "spawned"
               /\ UNCHANGED <<sent, out, connected, chan, events, lagged>>
      <4>1. StreamOK(u)'
        BY <1>0, <3>4, NothingSaid
      <4>2. NewsOK(u)'
        BY <1>0, <3>4 DEF NewsOK, Listening
      <4> QED BY <3>1, <4>1, <4>2
    <3> QED BY <3>2, <3>3, <3>4
  <2> QED BY <2>1, <2>2 DEF IInv
<1>4. CASE CloseDrain \/ RecvBatch
  <2>1. TypeOK'
    BY <1>0, <1>4, TypeStep DEF Next
  <2>2. ASSUME NEW u \in Tasks PROVE (StreamOK(u) /\ NewsOK(u) /\ SteerOK(u))'
    <3>1. SameStream(u) /\ SameNews(u) /\ SameSteer(u)
      BY <1>4 DEF CloseDrain, RecvBatch, chanVars, taskVars, SameStream, SameNews, SameSteer
    <3> QED BY <1>0, <3>1, StreamSame, NewsSame, SteerSame
  <2> QED BY <2>1, <2>2 DEF IInv
<1>5. CASE UNCHANGED vars
  <2>1. TypeOK'
    BY <1>0, <1>5, TypeStep
  <2>2. ASSUME NEW u \in Tasks PROVE (StreamOK(u) /\ NewsOK(u) /\ SteerOK(u))'
    <3>1. SameStream(u) /\ SameNews(u) /\ SameSteer(u)
      BY <1>5 DEF vars, hubVars, chanVars, taskVars, SameStream, SameNews, SameSteer
    <3> QED BY <1>0, <3>1, StreamSame, NewsSame, SteerSame
  <2> QED BY <2>1, <2>2 DEF IInv
<1> QED BY <1>1, <1>2, <1>3, <1>4, <1>5 DEF Next

(* ... and it holds of every behaviour.                                    *)
LEMMA InvHolds == Spec => []IInv
<1> QED BY InvInit, InvStep, PTL DEF Spec

(* What Python relies on in the items of run_subscription (hub.rs): the    *)
(* connection items alternate, a value or a disconnection comes after a    *)
(* Connected, and the End is the last item of a task that is over.         *)
THEOREM ItemsInOrder == Spec => []ItemOrder
<1>1. IInv => ItemOrder
  <2> SUFFICES ASSUME IInv PROVE ItemOrder
    OBVIOUS
  <2>0. TypeOK /\ \A t \in Tasks : StreamOK(t)
    BY DEF IInv
  <2>1. ASSUME NEW t \in Tasks, NEW i \in DOMAIN sent[t]
        PROVE  /\ sent[t][i] = "connected" => ~ToldUp(sent[t], i - 1)
               /\ sent[t][i] = "disconnected" => ToldUp(sent[t], i - 1)
               /\ sent[t][i] = "value" => \E j \in 1..(i - 1) : sent[t][j] = "connected"
               /\ sent[t][i] = "end" => i = Len(sent[t]) /\ phase[t] = "over" /\ out[t] = <<>>
    <3>1. sent[t] \in Seq(Kinds) /\ out[t] \in Seq(Kinds)
      BY <2>0 DEF TypeOK
    <3>2. Ordered(sent[t])
      BY <2>0, <3>1, OrderedPrefix DEF StreamOK, Stream
    <3>3. ASSUME sent[t][i] = "end" PROVE i = Len(sent[t]) /\ phase[t] = "over" /\ out[t] = <<>>
      <4> DEFINE n == Len(sent[t])  m == Len(out[t])
      <4>1. /\ n \in Nat /\ m \in Nat /\ i \in 1 .. n /\ (out[t] # <<>> => m # 0)
            /\ Len(Stream(t)) = n + m /\ Stream(t) \in Seq(Kinds)
        BY <3>1, LenProperties, EmptySeq, ConcatProperties DEF Stream
      <4>2. \A k \in 1 .. n + m : Stream(t)[k] = IF k <= n THEN sent[t][k] ELSE out[t][k - n]
        BY <3>1, ConcatProperties DEF Stream
      <4>3. DOMAIN Stream(t) = 1 .. n + m
        BY <4>1, LenProperties
      <4> HIDE DEF n, m
      <4>4. i \in 1 .. n + m /\ i <= n
        BY <4>1
      <4>5. Stream(t)[i] = "end"
        BY <3>3, <4>2, <4>4
      <4>6. i = n + m /\ phase[t] = "over"
        BY <2>0, <4>1, <4>3, <4>4, <4>5 DEF StreamOK, EndsLast, Ends
      <4>7. m = 0 /\ i = n
        BY <4>1, <4>4, <4>6
      <4> QED BY <4>1, <4>6, <4>7 DEF n
    <3> QED BY <3>2, <3>3 DEF Ordered
  <2> QED BY <2>0, <2>1 DEF ItemOrder
<1> QED BY <1>1, InvHolds, PTL

(* The control channel of a subscription (hub.rs): with every pause and    *)
(* resume received, the handle is in the state the last one asked for,     *)
(* whenever it was given.                                                  *)
THEOREM PausesKept == Spec => []PauseKept
<1>1. IInv => PauseKept
  <2> SUFFICES ASSUME IInv, NEW t \in Tasks, At(t, "forwarding"), handle[t] # "none", ctrl[t] = <<>>
               PROVE  handle[t] = "paused" <=> steered[t] # <<>> /\ Last(steered[t]) = "pause"
    BY DEF PauseKept
  <2>1. phase[t] = "forwarding" /\ Quiet(ctrl[t], "close")
    BY DEF At, Quiet
  <2>2. Asked(t) <=> handle[t] = "paused"
    BY <2>1 DEF IInv, SteerOK
  <2> QED BY <2>2 DEF Asked, Last
<1> QED BY <1>1, InvHolds, PTL

(* The connection state Python was told is the state the channel is in,    *)
(* once the task has caught up, however it learned of it; provided that    *)
(* wait_connected answers for a connection that is still there.            *)
THEOREM StateIsTold == ASSUME ~LateAnswer PROVE Spec => []StateTold
<1>1. IInv => StateTold
  <2> SUFFICES ASSUME IInv, NEW t \in Tasks, Idle(t)
               PROVE  chan[t] = "up" <=> ToldUp(sent[t], Len(sent[t]))
    BY DEF StateTold
  <2>0. TypeOK /\ StreamOK(t) /\ NewsOK(t)
    BY DEF IInv
  <2>1. /\ phase[t] \in {"waiting", "forwarding"} /\ out[t] = <<>>
        /\ events[t] = <<>> /\ ~lagged[t] /\ chan[t] # "gone"
    BY DEF Idle, At
  <2>2. Quiet(events[t], "access")
    BY <2>1 DEF Quiet
  <2>3. connected[t] <=> chan[t] = "up"
    BY <2>0, <2>1, <2>2 DEF NewsOK
  <2>4. Stream(t) = sent[t]
    BY <2>0, <2>1, StreamTypes
  <2> QED BY <2>0, <2>1, <2>3, <2>4 DEF StreamOK
<1> QED BY <1>1, InvHolds, PTL
=============================================================================
