------------------------ MODULE PvaMonitorHub_proofs ------------------------
(***************************************************************************)
(* Theorems about PvaMonitorHub for any monitors, drainers and limits: the *)
(* wake-ups, the tasks, the streams and the promise they implement.        *)
(***************************************************************************)
EXTENDS PvaMonitorHub, FiniteSetTheorems, SequenceTheorems, TLAPS

(* Appending an element adds it to the elements of a sequence and taking   *)
(* the head off removes nothing else.                                      *)
LEMMA ElemsAppend ==
  ASSUME NEW S, NEW s \in Seq(S), NEW e \in S
  PROVE  Elems(Append(s, e)) = Elems(s) \cup {e}
<1>1. Elems(Append(s, e)) \subseteq Elems(s) \cup {e}
  BY DEF Elems
<1>2. ASSUME NEW x \in Elems(s) PROVE x \in Elems(Append(s, e))
  <2>1. PICK i \in DOMAIN s : x = s[i]
    BY DEF Elems
  <2>2. i \in DOMAIN Append(s, e) /\ Append(s, e)[i] = s[i]
    BY <2>1
  <2> QED BY <2>1, <2>2 DEF Elems
<1>3. e \in Elems(Append(s, e))
  <2>1. Len(s) + 1 \in DOMAIN Append(s, e) /\ Append(s, e)[Len(s) + 1] = e
    OBVIOUS
  <2> QED BY <2>1 DEF Elems
<1> QED BY <1>1, <1>2, <1>3

(* The elements of a sequence are its head and those of its tail.          *)
LEMMA ElemsTail ==
  ASSUME NEW S, NEW s \in Seq(S), s # <<>>
  PROVE  Elems(s) = {Head(s)} \cup Elems(Tail(s))
<1>1. ASSUME NEW x \in Elems(s) PROVE x \in {Head(s)} \cup Elems(Tail(s))
  <2>1. PICK i \in DOMAIN s : x = s[i]
    BY <1>1 DEF Elems
  <2>2. CASE i = 1
    BY <2>1, <2>2
  <2>3. CASE i # 1
    <3>1. i - 1 \in DOMAIN Tail(s) /\ Tail(s)[i - 1] = s[i]
      BY <2>1, <2>3
    <3> QED BY <3>1, <2>1 DEF Elems
  <2> QED BY <2>2, <2>3
<1>2. ASSUME NEW x \in Elems(Tail(s)) PROVE x \in Elems(s)
  <2>1. PICK i \in DOMAIN Tail(s) : x = Tail(s)[i]
    BY <1>2 DEF Elems
  <2>2. i + 1 \in DOMAIN s /\ s[i + 1] = Tail(s)[i]
    BY <2>1
  <2> QED BY <2>1, <2>2 DEF Elems
<1>3. Head(s) \in Elems(s)
  <2>1. 1 \in DOMAIN s /\ s[1] = Head(s)
    OBVIOUS
  <2> QED BY <2>1 DEF Elems
<1> QED BY <1>1, <1>2, <1>3

(* Taking the only element leaves nothing.                                 *)
LEMMA TailOfOne ==
  ASSUME NEW S, NEW s \in Seq(S), Len(s) = 1
  PROVE  Tail(s) = <<>>
<1>1. Tail(s) \in Seq(S) /\ Len(Tail(s)) = 0
  OBVIOUS
<1> QED BY <1>1, EmptySeq

(* A pushed queue is a queue of items, and is not empty.                   *)
LEMMA PushType ==
  ASSUME NEW m \in Monitors, NEW q \in Seq(Item), NEW kind \in Kinds, NEW n \in Nat
  PROVE  Push(m, q, kind, n) \in Seq(Item) /\ Push(m, q, kind, n) # <<>>
<1>1. ASSUME NEW k \in Kinds
      PROVE  Append(q, Single(k, n)) \in Seq(Item) /\ Append(q, Single(k, n)) # <<>>
  <2>1. Single(k, n) \in Item
    BY DEF Single, Item
  <2> QED BY <2>1
<1>2. CASE kind = "value" /\ Values(q) >= Limit[m] /\ q # <<>> /\ q[Len(q)].kind = "value"
  <2>1. q[Len(q)] \in Item
    BY <1>2
  <2>2. Squash(q[Len(q)], n) \in Item
    BY <2>1 DEF Squash, Item
  <2>3. Push(m, q, kind, n) = [q EXCEPT ![Len(q)] = Squash(q[Len(q)], n)]
    BY <1>2 DEF Push, PushValue
  <2> QED BY <2>2, <2>3, <1>2
<1>3. CASE q # <<>> /\ ~(kind = "value" /\ Values(q) >= Limit[m] /\ q[Len(q)].kind = "value")
  <2>1. \E k \in Kinds : Push(m, q, kind, n) = Append(q, Single(k, n))
    BY <1>3 DEF Push, PushValue, Kinds
  <2> QED BY <1>1, <2>1
<1>4. CASE q = <<>>
  <2>1. {i \in DOMAIN q : q[i].kind = "value"} = {}
    BY <1>4
  <2>2. Values(q) = 0
    BY <2>1, FS_EmptySet DEF Values
  <2>3. ~(Values(q) >= Limit[m])
    BY <2>2, HubAssumption
  <2>4. Push(m, q, kind, n) = Append(q, Single(kind, n))
    BY <2>3 DEF Push, PushValue
  <2> QED BY <1>1, <2>4
<1> QED BY <1>2, <1>3, <1>4

-----------------------------------------------------------------------------
(* Type correctness, for every number of monitors and drainers.            *)
LEMMA TypeStep == TypeOK /\ [Next]_vars => TypeOK'
<1> SUFFICES ASSUME TypeOK, [Next]_vars PROVE TypeOK'
  OBVIOUS
<1> USE DEF TypeOK, mapVars, wireVars, queueVars, chanVars, drainVars
<1>0. <<>> \in Seq(Monitors) /\ <<>> \in Seq(Item)
  OBVIOUS
<1>1. ASSUME NEW m \in Monitors, Register(m) PROVE TypeOK'
  <2>1. <<Single("disconnected", 1)>> \in Seq(Item) /\ <<"disconnected">> \in Seq(Kinds)
    BY DEF Single, Item, Kinds
  <2> QED BY <1>1, <2>1 DEF Register
<1>2. ASSUME NEW m \in Monitors, OpenFails(m) PROVE TypeOK'
  BY <1>2 DEF OpenFails
<1>3. ASSUME NEW m \in Monitors, OpenReturns(m) PROVE TypeOK'
  BY <1>3 DEF OpenReturns, KeepHandle
<1>4. ASSUME NEW m \in Monitors, SignalOpen(m) PROVE TypeOK'
  BY <1>4 DEF SignalOpen, SignalSends
<1>5. ASSUME NEW m \in Monitors, SendOpen(m) PROVE TypeOK'
  BY <1>5 DEF SendOpen, SendReady
<1>6. ASSUME NEW m \in Monitors, WireStarts(m) PROVE TypeOK'
  BY <1>6 DEF WireStarts
<1>7. ASSUME NEW m \in Monitors, WireStops(m) PROVE TypeOK'
  BY <1>7 DEF WireStops
<1>8. ASSUME NEW m \in Monitors, SendPost(m) PROVE TypeOK'
  BY <1>8 DEF SendPost, SendReady
<1>9. ASSUME NEW m \in Monitors, NEW kind \in Kinds, Report(m, kind) PROVE TypeOK'
  <2>1. Push(m, queue[m], kind, Len(log[m]) + 1) \in Seq(Item)
    BY PushType
  <2>2. queue' \in [Monitors -> Seq(Item)]
    BY <1>9, <2>1 DEF Report
  <2>3. log' \in [Monitors -> Seq(Kinds)]
    BY <1>9 DEF Report
  <2>4. wire' \in [Monitors -> {"none", "down", "up", "finished", "stopped"}]
    BY <1>9 DEF Report, After, Kinds
  <2> QED BY <1>9, <2>2, <2>3, <2>4 DEF Report
<1>10. ASSUME NEW m \in Monitors, CloseSubscription(m) PROVE TypeOK'
  BY <1>10 DEF CloseSubscription
<1>11. CASE CloseMonitors
  BY <1>11 DEF CloseMonitors
<1>12. CASE CloseDrain
  BY <1>0, <1>12 DEF CloseDrain
<1>13. ASSUME NEW d \in Drainers, Pull(d) PROVE TypeOK'
  BY <1>0, <1>13 DEF Pull
<1>14. ASSUME NEW d \in Drainers, Take(d) PROVE TypeOK'
  <2> DEFINE m == Head(hand[d])
  <2>1. m \in Monitors /\ Tail(hand[d]) \in Seq(Monitors)
    BY <1>14 DEF Take
  <2>2. hand' \in [Drainers -> Seq(Monitors)]
    BY <1>14, <2>1 DEF Take
  <2>3. CASE m \in subs
    <3>1. batch[d][m] \o queue[m] \in Seq(Item)
      BY <2>1
    <3>2. batch' = [batch EXCEPT ![d][m] = @ \o queue[m]]
      BY <1>14, <2>3 DEF Take
    <3>3. batch' \in [Drainers -> [Monitors -> Seq(Item)]]
      BY <3>1, <3>2
    <3>4. /\ queue' = [queue EXCEPT ![m] = <<>>]
          /\ signalled' = [signalled EXCEPT ![m] = FALSE]
      BY <1>14, <2>3 DEF Take, TakeQueue
    <3>5. queue' \in [Monitors -> Seq(Item)] /\ signalled' \in [Monitors -> BOOLEAN]
      BY <1>0, <3>4
    <3> HIDE DEF m
    <3> QED BY <1>14, <2>2, <3>3, <3>5 DEF Take
  <2>4. CASE m \notin subs
    BY <1>14, <2>2, <2>4 DEF Take
  <2> QED BY <2>3, <2>4
<1>15. ASSUME NEW d \in Drainers, Return(d) PROVE TypeOK'
  <2>1. \A m \in Monitors : delivered[m] \o batch[d][m] \in Seq(Item)
    OBVIOUS
  <2> QED BY <1>15, <2>1 DEF Return
<1>16. CASE UNCHANGED vars
  BY <1>16 DEF vars
<1> QED
  BY <1>1, <1>2, <1>3, <1>4, <1>5, <1>6, <1>7, <1>8, <1>9, <1>10, <1>11, <1>12,
     <1>13, <1>14, <1>15, <1>16
  DEF Next, Subscribe, Wire, RecvBatch

(* The queues, the ready channel, the drains and the opens keep their      *)
(* shape, and the channel holds nothing once its drain closed it.          *)
THEOREM TypeCorrect == Spec => []TypeOK
<1>1. Init => TypeOK
  <2>1. <<>> \in Seq(Monitors) /\ <<>> \in Seq(Item) /\ <<>> \in Seq(Kinds)
    OBVIOUS
  <2> SUFFICES ASSUME Init PROVE TypeOK
    OBVIOUS
  <2> USE DEF Init
  <2>2. /\ queue \in [Monitors -> Seq(Item)]
        /\ log \in [Monitors -> Seq(Kinds)]
        /\ delivered \in [Monitors -> Seq(Item)]
        /\ signalled \in [Monitors -> BOOLEAN]
    BY <2>1
  <2>3. hand \in [Drainers -> Seq(Monitors)]
    BY <2>1
  <2>4. batch \in [Drainers -> [Monitors -> Seq(Item)]]
    BY <2>1
  <2> QED BY <2>1, <2>2, <2>3, <2>4 DEF TypeOK
<1> QED BY <1>1, TypeStep, PTL DEF Spec

-----------------------------------------------------------------------------
(* No wake-up is lost.  NoLostWakeup is not inductive alone: an id in a    *)
(* drainer's hand survives only because a call that pulls holds none, and  *)
(* a monitor enters the map unsignalled.                                   *)
HandShape == \A d \in Drainers : pc[d] \in {"idle", "returning"} => hand[d] = <<>>

Fresh == \A m \in Monitors :
           opener[m] = "new" =>
             ~signalled[m] /\ wire[m] = "none" /\ m \notin control \cup dropped

WakeInv == HandShape /\ Fresh /\ NoLostWakeup

(* Every step keeps the strengthened wake-up invariant.                    *)
LEMMA WakeStep == TypeOK /\ TypeOK' /\ WakeInv /\ [Next]_vars => WakeInv'
<1> SUFFICES ASSUME TypeOK, TypeOK', WakeInv, [Next]_vars PROVE WakeInv'
  OBVIOUS
<1> USE DEF TypeOK, mapVars, wireVars, queueVars, chanVars, drainVars
<1>1. ASSUME NEW m \in Monitors, Register(m) PROVE WakeInv'
  BY <1>1 DEF Register, WakeInv, HandShape, Fresh, NoLostWakeup, OnItsWay
<1>2. ASSUME NEW m \in Monitors, OpenFails(m) PROVE WakeInv'
  BY <1>2 DEF OpenFails, WakeInv, HandShape, Fresh, NoLostWakeup, OnItsWay
<1>3. ASSUME NEW m \in Monitors, OpenReturns(m) PROVE WakeInv'
  BY <1>3 DEF OpenReturns, KeepHandle, WakeInv, HandShape, Fresh, NoLostWakeup, OnItsWay
<1>4. ASSUME NEW m \in Monitors, SignalOpen(m) PROVE WakeInv'
  BY <1>4 DEF SignalOpen, SignalSends, WakeInv, HandShape, Fresh, NoLostWakeup, OnItsWay
<1>5. ASSUME NEW m \in Monitors, SendOpen(m) PROVE WakeInv'
  <2>1. receiving => Elems(ready') = Elems(ready) \cup {m}
    BY <1>5, ElemsAppend DEF SendOpen, SendReady
  <2>2. HandShape' /\ Fresh'
    BY <1>5 DEF SendOpen, WakeInv, HandShape, Fresh
  <2>3. NoLostWakeup'
    BY <1>5, <2>1 DEF SendOpen, WakeInv, NoLostWakeup, OnItsWay
  <2> QED BY <2>2, <2>3 DEF WakeInv
<1>6. ASSUME NEW m \in Monitors, WireStarts(m) PROVE WakeInv'
  BY <1>6 DEF WireStarts, WakeInv, HandShape, Fresh, NoLostWakeup, OnItsWay
<1>7. ASSUME NEW m \in Monitors, WireStops(m) PROVE WakeInv'
  <2>1. HandShape' /\ Fresh'
    BY <1>7 DEF WireStops, WakeInv, HandShape, Fresh
  <2> QED BY <1>7, <2>1 DEF WireStops, WakeInv, NoLostWakeup, OnItsWay
<1>8. ASSUME NEW m \in Monitors, SendPost(m) PROVE WakeInv'
  <2>1. receiving => Elems(ready') = Elems(ready) \cup {m}
    BY <1>8, ElemsAppend DEF SendPost, SendReady
  <2>2. HandShape' /\ Fresh'
    BY <1>8 DEF SendPost, WakeInv, HandShape, Fresh
  <2>3. NoLostWakeup'
    BY <1>8, <2>1 DEF SendPost, WakeInv, NoLostWakeup, OnItsWay
  <2> QED BY <2>2, <2>3 DEF WakeInv
<1>9. ASSUME NEW m \in Monitors, NEW kind \in Kinds, Report(m, kind) PROVE WakeInv'
  <2>1. HandShape'
    BY <1>9 DEF Report, WakeInv, HandShape
  <2>2. Fresh'
    BY <1>9 DEF Report, Reports, WakeInv, Fresh
  <2>3. NoLostWakeup'
    BY <1>9 DEF Report, SignalSends, WakeInv, NoLostWakeup, OnItsWay
  <2> QED BY <2>1, <2>2, <2>3 DEF WakeInv
<1>10. ASSUME NEW m \in Monitors, CloseSubscription(m) PROVE WakeInv'
  BY <1>10 DEF CloseSubscription, WakeInv, HandShape, Fresh, NoLostWakeup, OnItsWay
<1>11. CASE CloseMonitors
  BY <1>11 DEF CloseMonitors, WakeInv, HandShape, Fresh, NoLostWakeup
<1>12. CASE CloseDrain
  BY <1>12 DEF CloseDrain, WakeInv, HandShape, Fresh, NoLostWakeup
<1>13. ASSUME NEW d \in Drainers, Pull(d) PROVE WakeInv'
  <2>1. HandShape' /\ Fresh'
    BY <1>13 DEF Pull, WakeInv, HandShape, Fresh
  <2>2. hand[d] = <<>> /\ hand'[d] = ready
    BY <1>13 DEF Pull, WakeInv, HandShape
  <2>3. ASSUME NEW m \in subs, OnItsWay(m) PROVE OnItsWay(m)'
    <3>1. CASE m \in Elems(ready)
      BY <2>2, <3>1 DEF OnItsWay
    <3>2. CASE \E e \in Drainers : m \in Elems(hand[e])
      <4>1. PICK e \in Drainers : m \in Elems(hand[e])
        BY <3>2
      <4>2. e # d
        BY <4>1, <2>2 DEF Elems
      <4>3. hand'[e] = hand[e]
        BY <1>13, <4>2 DEF Pull
      <4> QED BY <4>1, <4>3 DEF OnItsWay
    <3>3. CASE m \in posting \/ opener[m] = "sending"
      BY <1>13, <3>3 DEF Pull, OnItsWay
    <3> QED BY <2>3, <3>1, <3>2, <3>3 DEF OnItsWay
  <2>4. NoLostWakeup'
    <3>1. /\ subs' = subs /\ queue' = queue /\ signalled' = signalled
          /\ receiving' = receiving /\ opener' = opener
      BY <1>13 DEF Pull
    <3> QED BY <2>3, <3>1 DEF WakeInv, NoLostWakeup
  <2> QED BY <2>1, <2>4 DEF WakeInv
<1>14. ASSUME NEW d \in Drainers, Take(d) PROVE WakeInv'
  <2> DEFINE h == Head(hand[d])
  <2>1. /\ hand[d] # <<>> /\ hand' = [hand EXCEPT ![d] = Tail(@)]
        /\ pc' = [pc EXCEPT ![d] = IF Len(hand[d]) = 1 THEN "returning" ELSE "taking"]
        /\ UNCHANGED <<subs, control, dropped, opener, wire, posting, ready, receiving>>
    BY <1>14 DEF Take
  <2>2. HandShape'
    <3>1. Len(hand[d]) = 1 => Tail(hand[d]) = <<>>
      <4>1. hand[d] \in Seq(Monitors)
        OBVIOUS
      <4> QED BY <2>1, <4>1, TailOfOne
    <3> QED BY <2>1, <3>1 DEF WakeInv, HandShape
  <2>3. ASSUME NEW m \in subs, m # h \/ h \notin subs, OnItsWay(m) PROVE OnItsWay(m)'
    <3>1. m # h
      BY <2>3
    <3>2. CASE \E e \in Drainers : m \in Elems(hand[e])
      <4>1. PICK e \in Drainers : m \in Elems(hand[e])
        BY <3>2
      <4>2. CASE e = d
        <5>0. hand[d] \in Seq(Monitors)
          OBVIOUS
        <5>1. Elems(hand[d]) = {h} \cup Elems(Tail(hand[d]))
          BY <2>1, <5>0, ElemsTail
        <5>2. m \in Elems(Tail(hand[d]))
          BY <3>1, <4>1, <4>2, <5>1
        <5>3. hand'[d] = Tail(hand[d])
          BY <2>1
        <5> QED BY <5>2, <5>3 DEF OnItsWay
      <4>3. CASE e # d
        <5>1. hand'[e] = hand[e]
          BY <2>1, <4>3
        <5> QED BY <4>1, <5>1 DEF OnItsWay
      <4> QED BY <4>2, <4>3
    <3>3. CASE m \in posting \/ opener[m] = "sending" \/ m \in Elems(ready)
      BY <2>1, <3>3 DEF OnItsWay
    <3> QED BY <2>3, <3>2, <3>3 DEF OnItsWay
  <2>4. CASE h \in subs
    <3>1. queue' = [queue EXCEPT ![h] = <<>>] /\ signalled' = [signalled EXCEPT ![h] = FALSE]
      BY <1>14, <2>4 DEF Take, TakeQueue
    <3>2. Fresh'
      BY <2>1, <2>4, <3>1 DEF WakeInv, Fresh
    <3>3. h \in Monitors /\ queue'[h] = <<>> /\ ~signalled'[h]
      BY <2>4, <3>1
    <3>4. \A m \in Monitors : m # h => queue'[m] = queue[m] /\ signalled'[m] = signalled[m]
      BY <3>1
    <3> HIDE DEF h
    <3>5. NoLostWakeup'
      BY <2>1, <2>3, <3>3, <3>4 DEF WakeInv, NoLostWakeup
    <3> QED BY <2>2, <3>2, <3>5 DEF WakeInv
  <2>5. CASE h \notin subs
    <3>1. UNCHANGED <<queue, signalled>>
      BY <1>14, <2>5 DEF Take
    <3>2. Fresh'
      BY <2>1, <3>1 DEF WakeInv, Fresh
    <3> HIDE DEF h
    <3>3. NoLostWakeup'
      BY <2>1, <2>3, <2>5, <3>1 DEF WakeInv, NoLostWakeup
    <3> QED BY <2>2, <3>2, <3>3 DEF WakeInv
  <2> QED BY <2>4, <2>5
<1>15. ASSUME NEW d \in Drainers, Return(d) PROVE WakeInv'
  <2>1. HandShape' /\ Fresh'
    BY <1>15 DEF Return, WakeInv, HandShape, Fresh
  <2> QED BY <1>15, <2>1 DEF Return, WakeInv, NoLostWakeup, OnItsWay
<1>16. CASE UNCHANGED vars
  BY <1>16 DEF vars, WakeInv, HandShape, Fresh, NoLostWakeup, OnItsWay
<1> QED
  BY <1>1, <1>2, <1>3, <1>4, <1>5, <1>6, <1>7, <1>8, <1>9, <1>10, <1>11, <1>12,
     <1>13, <1>14, <1>15, <1>16
  DEF Next, Subscribe, Wire, RecvBatch

(* No wake-up is lost: a monitor with items is signalled, or its opener is *)
(* about to, and the id of a signalled one is on its way to a drain,       *)
(* whatever callbacks and drains run between a flag and its send.          *)
THEOREM WakeupsNotLost == Spec => []NoLostWakeup
<1>1. Init => WakeInv
  BY DEF Init, WakeInv, HandShape, Fresh, NoLostWakeup
<1>2. WakeInv => NoLostWakeup
  BY DEF WakeInv
<1> QED BY <1>1, <1>2, TypeCorrect, WakeStep, PTL DEF Spec

-----------------------------------------------------------------------------
(* No monitor task is orphaned.  A handle enters the map only when open()  *)
(* returns, so a subscribe still opening, or failed, owns none.            *)
OwnInv ==
  /\ NoOrphanWire
  /\ \A m \in Monitors :
       /\ opener[m] \in {"new", "opening", "failed"} => m \notin control
       /\ opener[m] \in {"new", "failed"} => wire[m] \notin {"down", "up", "finished"}

(* Every step keeps the ownership of wire tasks.                           *)
LEMMA OwnStep == TypeOK /\ OwnInv /\ [Next]_vars => OwnInv'
<1> SUFFICES ASSUME TypeOK, OwnInv, [Next]_vars PROVE OwnInv'
  OBVIOUS
<1> USE DEF TypeOK, OwnInv, NoOrphanWire, mapVars, wireVars, queueVars, chanVars, drainVars
<1>1. ASSUME NEW m \in Monitors, Register(m) PROVE OwnInv'
  BY <1>1 DEF Register
<1>2. ASSUME NEW m \in Monitors, OpenFails(m) PROVE OwnInv'
  BY <1>2 DEF OpenFails
<1>3. ASSUME NEW m \in Monitors, OpenReturns(m) PROVE OwnInv'
  BY <1>3 DEF OpenReturns, KeepHandle
<1>4. ASSUME NEW m \in Monitors, SignalOpen(m) \/ SendOpen(m) PROVE OwnInv'
  BY <1>4 DEF SignalOpen, SendOpen
<1>5. ASSUME NEW m \in Monitors, WireStarts(m) PROVE OwnInv'
  BY <1>5 DEF WireStarts
<1>6. ASSUME NEW m \in Monitors, WireStops(m) \/ SendPost(m) PROVE OwnInv'
  BY <1>6 DEF WireStops, SendPost
<1>7. ASSUME NEW m \in Monitors, NEW kind \in Kinds, Report(m, kind) PROVE OwnInv'
  <2>1. wire[m] \in {"down", "up"}
    BY <1>7 DEF Report, Reports
  <2> QED BY <1>7, <2>1 DEF Report
<1>8. ASSUME NEW m \in Monitors, CloseSubscription(m) PROVE OwnInv'
  BY <1>8 DEF CloseSubscription
<1>9. CASE CloseMonitors
  BY <1>9 DEF CloseMonitors
<1>10. CASE CloseDrain
  BY <1>10 DEF CloseDrain
<1>11. ASSUME NEW d \in Drainers, RecvBatch(d) PROVE OwnInv'
  BY <1>11 DEF RecvBatch, Pull, Take, Return
<1>12. CASE UNCHANGED vars
  BY <1>12 DEF vars
<1> QED
  BY <1>1, <1>2, <1>3, <1>4, <1>5, <1>6, <1>7, <1>8, <1>9, <1>10, <1>11, <1>12
  DEF Next, Subscribe, Wire

(* A close racing an open leaves no monitor task running without an owner. *)
THEOREM NoTaskOrphaned == Spec => []NoOrphanWire
<1>1. Init => OwnInv
  BY DEF Init, OwnInv, NoOrphanWire
<1>2. OwnInv => NoOrphanWire
  BY DEF OwnInv
<1> QED BY <1>1, <1>2, TypeCorrect, OwnStep, PTL DEF Spec

-----------------------------------------------------------------------------
(* An id travels in one copy.  The two ways to send are behind the flag,   *)
(* and the flag falls only as the copy reaches its queue: so a raised flag *)
(* is what any copy implies, and no two places hold the same id.           *)
Distinct(s) == \A i, j \in DOMAIN s : s[i] = s[j] => i = j

Sending(m) == m \in posting \/ opener[m] = "sending"

OneCopy ==
  /\ Distinct(ready) /\ \A d \in Drainers : Distinct(hand[d])
  /\ \A m \in posting : opener[m] # "sending"
  /\ \A m \in Monitors : Sending(m) =>
       m \notin Elems(ready) /\ \A d \in Drainers : m \notin Elems(hand[d])
  /\ \A d \in Drainers : Elems(ready) \cap Elems(hand[d]) = {}
  /\ \A d, e \in Drainers : d # e => Elems(hand[d]) \cap Elems(hand[e]) = {}

Flagged == \A m \in Monitors : OnItsWay(m) => signalled[m]

CopyInv == HandShape /\ OneCopy /\ Flagged

(* Appending what a sequence does not hold keeps its elements distinct.    *)
LEMMA DistinctAppend ==
  ASSUME NEW S, NEW s \in Seq(S), NEW e \in S, Distinct(s), e \notin Elems(s)
  PROVE  Distinct(Append(s, e))
<1> SUFFICES ASSUME NEW i \in DOMAIN Append(s, e), NEW j \in DOMAIN Append(s, e),
                    Append(s, e)[i] = Append(s, e)[j]
             PROVE  i = j
  BY DEF Distinct
<1>1. \A k \in DOMAIN s : Append(s, e)[k] = s[k] /\ s[k] # e
  BY DEF Elems
<1>2. Append(s, e)[Len(s) + 1] = e /\ DOMAIN Append(s, e) = DOMAIN s \cup {Len(s) + 1}
  OBVIOUS
<1> QED BY <1>1, <1>2 DEF Distinct

(* The tail of a sequence of distinct elements lacks the head.             *)
LEMMA DistinctTail ==
  ASSUME NEW S, NEW s \in Seq(S), s # <<>>, Distinct(s)
  PROVE  Distinct(Tail(s)) /\ Head(s) \notin Elems(Tail(s))
<1>1. \A k \in DOMAIN Tail(s) : k \in Nat \ {0} /\ k + 1 \in DOMAIN s /\ Tail(s)[k] = s[k + 1]
  OBVIOUS
<1>2. 1 \in DOMAIN s /\ Head(s) = s[1]
  OBVIOUS
<1>3. Distinct(Tail(s))
  <2> SUFFICES ASSUME NEW i \in DOMAIN Tail(s), NEW j \in DOMAIN Tail(s), Tail(s)[i] = Tail(s)[j]
               PROVE  i = j
    BY DEF Distinct
  <2>1. i + 1 = j + 1
    BY <1>1 DEF Distinct
  <2> QED BY <2>1, <1>1
<1>4. Head(s) \notin Elems(Tail(s))
  <2> SUFFICES ASSUME NEW k \in DOMAIN Tail(s), Tail(s)[k] = Head(s) PROVE FALSE
    BY DEF Elems
  <2>1. k + 1 = 1
    BY <1>1, <1>2 DEF Distinct
  <2> QED BY <2>1, <1>1
<1> QED BY <1>3, <1>4

(* A raised flag whose copy was sent: the copy moves into the channel, or  *)
(* is dropped with it.                                                     *)
LEMMA SendKeepsOne ==
  ASSUME TypeOK, CopyInv, NEW m \in Monitors, Sending(m), SendReady(m),
         posting' \subseteq posting, m \notin posting',
         opener' = [opener EXCEPT ![m] = opener'[m]], opener'[m] # "sending",
         UNCHANGED <<signalled, receiving, hand, pc>>
  PROVE  CopyInv'
<1> USE DEF TypeOK, CopyInv
<1>1. ready' = ready \/ (ready' = Append(ready, m) /\ Elems(ready') = Elems(ready) \cup {m}
                           /\ Distinct(ready'))
  BY ElemsAppend, DistinctAppend DEF SendReady, OneCopy
<1>2. signalled[m]
  BY DEF Flagged, OnItsWay, Sending
<1>3. \A n \in Monitors : n # m => opener'[n] = opener[n]
  OBVIOUS
<1>4. ~Sending(m)' /\ \A n \in Monitors : Sending(n)' => Sending(n) /\ n # m
  BY <1>3 DEF Sending
<1>5. \A d \in Drainers : m \notin Elems(hand[d])
  BY DEF OneCopy
<1>6. OneCopy'
  BY <1>1, <1>3, <1>4, <1>5 DEF OneCopy
<1>7. Flagged'
  BY <1>1, <1>2, <1>4 DEF Flagged, OnItsWay, Sending
<1> QED BY <1>6, <1>7 DEF HandShape

(* Who finds the flag down raises it and sends; who finds it up does not.  *)
LEMMA SignalKeepsOne ==
  ASSUME TypeOK, CopyInv, NEW m \in Monitors,
         signalled' = [signalled EXCEPT ![m] = TRUE],
         \A n \in Monitors : n # m => (Sending(n)' <=> Sending(n)),
         Sending(m)' <=> Sending(m) \/ ~signalled[m],
         \A n \in posting' : opener'[n] # "sending",
         UNCHANGED <<ready, hand, pc>>
  PROVE  CopyInv'
<1> USE DEF TypeOK, CopyInv
<1>1. ~signalled[m] => m \notin Elems(ready) /\ \A d \in Drainers : m \notin Elems(hand[d])
  BY DEF Flagged, OnItsWay
<1>2. OneCopy'
  BY <1>1 DEF OneCopy
<1>3. signalled'[m] /\ \A n \in Monitors : n # m => signalled'[n] = signalled[n]
  OBVIOUS
<1>4. Flagged'
  BY <1>3 DEF Flagged, OnItsWay, Sending
<1> QED BY <1>2, <1>4 DEF HandShape

(* Steps that touch neither flags nor copies.                              *)
LEMMA SilentKeepsOne ==
  ASSUME TypeOK, CopyInv, UNCHANGED <<posting, signalled, ready, hand>>,
         \A m \in Monitors : (opener'[m] = "sending") <=> (opener[m] = "sending"),
         \A d \in Drainers : pc'[d] \in {"idle", "returning"} => pc[d] \in {"idle", "returning"}
  PROVE  CopyInv'
<1>1. \A m \in Monitors : (Sending(m)' <=> Sending(m)) /\ (OnItsWay(m)' <=> OnItsWay(m))
  BY DEF Sending, OnItsWay
<1>2. OneCopy'
  BY <1>1 DEF CopyInv, OneCopy, TypeOK
<1>3. Flagged'
  BY <1>1 DEF CopyInv, Flagged
<1> QED BY <1>2, <1>3 DEF CopyInv, HandShape

(* Every step keeps an id in one copy.                                     *)
LEMMA CopyStep == TypeOK /\ CopyInv /\ [Next]_vars => CopyInv'
<1> SUFFICES ASSUME TypeOK, CopyInv, [Next]_vars PROVE CopyInv'
  OBVIOUS
<1> USE DEF mapVars, wireVars, queueVars, chanVars, drainVars
<1>1. ASSUME NEW m \in Monitors, Register(m) \/ OpenFails(m) \/ OpenReturns(m) PROVE CopyInv'
  BY <1>1, SilentKeepsOne DEF Register, OpenFails, OpenReturns, TypeOK
<1>2. ASSUME NEW m \in Monitors, SignalOpen(m) PROVE CopyInv'
  <2>1. /\ opener[m] = "opened" /\ UNCHANGED <<posting, ready, hand, pc>>
        /\ signalled' = [signalled EXCEPT ![m] = TRUE]
        /\ opener' = [opener EXCEPT ![m] = IF ~signalled[m] THEN "sending" ELSE "done"]
    BY <1>2 DEF SignalOpen, SignalSends
  <2>2. \A n \in Monitors : n # m => opener'[n] = opener[n]
    BY <2>1
  <2>3. opener'[m] = IF ~signalled[m] THEN "sending" ELSE "done"
    BY <2>1 DEF TypeOK
  <2>4. m \in posting => signalled[m]
    BY DEF CopyInv, Flagged, OnItsWay
  <2>5. \A n \in posting' : opener'[n] # "sending"
    BY <2>1, <2>2, <2>3, <2>4 DEF CopyInv, OneCopy
  <2>6. \A n \in Monitors : n # m => (Sending(n)' <=> Sending(n))
    BY <2>1, <2>2 DEF Sending
  <2>7. Sending(m)' <=> Sending(m) \/ ~signalled[m]
    BY <2>1, <2>3, <2>4 DEF Sending
  <2> QED BY <2>1, <2>5, <2>6, <2>7, SignalKeepsOne
<1>3. ASSUME NEW m \in Monitors, SendOpen(m) PROVE CopyInv'
  <2>1. /\ opener[m] = "sending" /\ opener' = [opener EXCEPT ![m] = "done"] /\ SendReady(m)
        /\ UNCHANGED <<posting, signalled, receiving, hand, pc>>
    BY <1>3 DEF SendOpen
  <2>2. m \notin posting
    BY <2>1 DEF CopyInv, OneCopy
  <2>3. opener'[m] = "done"
    BY <2>1 DEF TypeOK
  <2> QED BY <2>1, <2>2, <2>3, SendKeepsOne DEF Sending
<1>4. ASSUME NEW m \in Monitors, WireStarts(m) \/ WireStops(m) PROVE CopyInv'
  BY <1>4, SilentKeepsOne DEF WireStarts, WireStops
<1>5. ASSUME NEW m \in Monitors, SendPost(m) PROVE CopyInv'
  <2>1. /\ m \in posting /\ posting' = posting \ {m} /\ SendReady(m)
        /\ UNCHANGED <<opener, signalled, receiving, hand, pc>>
    BY <1>5 DEF SendPost
  <2>2. opener[m] # "sending" /\ opener' = [opener EXCEPT ![m] = opener'[m]]
    BY <2>1 DEF CopyInv, OneCopy, TypeOK
  <2> QED BY <2>1, <2>2, SendKeepsOne DEF Sending
<1>6. ASSUME NEW m \in Monitors, NEW kind \in Kinds, Report(m, kind) PROVE CopyInv'
  <2>1. /\ signalled' = [signalled EXCEPT ![m] = TRUE]
        /\ posting' = IF ~signalled[m] THEN posting \cup {m} ELSE posting
        /\ UNCHANGED <<opener, ready, hand, pc>>
    BY <1>6 DEF Report, SignalSends
  <2>2. ~signalled[m] => opener[m] # "sending"
    BY DEF CopyInv, Flagged, OnItsWay
  <2>3. \A n \in posting' : opener'[n] # "sending"
    BY <2>1, <2>2 DEF CopyInv, OneCopy
  <2>4. \A n \in Monitors : n # m => (Sending(n)' <=> Sending(n))
    BY <2>1 DEF Sending
  <2>5. Sending(m)' <=> Sending(m) \/ ~signalled[m]
    BY <2>1 DEF Sending
  <2> QED BY <2>1, <2>3, <2>4, <2>5, SignalKeepsOne
<1>7. ASSUME NEW m \in Monitors, CloseSubscription(m) PROVE CopyInv'
  BY <1>7, SilentKeepsOne DEF CloseSubscription
<1>8. CASE CloseMonitors
  BY <1>8, SilentKeepsOne DEF CloseMonitors
<1>9. CASE CloseDrain
  <2>1. Elems(ready') = {} /\ Distinct(ready')
    BY <1>9 DEF CloseDrain, Elems, Distinct
  <2>2. UNCHANGED <<posting, opener, signalled, hand, pc>>
    BY <1>9 DEF CloseDrain
  <2>3. OneCopy'
    BY <2>1, <2>2 DEF CopyInv, OneCopy, Sending
  <2>4. Flagged'
    BY <2>1, <2>2 DEF CopyInv, Flagged, OnItsWay
  <2> QED BY <2>2, <2>3, <2>4 DEF CopyInv, HandShape
<1>10. ASSUME NEW d \in Drainers, Pull(d) PROVE CopyInv'
  <2>1. /\ ready' = <<>> /\ hand' = [hand EXCEPT ![d] = ready]
        /\ pc' = [pc EXCEPT ![d] = "pulled"] /\ UNCHANGED <<posting, opener, signalled>>
    BY <1>10 DEF Pull
  <2>2. Elems(ready') = {} /\ Distinct(ready')
    BY <2>1 DEF Elems, Distinct
  <2>3. hand'[d] = ready /\ \A e \in Drainers : e # d => hand'[e] = hand[e]
    BY <2>1 DEF TypeOK
  <2>4. OneCopy'
    BY <2>1, <2>2, <2>3 DEF CopyInv, OneCopy, Sending
  <2>5. Flagged'
    BY <2>1, <2>2, <2>3 DEF CopyInv, Flagged, OnItsWay
  <2>6. HandShape'
    BY <2>1, <2>3 DEF CopyInv, HandShape, TypeOK
  <2> QED BY <2>4, <2>5, <2>6 DEF CopyInv
<1>11. ASSUME NEW d \in Drainers, Take(d) PROVE CopyInv'
  <2> PICK h : h = Head(hand[d])
    OBVIOUS
  <2>1. /\ hand[d] # <<>> /\ hand' = [hand EXCEPT ![d] = Tail(@)]
        /\ pc' = [pc EXCEPT ![d] = IF Len(hand[d]) = 1 THEN "returning" ELSE "taking"]
        /\ UNCHANGED <<opener, posting, ready>>
    BY <1>11 DEF Take
  <2>2. hand[d] \in Seq(Monitors) /\ h \in Monitors
    BY <2>1 DEF TypeOK
  <2>3. /\ Elems(hand[d]) = {h} \cup Elems(Tail(hand[d]))
        /\ Distinct(Tail(hand[d])) /\ h \notin Elems(Tail(hand[d]))
    BY <2>1, <2>2, ElemsTail, DistinctTail DEF CopyInv, OneCopy
  <2>4. hand'[d] = Tail(hand[d]) /\ \A e \in Drainers : e # d => hand'[e] = hand[e]
    BY <2>1 DEF TypeOK
  <2>5. \A m \in Monitors : m # h => signalled'[m] = signalled[m]
    <3>1. CASE h \in subs
      <4>1. signalled' = [signalled EXCEPT ![h] = FALSE]
        BY <1>11, <3>1 DEF Take, TakeQueue
      <4> QED BY <4>1 DEF TypeOK
    <3>2. CASE h \notin subs
      BY <1>11, <3>2 DEF Take
    <3> QED BY <3>1, <3>2
  <2>6. OneCopy'
    BY <2>1, <2>3, <2>4 DEF CopyInv, OneCopy, Sending
  <2>7. ~OnItsWay(h)'
    <3>1. h \notin Elems(ready) /\ ~Sending(h)
      BY <2>2, <2>3 DEF CopyInv, OneCopy
    <3>2. \A e \in Drainers : h \notin Elems(hand'[e])
      BY <2>3, <2>4 DEF CopyInv, OneCopy
    <3> QED BY <2>1, <3>1, <3>2 DEF OnItsWay, Sending
  <2>8. \A m \in Monitors : OnItsWay(m)' => OnItsWay(m)
    BY <2>1, <2>3, <2>4 DEF OnItsWay
  <2>9. Flagged'
    BY <2>5, <2>7, <2>8 DEF CopyInv, Flagged
  <2>10. HandShape'
    <3>1. Len(hand[d]) = 1 => Tail(hand[d]) = <<>>
      BY <2>1, <2>2, TailOfOne
    <3> QED BY <2>1, <2>4, <3>1 DEF CopyInv, HandShape, TypeOK
  <2> QED BY <2>6, <2>9, <2>10 DEF CopyInv
<1>12. ASSUME NEW d \in Drainers, Return(d) PROVE CopyInv'
  BY <1>12, SilentKeepsOne DEF Return, TypeOK
<1>13. CASE UNCHANGED vars
  BY <1>13, SilentKeepsOne DEF vars
<1> QED
  BY <1>1, <1>2, <1>3, <1>4, <1>5, <1>6, <1>7, <1>8, <1>9, <1>10, <1>11, <1>12, <1>13
  DEF Next, Subscribe, Wire, RecvBatch

(* Two places of one id would be two copies of it.                         *)
LEMMA CopiesCoincide == OneCopy => WakeOnce
<1> SUFFICES ASSUME OneCopy, NEW m \in Monitors, NEW x \in Places(m), NEW y \in Places(m)
             PROVE  x = y
  BY DEF WakeOnce
<1> DEFINE InReady(p) == \E i \in DOMAIN ready : ready[i] = m /\ p = <<"ready", i>>
           InHand(p) == \E d \in Drainers : \E i \in DOMAIN hand[d] :
                          hand[d][i] = m /\ p = <<"hand", d, i>>
           InPost(p) == m \in posting /\ p = <<"posting">>
           InOpen(p) == opener[m] = "sending" /\ p = <<"opener">>
<1>1. ASSUME NEW p \in Places(m) PROVE InReady(p) \/ InHand(p) \/ InPost(p) \/ InOpen(p)
  BY <1>1 DEF Places
<1>2. \A p : InReady(p) => m \in Elems(ready)
  BY DEF Elems
<1>3. \A p : InHand(p) => \E d \in Drainers : m \in Elems(hand[d])
  BY DEF Elems
<1>4. InReady(x) /\ InReady(y) => x = y
  BY DEF OneCopy, Distinct
<1>5. InHand(x) /\ InHand(y) => x = y
  <2> SUFFICES ASSUME InHand(x), InHand(y) PROVE x = y
    OBVIOUS
  <2>1. PICK d \in Drainers : \E i \in DOMAIN hand[d] : hand[d][i] = m /\ x = <<"hand", d, i>>
    OBVIOUS
  <2>2. PICK e \in Drainers : \E i \in DOMAIN hand[e] : hand[e][i] = m /\ y = <<"hand", e, i>>
    OBVIOUS
  <2>3. m \in Elems(hand[d]) /\ m \in Elems(hand[e])
    BY <2>1, <2>2 DEF Elems
  <2>4. d = e
    BY <2>3 DEF OneCopy
  <2> QED BY <2>1, <2>2, <2>4 DEF OneCopy, Distinct
<1>6. InPost(x) \/ InOpen(x) => ~InReady(y) /\ ~InHand(y)
  BY <1>2, <1>3 DEF OneCopy, Sending
<1>7. InPost(y) \/ InOpen(y) => ~InReady(x) /\ ~InHand(x)
  BY <1>2, <1>3 DEF OneCopy, Sending
<1>8. ~(InReady(x) /\ InHand(y)) /\ ~(InReady(y) /\ InHand(x))
  BY <1>2, <1>3 DEF OneCopy
<1>9. ~(InPost(x) /\ InOpen(y)) /\ ~(InPost(y) /\ InOpen(x))
  BY DEF OneCopy
<1>10. (InPost(x) /\ InPost(y) => x = y) /\ (InOpen(x) /\ InOpen(y) => x = y)
  OBVIOUS
<1> HIDE DEF InReady, InHand, InPost, InOpen
<1> QED BY <1>1, <1>4, <1>5, <1>6, <1>7, <1>8, <1>9, <1>10

(* "A monitor signals its id once" per drain (hub.rs: signal, take): of    *)
(* any monitor at most one copy of the id travels, so the unbounded ready  *)
(* channel holds no more ids than there are monitors.                      *)
THEOREM OneWake == Spec => []WakeOnce
<1>1. Init => CopyInv
  BY DEF Init, CopyInv, HandShape, OneCopy, Distinct, Sending, Flagged, OnItsWay, Elems
<1>2. CopyInv => WakeOnce
  BY CopiesCoincide DEF CopyInv
<1> QED BY <1>1, <1>2, TypeCorrect, CopyStep, PTL DEF Spec

-----------------------------------------------------------------------------
(* The items of a stream tile the events reported.  StreamIntact relates   *)
(* an item to the one before it only; the invariant adds that every item   *)
(* stands for something, and for events already reported, so that a part   *)
(* of the stream can be judged without the rest.                           *)
Upto(s, i) == IF i = 0 THEN 0 ELSE s[i].last

Tiled(s, l) ==
  /\ Upto(s, Len(s)) = Len(l)
  /\ \A i \in DOMAIN s :
       /\ Upto(s, i - 1) < s[i].last /\ s[i].last <= Len(l)
       /\ s[i].covers = Upto(s, i - 1) + 1 .. s[i].last
       /\ \A n \in s[i].covers : l[n] = s[i].kind
       /\ s[i].kind # "value" => s[i].last = Upto(s, i - 1) + 1

(* The events an item and its predecessors stand for have numbers.         *)
LEMMA UptoNat ==
  ASSUME NEW s \in Seq(Item)
  PROVE  \A i \in DOMAIN s : s[i].last \in Nat /\ Upto(s, i - 1) \in Nat
<1>1. \A i \in DOMAIN s : s[i] \in Item
  OBVIOUS
<1>2. \A i \in DOMAIN s : s[i].last \in Nat
  BY <1>1 DEF Item
<1>3. ASSUME NEW i \in DOMAIN s PROVE Upto(s, i - 1) \in Nat
  <2>1. i = 1 \/ i - 1 \in DOMAIN s
    OBVIOUS
  <2> QED BY <2>1, <1>2 DEF Upto
<1> QED BY <1>2, <1>3

(* A new event as an item of its own keeps the tiling.                     *)
LEMMA TileAppend ==
  ASSUME NEW s \in Seq(Item), NEW l \in Seq(Kinds), NEW kind \in Kinds, Tiled(s, l)
  PROVE  Tiled(Append(s, Single(kind, Len(l) + 1)), Append(l, kind))
<1> DEFINE n == Len(l) + 1
           t == Append(s, Single(kind, n))
           k == Append(l, kind)
<1>1. Single(kind, n) \in Item
  BY DEF Single, Item
<1>2. /\ t \in Seq(Item) /\ Len(t) = Len(s) + 1 /\ DOMAIN t = 1 .. Len(s) + 1
      /\ t[Len(s) + 1] = Single(kind, n)
      /\ \A i \in DOMAIN s : t[i] = s[i]
  BY <1>1, AppendProperties
<1>3. /\ Len(k) = n /\ k[n] = kind /\ \A j \in 1 .. Len(l) : k[j] = l[j]
  BY AppendProperties
<1> HIDE DEF t, k
<1>4. \A i \in 0 .. Len(s) : Upto(t, i) = Upto(s, i)
  BY <1>2 DEF Upto
<1>9. \A i \in DOMAIN s : s[i].last \in Nat /\ Upto(s, i - 1) \in Nat
  BY UptoNat
<1>5. Upto(s, Len(s)) = Len(l)
  BY DEF Tiled
<1>6. Upto(t, Len(t)) = n
  BY <1>2 DEF Upto, Single
<1>7. ASSUME NEW i \in DOMAIN t
      PROVE  /\ Upto(t, i - 1) < t[i].last /\ t[i].last <= Len(k)
             /\ t[i].covers = Upto(t, i - 1) + 1 .. t[i].last
             /\ \A j \in t[i].covers : k[j] = t[i].kind
             /\ t[i].kind # "value" => t[i].last = Upto(t, i - 1) + 1
  <2>1. CASE i \in DOMAIN s
    <3>1. t[i] = s[i] /\ Upto(t, i - 1) = Upto(s, i - 1)
      BY <2>1, <1>2, <1>4
    <3>2. s[i].last \in Nat /\ Upto(s, i - 1) \in Nat
      BY <2>1, <1>9
    <3>3. /\ Upto(s, i - 1) < s[i].last /\ s[i].last <= Len(l)
          /\ s[i].covers = Upto(s, i - 1) + 1 .. s[i].last
          /\ \A j \in s[i].covers : l[j] = s[i].kind
          /\ s[i].kind # "value" => s[i].last = Upto(s, i - 1) + 1
      BY <2>1 DEF Tiled
    <3>5. s[i].covers \subseteq 1 .. Len(l)
      BY <3>2, <3>3
    <3>6. \A j \in t[i].covers : k[j] = t[i].kind
      BY <3>1, <3>3, <3>5, <1>3
    <3>7. t[i].last <= Len(k)
      BY <3>1, <3>2, <3>3, <1>3
    <3> QED BY <3>1, <3>3, <3>6, <3>7
  <2>2. CASE i = Len(s) + 1
    <3>1. Upto(t, i - 1) = Len(l)
      BY <2>2, <1>4, <1>5
    <3>2. t[i].last = n /\ t[i].covers = {n} /\ t[i].kind = kind
      BY <2>2, <1>2 DEF Single
    <3>3. n .. n = {n}
      OBVIOUS
    <3> QED BY <3>1, <3>2, <3>3, <1>3
  <2> QED BY <1>2, <2>1, <2>2
<1>8. Tiled(t, k)
  BY <1>3, <1>6, <1>7 DEF Tiled
<1> QED BY <1>8 DEF t, k

(* So does a value merged into a tail value.                               *)
LEMMA TileSquash ==
  ASSUME NEW s \in Seq(Item), NEW l \in Seq(Kinds), Tiled(s, l),
         s # <<>>, s[Len(s)].kind = "value"
  PROVE  Tiled([s EXCEPT ![Len(s)] = Squash(s[Len(s)], Len(l) + 1)], Append(l, "value"))
<1> DEFINE n == Len(l) + 1
           e == Len(s)
           t == [s EXCEPT ![e] = Squash(s[e], n)]
           k == Append(l, "value")
<1>0. e \in DOMAIN s /\ s[e] \in Item
  OBVIOUS
<1>1. Squash(s[e], n) \in Item
  <2> n \in Nat
    OBVIOUS
  <2> HIDE DEF n, e
  <2> QED BY <1>0 DEF Squash, Item
<1>2. /\ t \in Seq(Item) /\ Len(t) = e /\ DOMAIN t = DOMAIN s
      /\ t[e] = Squash(s[e], n)
      /\ \A i \in DOMAIN s : i # e => t[i] = s[i]
  BY <1>0, <1>1, ExceptSeq
<1>3. /\ Len(k) = n /\ k[n] = "value" /\ \A j \in 1 .. Len(l) : k[j] = l[j]
  BY AppendProperties DEF Kinds
<1> HIDE DEF t, k
<1>10. \A i \in DOMAIN s : s[i].last \in Nat /\ Upto(s, i - 1) \in Nat
  BY UptoNat
<1>4. \A i \in 0 .. e - 1 : Upto(t, i) = Upto(s, i)
  <2>1. \A i \in 0 .. e - 1 : i = 0 \/ (i \in DOMAIN s /\ i # e)
    OBVIOUS
  <2> HIDE DEF e
  <2> QED BY <2>1, <1>2 DEF Upto
<1>5. s[e].last = Len(l)
  BY <1>0 DEF Tiled, Upto
<1>6. /\ t[e].last = n /\ t[e].covers = s[e].covers \cup {n} /\ t[e].kind = "value"
  BY <1>0, <1>2 DEF Squash, Item
<1>7. Upto(t, Len(t)) = n
  BY <1>0, <1>2, <1>6 DEF Upto
<1>8. ASSUME NEW i \in DOMAIN t
      PROVE  /\ Upto(t, i - 1) < t[i].last /\ t[i].last <= Len(k)
             /\ t[i].covers = Upto(t, i - 1) + 1 .. t[i].last
             /\ \A j \in t[i].covers : k[j] = t[i].kind
             /\ t[i].kind # "value" => t[i].last = Upto(t, i - 1) + 1
  <2>1. Upto(t, i - 1) = Upto(s, i - 1)
    <3>1. i - 1 \in 0 .. e - 1
      BY <1>2
    <3> QED BY <3>1, <1>4
  <2>2. s[i].last \in Nat /\ Upto(s, i - 1) \in Nat
    BY <1>2, <1>10
  <2>3. /\ Upto(s, i - 1) < s[i].last /\ s[i].last <= Len(l)
        /\ s[i].covers = Upto(s, i - 1) + 1 .. s[i].last
        /\ \A j \in s[i].covers : l[j] = s[i].kind
        /\ s[i].kind # "value" => s[i].last = Upto(s, i - 1) + 1
    BY <1>2 DEF Tiled
  <2>5. s[i].covers \subseteq 1 .. Len(l)
    BY <2>2, <2>3
  <2>6. CASE i # e
    BY <2>6, <2>1, <2>2, <2>3, <2>5, <1>2, <1>3
  <2>7. CASE i = e
    <3>1. Upto(t, i - 1) + 1 .. n = (Upto(s, i - 1) + 1 .. Len(l)) \cup {n}
      BY <2>1, <2>2, <2>3, <2>7, <1>5
    <3>2. t[i].covers = Upto(t, i - 1) + 1 .. t[i].last
      BY <3>1, <2>3, <2>7, <1>5, <1>6
    <3>3. \A j \in t[i].covers : k[j] = "value"
      BY <2>3, <2>5, <2>7, <1>3, <1>6
    <3> QED BY <3>2, <3>3, <2>1, <2>2, <2>3, <2>7, <1>3, <1>5, <1>6
  <2> QED BY <2>6, <2>7
<1>9. Tiled(t, k)
  BY <1>3, <1>7, <1>8 DEF Tiled
<1> QED BY <1>9 DEF t, k

(* What happens to the end of a sequence happens to any it ends.           *)
LEMMA ConcatEnds ==
  ASSUME NEW a \in Seq(Item), NEW q \in Seq(Item), NEW x \in Item
  PROVE  /\ a \o Append(q, x) = Append(a \o q, x)
         /\ q # <<>> => /\ a \o q # <<>> /\ (a \o q)[Len(a \o q)] = q[Len(q)]
                        /\ a \o [q EXCEPT ![Len(q)] = x] = [a \o q EXCEPT ![Len(a \o q)] = x]
<1>1. a \o Append(q, x) = Append(a \o q, x)
  <2>1. a \o Append(q, x) \in Seq(Item) /\ Append(a \o q, x) \in Seq(Item)
    BY ConcatProperties, AppendProperties
  <2>2. /\ a \o q \in Seq(Item) /\ Len(a \o q) = Len(a) + Len(q)
        /\ \A i \in 1 .. Len(a) + Len(q) : (a \o q)[i] = IF i <= Len(a) THEN a[i] ELSE q[i - Len(a)]
    BY ConcatProperties
  <2>3. /\ Len(Append(q, x)) = Len(q) + 1 /\ Append(q, x)[Len(q) + 1] = x
        /\ \A i \in 1 .. Len(q) : Append(q, x)[i] = q[i]
    BY AppendProperties
  <2>4. /\ Len(Append(a \o q, x)) = Len(a) + Len(q) + 1
        /\ Append(a \o q, x)[Len(a) + Len(q) + 1] = x
        /\ \A i \in 1 .. Len(a) + Len(q) : Append(a \o q, x)[i] = (a \o q)[i]
    BY <2>2, AppendProperties
  <2>5. /\ Len(a \o Append(q, x)) = Len(a) + Len(q) + 1
        /\ \A i \in 1 .. Len(a) + Len(q) + 1 :
             (a \o Append(q, x))[i] = IF i <= Len(a) THEN a[i] ELSE Append(q, x)[i - Len(a)]
    BY <2>3, ConcatProperties, AppendProperties
  <2>6. \A i \in 1 .. Len(a) + Len(q) + 1 : (a \o Append(q, x))[i] = Append(a \o q, x)[i]
    BY <2>2, <2>3, <2>4, <2>5
  <2> QED BY <2>1, <2>4, <2>5, <2>6, SeqEqual
<1>2. ASSUME q # <<>>
      PROVE  /\ a \o q # <<>> /\ (a \o q)[Len(a \o q)] = q[Len(q)]
             /\ a \o [q EXCEPT ![Len(q)] = x] = [a \o q EXCEPT ![Len(a \o q)] = x]
  <2> DEFINE r == [q EXCEPT ![Len(q)] = x]
             b == [a \o q EXCEPT ![Len(a \o q)] = x]
  <2>1. Len(q) \in DOMAIN q /\ Len(q) > 0
    BY <1>2
  <2>2. /\ a \o q \in Seq(Item) /\ Len(a \o q) = Len(a) + Len(q)
        /\ \A i \in 1 .. Len(a) + Len(q) : (a \o q)[i] = IF i <= Len(a) THEN a[i] ELSE q[i - Len(a)]
    BY ConcatProperties
  <2>3. /\ r \in Seq(Item) /\ Len(r) = Len(q) /\ r[Len(q)] = x
        /\ \A i \in 1 .. Len(q) : i # Len(q) => r[i] = q[i]
    BY <2>1, ExceptSeq
  <2>4. Len(a \o q) \in DOMAIN (a \o q)
    BY <2>1, <2>2
  <2> DEFINE c == a \o q
  <2>5. /\ b \in Seq(Item) /\ Len(b) = Len(a) + Len(q) /\ b[Len(a) + Len(q)] = x
        /\ \A i \in 1 .. Len(a) + Len(q) : i # Len(a) + Len(q) => b[i] = c[i]
    <3>1. c \in Seq(Item) /\ Len(c) = Len(a) + Len(q) /\ Len(c) \in DOMAIN c
      BY <2>2, <2>4
    <3> HIDE DEF c
    <3>2. /\ [c EXCEPT ![Len(c)] = x] \in Seq(Item) /\ Len([c EXCEPT ![Len(c)] = x]) = Len(c)
          /\ [c EXCEPT ![Len(c)] = x][Len(c)] = x
          /\ \A i \in 1 .. Len(c) : i # Len(c) => [c EXCEPT ![Len(c)] = x][i] = c[i]
      BY <3>1, ExceptSeq
    <3> QED BY <3>1, <3>2 DEF c
  <2> HIDE DEF r, b
  <2>6. /\ a \o r \in Seq(Item) /\ Len(a \o r) = Len(a) + Len(q)
        /\ \A i \in 1 .. Len(a) + Len(q) : (a \o r)[i] = IF i <= Len(a) THEN a[i] ELSE r[i - Len(a)]
    <3>1. /\ a \o r \in Seq(Item) /\ Len(a \o r) = Len(a) + Len(r)
          /\ \A i \in 1 .. Len(a) + Len(r) : (a \o r)[i] = IF i <= Len(a) THEN a[i] ELSE r[i - Len(a)]
      BY <2>3, ConcatProperties
    <3> QED BY <2>3, <3>1
  <2>7. \A i \in 1 .. Len(a) + Len(q) : (a \o r)[i] = b[i]
    <3> SUFFICES ASSUME NEW i \in 1 .. Len(a) + Len(q) PROVE (a \o r)[i] = b[i]
      OBVIOUS
    <3>1. CASE i = Len(a) + Len(q)
      BY <2>1, <2>3, <2>5, <2>6, <3>1
    <3>2. CASE i # Len(a) + Len(q) /\ i <= Len(a)
      BY <2>2, <2>5, <2>6, <3>2
    <3>3. CASE i # Len(a) + Len(q) /\ i > Len(a)
      <4>1. i - Len(a) \in 1 .. Len(q) /\ i - Len(a) # Len(q)
        BY <3>3
      <4> QED BY <2>2, <2>3, <2>5, <2>6, <3>3, <4>1
    <3>4. i <= Len(a) \/ i > Len(a)
      OBVIOUS
    <3> QED BY <3>1, <3>2, <3>3, <3>4
  <2>8. a \o r = b
    BY <2>5, <2>6, <2>7, SeqEqual
  <2>9. a \o q # <<>> /\ (a \o q)[Len(a \o q)] = q[Len(q)]
    BY <2>1, <2>2
  <2> QED BY <2>8, <2>9 DEF r, b
<1> QED BY <1>1, <1>2

-----------------------------------------------------------------------------
(* A push appends an item, or merges a value into a tail value.            *)
LEMMA PushCases ==
  ASSUME NEW m \in Monitors, NEW q \in Seq(Item), NEW kind \in Kinds, NEW n \in Nat
  PROVE  \/ Push(m, q, kind, n) = Append(q, Single(kind, n))
         \/ /\ kind = "value" /\ q # <<>> /\ q[Len(q)].kind = "value"
            /\ Push(m, q, kind, n) = [q EXCEPT ![Len(q)] = Squash(q[Len(q)], n)]
<1>1. CASE q = <<>>
  <2>1. {i \in DOMAIN q : q[i].kind = "value"} = {}
    BY <1>1
  <2>2. Values(q) = 0
    BY <2>1, FS_EmptySet DEF Values
  <2>3. ~(Values(q) >= Limit[m])
    BY <2>2, HubAssumption
  <2> QED BY <2>3 DEF Push, PushValue
<1>2. CASE q # <<>>
  BY <1>2 DEF Push, PushValue
<1> QED BY <1>1, <1>2

(* A stream that tiles no events is empty.                                 *)
LEMMA TileEmpty ==
  ASSUME NEW s \in Seq(Item), Tiled(s, <<>>) PROVE s = <<>>
<1>1. ASSUME s # <<>> PROVE FALSE
  <2>1. Len(s) \in DOMAIN s
    BY <1>1
  <2>2. s[Len(s)].last \in Nat /\ Upto(s, Len(s) - 1) \in Nat
    BY <2>1, UptoNat
  <2>3. Upto(s, Len(s) - 1) < s[Len(s)].last /\ s[Len(s)].last <= 0
    BY <2>1 DEF Tiled
  <2> QED BY <2>2, <2>3
<1> QED BY <1>1

(* What a wire reported last says what it may report next, and a monitor   *)
(* has a first item from its subscribe on.                                 *)
Latest(l) == l[Len(l)]

LogInv ==
  \A m \in Monitors :
    /\ opener[m] = "new" <=> log[m] = <<>>
    /\ opener[m] = "new" => wire[m] = "none"
    /\ m \in control \cup dropped => wire[m] # "none"
    /\ wire[m] \in {"none", "down"} /\ opener[m] # "new" => Latest(log[m]) = "disconnected"
    /\ wire[m] = "up" => Latest(log[m]) \in {"connected", "value"}

(* No step breaks what the last event says of the wire.                    *)
LEMMA LogStep == TypeOK /\ LogInv /\ [Next]_vars => LogInv'
<1> SUFFICES ASSUME TypeOK, LogInv, [Next]_vars PROVE LogInv'
  OBVIOUS
<1> USE DEF TypeOK, LogInv, mapVars, wireVars, queueVars, chanVars, drainVars
<1>1. ASSUME NEW m \in Monitors, Register(m) PROVE LogInv'
  <2>1. Latest(<<"disconnected">>) = "disconnected" /\ <<"disconnected">> # <<>>
    BY DEF Latest
  <2> QED BY <1>1, <2>1 DEF Register
<1>2. ASSUME NEW m \in Monitors, OpenFails(m) \/ OpenReturns(m) PROVE LogInv'
  BY <1>2 DEF OpenFails, OpenReturns, KeepHandle
<1>3. ASSUME NEW m \in Monitors, SignalOpen(m) \/ SendOpen(m) PROVE LogInv'
  BY <1>3 DEF SignalOpen, SendOpen
<1>4. ASSUME NEW m \in Monitors, WireStarts(m) PROVE LogInv'
  BY <1>4 DEF WireStarts
<1>5. ASSUME NEW m \in Monitors, WireStops(m) PROVE LogInv'
  <2>1. /\ wire' = [wire EXCEPT ![m] = "stopped"] /\ opener' = opener /\ log' = log
        /\ UNCHANGED <<control, dropped>> /\ opener[m] # "new"
    BY <1>5 DEF WireStops
  <2>2. \A j \in Monitors : j # m => wire'[j] = wire[j]
    BY <2>1
  <2>3. wire'[m] = "stopped"
    BY <2>1
  <2> QED BY <2>1, <2>2, <2>3
<1>11. ASSUME NEW m \in Monitors, SendPost(m) PROVE LogInv'
  BY <1>11 DEF SendPost
<1>6. ASSUME NEW m \in Monitors, NEW kind \in Kinds, Report(m, kind) PROVE LogInv'
  <2>5. Append(log[m], kind) # <<>> /\ Latest(Append(log[m], kind)) = kind
    <3>1. log[m] \in Seq(Kinds)
      OBVIOUS
    <3> HIDE DEF TypeOK, LogInv
    <3> QED BY <3>1, AppendProperties DEF Latest
  <2>1. /\ log' = [log EXCEPT ![m] = Append(log[m], kind)] /\ dropped' = dropped
        /\ wire' = [wire EXCEPT ![m] = After(kind)] /\ opener' = opener /\ control' = control
    BY <1>6 DEF Report
  <2>2. wire[m] \in {"down", "up"}
    BY <1>6 DEF Report, Reports
  <2>3. opener[m] # "new"
    BY <2>2
  <2>4. /\ After(kind) \in {"up", "down", "finished"}
        /\ After(kind) = "up" => kind \in {"value", "connected"}
        /\ After(kind) = "down" => kind = "disconnected"
    BY DEF After, Kinds
  <2>6. ASSUME NEW j \in Monitors, j # m PROVE log'[j] = log[j] /\ wire'[j] = wire[j]
    BY <2>1, <2>6
  <2>7. log'[m] = Append(log[m], kind) /\ wire'[m] = After(kind)
    BY <2>1
  <2> QED BY <2>1, <2>3, <2>4, <2>5, <2>6, <2>7
<1>7. ASSUME NEW m \in Monitors, CloseSubscription(m) PROVE LogInv'
  BY <1>7 DEF CloseSubscription
<1>8. CASE CloseMonitors \/ CloseDrain
  BY <1>8 DEF CloseMonitors, CloseDrain
<1>9. ASSUME NEW d \in Drainers, RecvBatch(d) PROVE LogInv'
  BY <1>9 DEF RecvBatch, Pull, Take, Return
<1>10. CASE UNCHANGED vars
  BY <1>10 DEF vars
<1> QED
  BY <1>1, <1>2, <1>3, <1>4, <1>5, <1>6, <1>7, <1>8, <1>9, <1>10, <1>11 DEF Next, Subscribe, Wire

-----------------------------------------------------------------------------
(* Concatenation regroups.                                                 *)
LEMMA Regroup ==
  \A a, b, q \in Seq(Item) : (a \o b) \o q = a \o (b \o q)
<1> SUFFICES ASSUME NEW a \in Seq(Item), NEW b \in Seq(Item), NEW q \in Seq(Item)
             PROVE  (a \o b) \o q = a \o (b \o q)
  OBVIOUS
<1> QED BY ConcatAssociative

(* Everything of m from its first item on, when d is the one drainer.      *)
Whole(d, m) == delivered[m] \o batch[d][m] \o queue[m]

StreamInv(d) == \A m \in Monitors : Tiled(Whole(d, m), log[m])

(* With one drainer, no step disturbs the tiling.                          *)
LEMMA StreamStep ==
  ASSUME NEW d, Drainers = {d}, TypeOK, LogInv, StreamInv(d), [Next]_vars
  PROVE  StreamInv(d)'
<1> USE DEF TypeOK, mapVars, wireVars, queueVars, chanVars, drainVars
<1>0. \A m \in Monitors : /\ delivered[m] \in Seq(Item) /\ batch[d][m] \in Seq(Item)
                          /\ queue[m] \in Seq(Item) /\ log[m] \in Seq(Kinds)
                          /\ delivered[m] \o batch[d][m] \in Seq(Item)
                          /\ Whole(d, m) \in Seq(Item)
  BY ConcatProperties DEF Whole
<1>1. ASSUME log' = log, \A m \in Monitors : Whole(d, m)' = Whole(d, m) PROVE StreamInv(d)'
  <2> SUFFICES ASSUME NEW m \in Monitors PROVE Tiled(Whole(d, m), log[m])'
    BY DEF StreamInv
  <2>1. Tiled(Whole(d, m), log[m])
    BY DEF StreamInv
  <2>2. Whole(d, m)' = Whole(d, m) /\ log'[m] = log[m]
    BY <1>1
  <2> HIDE DEF TypeOK
  <2> QED BY <2>1, <2>2 DEF Tiled, Upto
<1>9. ASSUME UNCHANGED <<log, queue, batch, delivered>> PROVE StreamInv(d)'
  BY <1>1, <1>9 DEF Whole
<1>2. ASSUME NEW m \in Monitors, Register(m) PROVE StreamInv(d)'
  <2> DEFINE x == Single("disconnected", 1)
             a == delivered[m] \o batch[d][m]
  <2>1. log[m] = <<>> /\ Len(log[m]) = 0
    BY <1>2 DEF Register, LogInv
  <2>2. Whole(d, m) = <<>>
    BY <1>0, <2>1, TileEmpty DEF StreamInv
  <2>3. queue[m] = <<>>
    <3>1. Len(Whole(d, m)) = Len(a) + Len(queue[m])
      BY <1>0, ConcatProperties DEF Whole
    <3> QED BY <1>0, <2>2, <3>1
  <2>4. Append(queue[m], x) = <<x>> /\ Append(log[m], "disconnected") = <<"disconnected">>
    BY <2>1, <2>3
  <2>5. x \in Item
    BY DEF Single, Item, Kinds
  <2>6. a \o <<x>> = Append(Whole(d, m), x)
    <3>1. Whole(d, m) = a \o queue[m]
      BY DEF Whole
    <3>2. a \in Seq(Item) /\ queue[m] \in Seq(Item)
      BY <1>0
    <3> HIDE DEF TypeOK, a, x
    <3>3. a \o Append(queue[m], x) = Append(a \o queue[m], x)
      BY <2>5, <3>2, ConcatEnds
    <3> QED BY <2>4, <3>1, <3>3
  <2>7. Tiled(Append(Whole(d, m), x), <<"disconnected">>)
    <3>1. Tiled(Append(Whole(d, m), Single("disconnected", Len(log[m]) + 1)),
                Append(log[m], "disconnected"))
      <4>1. Tiled(Whole(d, m), log[m])
        BY DEF StreamInv
      <4> HIDE DEF TypeOK
      <4> QED BY <1>0, <4>1, TileAppend DEF Kinds
    <3> QED BY <2>1, <2>4, <3>1
  <2>8. /\ queue' = [queue EXCEPT ![m] = <<x>>] /\ log' = [log EXCEPT ![m] = <<"disconnected">>]
        /\ UNCHANGED <<batch, delivered>>
    BY <1>2 DEF Register
  <2> SUFFICES ASSUME NEW j \in Monitors PROVE Tiled(Whole(d, j), log[j])'
    BY DEF StreamInv
  <2>9. CASE j = m
    <3>1. Whole(d, j)' = a \o <<x>> /\ log'[j] = <<"disconnected">>
      BY <2>8, <2>9 DEF Whole
    <3> QED BY <2>6, <2>7, <3>1 DEF Tiled, Upto
  <2>10. CASE j # m
    <3>1. Whole(d, j)' = Whole(d, j) /\ log'[j] = log[j]
      BY <2>8, <2>10 DEF Whole
    <3> QED BY <3>1 DEF Tiled, Upto, StreamInv
  <2> QED BY <2>9, <2>10
<1>3. ASSUME NEW m \in Monitors, NEW kind \in Kinds, Report(m, kind) PROVE StreamInv(d)'
  <2> DEFINE a == delivered[m] \o batch[d][m]
             q == queue[m]
             n == Len(log[m]) + 1
             r == Push(m, q, kind, n)
  <2>1. /\ queue' = [queue EXCEPT ![m] = r] /\ log' = [log EXCEPT ![m] = Append(log[m], kind)]
        /\ UNCHANGED <<batch, delivered>>
    BY <1>3 DEF Report
  <2>2. Tiled(Whole(d, m), log[m]) /\ Whole(d, m) = a \o q
    BY DEF StreamInv, Whole
  <2>3. Tiled(a \o r, Append(log[m], kind))
    <3> HIDE DEF TypeOK, a, q, r
    <3>0. /\ a \in Seq(Item) /\ q \in Seq(Item) /\ log[m] \in Seq(Kinds) /\ n \in Nat
          /\ a \o q \in Seq(Item)
      BY <1>0 DEF a, q, Whole
    <3>1. CASE r = Append(q, Single(kind, n))
      <4>1. Single(kind, n) \in Item
        BY <3>0 DEF Single, Item
      <4>2. a \o r = Append(a \o q, Single(kind, n))
        BY <3>0, <3>1, <4>1, ConcatEnds
      <4>3. Tiled(Append(a \o q, Single(kind, n)), Append(log[m], kind))
        BY <2>2, <3>0, TileAppend
      <4> QED BY <4>2, <4>3
    <3>2. CASE /\ kind = "value" /\ q # <<>> /\ q[Len(q)].kind = "value"
               /\ r = [q EXCEPT ![Len(q)] = Squash(q[Len(q)], n)]
      <4>1. q[Len(q)] \in Item
        BY <3>0, <3>2
      <4>2. Squash(q[Len(q)], n) \in Item
        BY <3>0, <4>1 DEF Squash, Item
      <4>3. /\ a \o q # <<>> /\ (a \o q)[Len(a \o q)] = q[Len(q)]
            /\ a \o r = [a \o q EXCEPT ![Len(a \o q)] = Squash(q[Len(q)], n)]
        BY <3>0, <3>2, <4>2, ConcatEnds
      <4>4. Tiled([a \o q EXCEPT ![Len(a \o q)] = Squash((a \o q)[Len(a \o q)], n)],
                  Append(log[m], "value"))
        BY <2>2, <3>0, <3>2, <4>3, TileSquash
      <4> QED BY <3>2, <4>3, <4>4
    <3> QED BY <3>0, <3>1, <3>2, PushCases DEF r
  <2> HIDE DEF r
  <2> SUFFICES ASSUME NEW j \in Monitors PROVE Tiled(Whole(d, j), log[j])'
    BY DEF StreamInv
  <2>9. CASE j = m
    <3>1. Whole(d, j)' = a \o r /\ log'[j] = Append(log[m], kind)
      BY <2>1, <2>9 DEF Whole
    <3> QED BY <2>3, <3>1 DEF Tiled, Upto
  <2>10. CASE j # m
    <3>1. Whole(d, j)' = Whole(d, j) /\ log'[j] = log[j]
      BY <2>1, <2>10 DEF Whole
    <3> QED BY <3>1 DEF Tiled, Upto, StreamInv
  <2> QED BY <2>9, <2>10
<1>4. ASSUME Take(d) PROVE StreamInv(d)'
  <2>1. CASE Head(hand[d]) \notin subs
    <3>1. UNCHANGED <<log, queue, batch, delivered>>
      BY <1>4, <2>1 DEF Take
    <3> QED BY <1>9, <3>1
  <2>2. ASSUME NEW m \in subs, m = Head(hand[d]) PROVE StreamInv(d)'
    <3>1. /\ batch' = [batch EXCEPT ![d][m] = @ \o queue[m]] /\ queue' = [queue EXCEPT ![m] = <<>>]
          /\ UNCHANGED <<log, delivered>>
      BY <1>4, <2>2 DEF Take, TakeQueue
    <3>2. \A j \in Monitors : j # m => batch'[d][j] = batch[d][j] /\ queue'[j] = queue[j]
      BY <3>1
    <3>3. /\ m \in Monitors /\ batch'[d][m] = batch[d][m] \o queue[m] /\ queue'[m] = <<>>
          /\ delivered'[m] = delivered[m]
      BY <2>2, <3>1
    <3>4. Whole(d, m)' = Whole(d, m)
      <4>0. /\ delivered[m] \in Seq(Item) /\ batch[d][m] \in Seq(Item)
            /\ queue[m] \in Seq(Item) /\ Whole(d, m) \in Seq(Item)
        BY <1>0, <3>3
      <4> HIDE DEF TypeOK
      <4>1. Whole(d, m)' = delivered[m] \o (batch[d][m] \o queue[m]) \o <<>>
        BY <3>3 DEF Whole
      <4>2. delivered[m] \o (batch[d][m] \o queue[m]) = Whole(d, m)
        <5>1. (delivered[m] \o batch[d][m]) \o queue[m]
                = delivered[m] \o (batch[d][m] \o queue[m])
          BY <4>0, Regroup
        <5> QED BY <5>1 DEF Whole
      <4> QED BY <4>0, <4>1, <4>2, ConcatEmptySeq
    <3>5. ASSUME NEW j \in Monitors, j # m PROVE Whole(d, j)' = Whole(d, j)
      BY <3>1, <3>2, <3>5 DEF Whole
    <3> QED BY <1>1, <3>1, <3>4, <3>5
  <2> QED BY <2>1, <2>2
<1>5. ASSUME Return(d) PROVE StreamInv(d)'
  <2>1. /\ delivered' = [m \in Monitors |-> delivered[m] \o batch[d][m]]
        /\ batch'[d] = [m \in Monitors |-> <<>>] /\ UNCHANGED <<log, queue>>
    BY <1>5 DEF Return
  <2>2. ASSUME NEW m \in Monitors PROVE Whole(d, m)' = Whole(d, m)
    <3>1. Whole(d, m)' = (delivered[m] \o batch[d][m]) \o <<>> \o queue[m]
      BY <2>1 DEF Whole
    <3> QED BY <1>0, <3>1, ConcatEmptySeq DEF Whole
  <2> QED BY <1>1, <2>1, <2>2
<1>6. ASSUME NEW m \in Monitors, OpenFails(m) \/ OpenReturns(m) \/ SignalOpen(m) \/ SendOpen(m)
      PROVE  StreamInv(d)'
  BY <1>9, <1>6 DEF OpenFails, OpenReturns, SignalOpen, SendOpen
<1>7. ASSUME NEW m \in Monitors,
             WireStarts(m) \/ WireStops(m) \/ SendPost(m) \/ CloseSubscription(m)
      PROVE  StreamInv(d)'
  BY <1>9, <1>7 DEF WireStarts, WireStops, SendPost, CloseSubscription
<1>8. CASE CloseMonitors \/ CloseDrain \/ Pull(d) \/ UNCHANGED vars
  BY <1>9, <1>8 DEF CloseMonitors, CloseDrain, Pull, vars
<1> QED
  BY <1>2, <1>3, <1>4, <1>5, <1>6, <1>7, <1>8 DEF Next, Subscribe, Wire, RecvBatch

-----------------------------------------------------------------------------
LEMMA LogStart == Init => LogInv
<1> SUFFICES ASSUME Init PROVE LogInv
  OBVIOUS
<1>1. \A m \in Monitors : /\ opener[m] = "new" /\ wire[m] = "none" /\ log[m] = <<>>
                          /\ m \notin control \cup dropped
  BY DEF Init
<1> QED BY <1>1 DEF LogInv

(* Nothing reported is tiled by nothing.                                   *)
LEMMA StreamStart ==
  ASSUME NEW d, Drainers = {d}, Init PROVE StreamInv(d)
<1> SUFFICES ASSUME NEW m \in Monitors PROVE Tiled(Whole(d, m), log[m])
  BY DEF StreamInv
<1>1. delivered[m] = <<>> /\ batch[d][m] = <<>> /\ queue[m] = <<>> /\ log[m] = <<>>
  BY DEF Init
<1>2. Whole(d, m) = <<>>
  BY <1>1 DEF Whole
<1> QED BY <1>1, <1>2 DEF Tiled, Upto

(* With one drainer, tiles are what StreamIntact asks for.                 *)
LEMMA StreamsTile ==
  ASSUME NEW d, Drainers = {d}, TypeOK, StreamInv(d)
  PROVE  StreamIntact
<1>1. (CHOOSE e \in Drainers : TRUE) = d
  OBVIOUS
<1> SUFFICES ASSUME NEW m \in Monitors
             PROVE  /\ Upto(Stream(m), Len(Stream(m))) = Len(log[m])
                    /\ \A i \in DOMAIN Stream(m) :
                         /\ Stream(m)[i].covers = Upto(Stream(m), i - 1) + 1 .. Stream(m)[i].last
                         /\ \A n \in Stream(m)[i].covers : log[m][n] = Stream(m)[i].kind
                         /\ Stream(m)[i].kind # "value" => Cardinality(Stream(m)[i].covers) = 1
  BY DEF StreamIntact, Upto
<1> DEFINE s == Whole(d, m)
<1>2. Stream(m) = s
  BY <1>1 DEF Stream, Whole
<1>3. s \in Seq(Item)
  BY ConcatProperties DEF TypeOK, Whole
<1>4. Tiled(s, log[m])
  BY DEF StreamInv
<1> HIDE DEF s
<1>5. ASSUME NEW i \in DOMAIN s, s[i].kind # "value" PROVE Cardinality(s[i].covers) = 1
  <2>1. Upto(s, i - 1) \in Nat
    BY <1>3, UptoNat
  <2>2. s[i].covers = Upto(s, i - 1) + 1 .. Upto(s, i - 1) + 1
    BY <1>4, <1>5 DEF Tiled
  <2>3. s[i].covers = {Upto(s, i - 1) + 1}
    BY <2>1, <2>2
  <2> QED BY <2>3, FS_Singleton
<1> QED BY <1>2, <1>4, <1>5 DEF Tiled

(* hub.rs: "Each monitor's items in arrival order".  Pushes, squashes and  *)
(* takes lose, reorder and duplicate no event of any monitor, and a merged *)
(* item carries the marks of all it stands for - for the one dispatcher    *)
(* that drains a hub; two drains may overtake each other.                  *)
THEOREM StreamsIntact ==
  ASSUME NEW CONSTANT d, Drainers = {d}
  PROVE  Spec => []StreamIntact
<1> DEFINE Inv == TypeOK /\ LogInv /\ StreamInv(d)
<1>1. Init => LogInv /\ StreamInv(d)
  BY LogStart, StreamStart
<1>2. TypeOK /\ LogInv /\ StreamInv(d) /\ [Next]_vars => LogInv' /\ StreamInv(d)'
  BY LogStep, StreamStep
<1>3. TypeOK /\ StreamInv(d) => StreamIntact
  BY StreamsTile
<1> QED BY <1>1, <1>2, <1>3, TypeCorrect, PTL DEF Spec

-----------------------------------------------------------------------------
(* A part of a tiled stream, from its first item on, is what the promise   *)
(* calls a tiling.                                                         *)
LEMMA PrefixTiles ==
  ASSUME NEW a \in Seq(Item), NEW b \in Seq(Item), NEW l \in Seq(Kinds), Tiled(a \o b, l)
  PROVE  Promise!Tiles(a, l)
<1> DEFINE s == a \o b
<1>1. /\ s \in Seq(Item) /\ Len(s) = Len(a) + Len(b)
      /\ \A i \in 1 .. Len(a) : s[i] = a[i]
  BY ConcatProperties
<1>2. Tiled(s, l)
  OBVIOUS
<1> HIDE DEF s
<1>3. \A i \in 0 .. Len(a) : Upto(a, i) = Upto(s, i)
  BY <1>1 DEF Upto
<1>4. \A i \in DOMAIN a : i \in DOMAIN s /\ i - 1 \in 0 .. Len(a)
  BY <1>1
<1>5. Upto(a, Len(a)) <= Len(l)
  <2>1. CASE Len(a) = 0
    BY <2>1 DEF Upto
  <2>2. CASE Len(a) # 0
    BY <1>1, <1>2, <1>4, <2>2 DEF Upto, Tiled
  <2> QED BY <2>1, <2>2
<1>6. ASSUME NEW i \in DOMAIN a
      PROVE  /\ a[i].last > Upto(a, i - 1) /\ a[i].covers = (Upto(a, i - 1) + 1) .. a[i].last
             /\ \A n \in a[i].covers : l[n] = a[i].kind
             /\ a[i].kind # "value" => a[i].last = Upto(a, i - 1) + 1
  <2>1. a[i] = s[i] /\ Upto(a, i - 1) = Upto(s, i - 1) /\ i \in DOMAIN s
    BY <1>1, <1>3, <1>4
  <2>2. Upto(s, i - 1) \in Nat /\ s[i].last \in Nat
    BY <1>1, <2>1, UptoNat
  <2>3. /\ Upto(s, i - 1) < s[i].last
        /\ s[i].covers = Upto(s, i - 1) + 1 .. s[i].last
        /\ \A n \in s[i].covers : l[n] = s[i].kind
        /\ s[i].kind # "value" => s[i].last = Upto(s, i - 1) + 1
    BY <1>2, <2>1 DEF Tiled
  <2> QED BY <2>1, <2>2, <2>3
<1> QED BY <1>5, <1>6 DEF Promise!Tiles, Upto

(* What was returned stays the start of what is returned.                  *)
LEMMA PrefixKept ==
  ASSUME NEW a \in Seq(Item), NEW b \in Seq(Item)
  PROVE  Len(a) <= Len(a \o b) /\ SubSeq(a \o b, 1, Len(a)) = a
<1>1. /\ a \o b \in Seq(Item) /\ Len(a \o b) = Len(a) + Len(b)
      /\ \A i \in 1 .. Len(a) : (a \o b)[i] = a[i]
  BY ConcatProperties
<1> DEFINE c == SubSeq(a \o b, 1, Len(a))
<1>2. c \in Seq(Item) /\ Len(c) = Len(a) /\ \A i \in 1 .. Len(a) : c[i] = (a \o b)[i]
  BY <1>1, SubSeqProperties
<1> HIDE DEF c
<1>3. c = a
  BY <1>1, <1>2, SeqEqual
<1> QED BY <1>1, <1>3 DEF c

(* Every step of the hub is a step of the promise, or none of it.          *)
LEMMA PromiseStep ==
  ASSUME NEW d, Drainers = {d}, TypeOK, LogInv, StreamInv(d), [Next]_vars
  PROVE  [Promise!Next]_(Promise!vars)
<1> USE DEF mapVars, wireVars, queueVars, chanVars, drainVars
<1>1. ASSUME UNCHANGED <<subs, log, delivered>> PROVE UNCHANGED Promise!vars
  BY <1>1 DEF Promise!vars
<1>2. ASSUME NEW m \in Monitors, Register(m) PROVE Promise!Open(m)
  <2>1. log[m] = <<>>
    BY <1>2 DEF Register, LogInv
  <2> QED BY <1>2, <2>1 DEF Register, Promise!Open
<1>3. ASSUME NEW m \in Monitors, NEW kind \in Kinds, Report(m, kind) PROVE Promise!Report(m)
  <2>1. kind \in Reports(wire[m]) /\ wire[m] \in {"down", "up"}
    BY <1>3 DEF Report, Reports
  <2>2. opener[m] # "new" /\ log[m] # <<>>
    BY <2>1 DEF LogInv
  <2>3. /\ wire[m] = "down" => Latest(log[m]) = "disconnected"
        /\ wire[m] = "up" => Latest(log[m]) \in {"connected", "value"}
    BY <2>2 DEF LogInv
  <2>4. kind \in Promise!Follows(log[m][Len(log[m])])
    BY <2>1, <2>3 DEF Reports, Latest, Promise!Follows
  <2>5. log' = [log EXCEPT ![m] = Append(@, kind)] /\ UNCHANGED <<subs, delivered>>
    BY <1>3 DEF Report
  <2> QED BY <2>2, <2>4, <2>5 DEF Promise!Report
<1>4. ASSUME subs' \subseteq subs, UNCHANGED <<log, delivered>>
      PROVE  Promise!Close \/ UNCHANGED Promise!vars
  BY <1>4 DEF Promise!Close, Promise!vars
<1>5. ASSUME NEW m \in Monitors, OpenFails(m) \/ CloseSubscription(m) \/ CloseMonitors
      PROVE  Promise!Close \/ UNCHANGED Promise!vars
  BY <1>4, <1>5 DEF OpenFails, CloseSubscription, CloseMonitors
<1>6. ASSUME Return(d) PROVE Promise!Return \/ UNCHANGED Promise!vars
  <2>1. /\ delivered' = [m \in Monitors |-> delivered[m] \o batch[d][m]]
        /\ UNCHANGED <<subs, log>>
    BY <1>6 DEF Return
  <2>2. ASSUME NEW m \in Monitors
        PROVE  /\ Len(delivered[m]) <= Len(delivered'[m])
               /\ SubSeq(delivered'[m], 1, Len(delivered[m])) = delivered[m]
               /\ Promise!Tiles(delivered'[m], log[m])
    <3>1. /\ delivered[m] \in Seq(Item) /\ batch[d][m] \in Seq(Item)
          /\ queue[m] \in Seq(Item) /\ log[m] \in Seq(Kinds)
      BY DEF TypeOK
    <3>2. delivered[m] \o batch[d][m] \in Seq(Item)
      BY <3>1, ConcatProperties
    <3>3. Tiled((delivered[m] \o batch[d][m]) \o queue[m], log[m])
      BY DEF StreamInv, Whole
    <3>4. Promise!Tiles(delivered[m] \o batch[d][m], log[m])
      BY <3>1, <3>2, <3>3, PrefixTiles
    <3>5. delivered'[m] = delivered[m] \o batch[d][m]
      BY <2>1
    <3> QED BY <3>1, <3>4, <3>5, PrefixKept
  <2>3. DOMAIN delivered' = Monitors
    BY <2>1
  <2> QED BY <2>1, <2>2, <2>3 DEF Promise!Return, Promise!vars
<1>7. ASSUME NEW m \in Monitors,
             OpenReturns(m) \/ SignalOpen(m) \/ SendOpen(m) \/ WireStarts(m) \/ WireStops(m)
               \/ SendPost(m)
      PROVE  UNCHANGED Promise!vars
  BY <1>1, <1>7 DEF OpenReturns, SignalOpen, SendOpen, WireStarts, WireStops, SendPost
<1>8. CASE CloseDrain \/ Pull(d) \/ Take(d) \/ UNCHANGED vars
  <2>1. UNCHANGED Promise!vars
    BY <1>1, <1>8 DEF CloseDrain, Pull, Take, vars
  <2> QED BY <2>1
<1> USE DEF Promise!Next
<1>9. ASSUME NEW m \in Monitors, Subscribe(m) \/ Wire(m) \/ CloseSubscription(m)
      PROVE  [Promise!Next]_(Promise!vars)
  BY <1>2, <1>3, <1>5, <1>7, <1>9 DEF Subscribe, Wire
<1>10. CASE CloseMonitors
  <2>1. Promise!Close \/ UNCHANGED Promise!vars
    BY <1>4, <1>10 DEF CloseMonitors
  <2> QED BY <2>1
<1>11. CASE RecvBatch(d)
  BY <1>6, <1>8, <1>11 DEF RecvBatch
<1> QED BY <1>8, <1>9, <1>10, <1>11 DEF Next

(* The queues, flags and locks of the hub implement the stream that        *)
(* MonitorStream promises to the one dispatcher that drains it.            *)
THEOREM HubKeepsPromise ==
  ASSUME NEW CONSTANT d, Drainers = {d}
  PROVE  Spec => ImplementsStream
<1>1. Init => LogInv /\ StreamInv(d)
  BY LogStart, StreamStart
<1>2. TypeOK /\ LogInv /\ StreamInv(d) /\ [Next]_vars => LogInv' /\ StreamInv(d)'
  BY LogStep, StreamStep
<1>3. Init => Promise!Init
  BY DEF Init, Promise!Init
<1>4. TypeOK /\ LogInv /\ StreamInv(d) /\ [Next]_vars => [Promise!Next]_(Promise!vars)
  BY PromiseStep
<1> QED
  BY <1>1, <1>2, <1>3, <1>4, TypeCorrect, PTL DEF Spec, ImplementsStream, Promise!Spec

-----------------------------------------------------------------------------
(* Counting the values of a queue: one more with a value at the end, none  *)
(* with anything else, and as many after a merge into a tail value.        *)
ValuesAt(q) == {i \in DOMAIN q : q[i].kind = "value"}

(* A queue holds a finite number of values.                                *)
LEMMA ValuesNat ==
  ASSUME NEW q \in Seq(Item)
  PROVE  IsFiniteSet(ValuesAt(q)) /\ Values(q) = Cardinality(ValuesAt(q)) /\ Values(q) \in Nat
<1>1. IsFiniteSet(1 .. Len(q))
  BY FS_Interval
<1>2. ValuesAt(q) \subseteq 1 .. Len(q)
  BY DEF ValuesAt
<1>3. IsFiniteSet(ValuesAt(q))
  BY <1>1, <1>2, FS_Subset
<1>4. Values(q) = Cardinality(ValuesAt(q))
  BY DEF Values, ValuesAt
<1> QED BY <1>3, <1>4, FS_CardinalityType

(* 1..n has n elements.                                                    *)
LEMMA CountUpto ==
  ASSUME NEW n \in Nat PROVE IsFiniteSet(1 .. n) /\ Cardinality(1 .. n) = n
<1>1. Cardinality(1 .. n) = IF 1 > n THEN 0 ELSE n - 1 + 1
  BY FS_Interval
<1>2. IsFiniteSet(1 .. n)
  BY FS_Interval
<1> QED BY <1>1, <1>2

(* A value appended counts, a connection event does not.                   *)
LEMMA ValuesAppend ==
  ASSUME NEW q \in Seq(Item), NEW x \in Item
  PROVE  Values(Append(q, x)) = Values(q) + (IF x.kind = "value" THEN 1 ELSE 0)
<1> DEFINE t == Append(q, x)
<1>1. /\ t \in Seq(Item) /\ Len(t) = Len(q) + 1 /\ t[Len(q) + 1] = x
      /\ \A i \in 1 .. Len(q) : t[i] = q[i]
  BY AppendProperties
<1> HIDE DEF t
<1>2. ValuesAt(t) = ValuesAt(q) \cup (IF x.kind = "value" THEN {Len(q) + 1} ELSE {})
  BY <1>1 DEF ValuesAt
<1>3. Len(q) + 1 \notin ValuesAt(q)
  BY DEF ValuesAt
<1>4. /\ IsFiniteSet(ValuesAt(q)) /\ Values(q) = Cardinality(ValuesAt(q)) /\ Values(q) \in Nat
      /\ Values(t) = Cardinality(ValuesAt(t))
  BY <1>1, ValuesNat
<1>5. CASE x.kind = "value"
  <2>1. ValuesAt(t) = ValuesAt(q) \cup {Len(q) + 1}
    BY <1>2, <1>5
  <2> QED BY <1>3, <1>4, <1>5, <2>1, FS_AddElement DEF t
<1>6. CASE x.kind # "value"
  <2>1. ValuesAt(t) = ValuesAt(q)
    BY <1>2, <1>6
  <2> QED BY <1>4, <1>6, <2>1 DEF t
<1> QED BY <1>5, <1>6

(* A merge into a tail value leaves the count.                             *)
LEMMA ValuesSquash ==
  ASSUME NEW q \in Seq(Item), q # <<>>, q[Len(q)].kind = "value", NEW n \in Nat
  PROVE  Values([q EXCEPT ![Len(q)] = Squash(q[Len(q)], n)]) = Values(q)
<1> DEFINE t == [q EXCEPT ![Len(q)] = Squash(q[Len(q)], n)]
<1>1. q[Len(q)] \in Item /\ Len(q) \in DOMAIN q
  OBVIOUS
<1>2. Squash(q[Len(q)], n).kind = "value"
  BY <1>1 DEF Squash, Item
<1>3. DOMAIN t = DOMAIN q /\ \A i \in DOMAIN q : t[i].kind = q[i].kind
  BY <1>1, <1>2
<1> HIDE DEF t
<1>4. ValuesAt(t) = ValuesAt(q)
  BY <1>3 DEF ValuesAt
<1> QED BY <1>4 DEF Values, ValuesAt, t

(* A queue beyond its limit has as many connection events as it is beyond  *)
(* it, and one to spare when the tail is one.                              *)
Bounded(m, q) ==
  /\ Values(q) <= Limit[m] + (Len(q) - Values(q))
  /\ q # <<>> /\ q[Len(q)].kind # "value" => Values(q) < Limit[m] + (Len(q) - Values(q))

(* push_value keeps a queue within its bound.                              *)
LEMMA PushBounded ==
  ASSUME NEW m \in Monitors, NEW q \in Seq(Item), NEW kind \in Kinds, NEW n \in Nat,
         Bounded(m, q)
  PROVE  Bounded(m, Push(m, q, kind, n))
<1> DEFINE x == Single(kind, n)
<1>0. Values(q) \in Nat /\ Limit[m] \in Nat \ {0} /\ Len(q) \in Nat
  BY ValuesNat, HubAssumption
<1>1. x \in Item /\ x.kind = kind
  BY DEF Single, Item
<1>2. /\ Append(q, x) \in Seq(Item) /\ Len(Append(q, x)) = Len(q) + 1
      /\ Append(q, x)[Len(q) + 1] = x /\ Append(q, x) # <<>>
  BY <1>1, AppendProperties
<1>3. Values(Append(q, x)) = Values(q) + (IF kind = "value" THEN 1 ELSE 0)
  BY <1>1, ValuesAppend
<1>4. CASE kind # "value"
  <2>1. Push(m, q, kind, n) = Append(q, x)
    BY <1>4 DEF Push
  <2> HIDE DEF x
  <2> QED BY <1>0, <1>1, <1>2, <1>3, <1>4, <2>1 DEF Bounded
<1>5. CASE kind = "value" /\ (Values(q) < Limit[m] \/ (q # <<>> /\ q[Len(q)].kind # "value"))
  <2> DEFINE t == Append(q, x)
  <2>1. Push(m, q, kind, n) = t
    BY <1>0, <1>5 DEF Push, PushValue
  <2>2. Values(q) < Limit[m] => Values(q) < Limit[m] + (Len(q) - Values(q))
    <3>1. Values(q) <= Len(q)
      <4>1. IsFiniteSet(1 .. Len(q)) /\ Cardinality(1 .. Len(q)) = Len(q)
        BY <1>0, CountUpto
      <4>2. ValuesAt(q) \subseteq 1 .. Len(q)
        BY DEF ValuesAt
      <4> QED BY <4>1, <4>2, ValuesNat, FS_Subset
    <3> QED BY <1>0, <3>1
  <2>3. Values(q) < Limit[m] + (Len(q) - Values(q))
    BY <1>5, <2>2 DEF Bounded
  <2>4. Values(t) = Values(q) + 1 /\ Len(t) = Len(q) + 1 /\ t[Len(t)].kind = "value"
    BY <1>1, <1>2, <1>3, <1>5
  <2> HIDE DEF t
  <2> QED BY <1>0, <2>1, <2>3, <2>4 DEF Bounded
<1>6. CASE kind = "value" /\ q # <<>> /\ q[Len(q)].kind = "value" /\ Values(q) >= Limit[m]
  <2> DEFINE t == [q EXCEPT ![Len(q)] = Squash(q[Len(q)], n)]
  <2>1. Push(m, q, kind, n) = t
    BY <1>6 DEF Push, PushValue
  <2>2. Values(t) = Values(q)
    BY <1>6, ValuesSquash
  <2>3. Len(t) = Len(q) /\ t[Len(t)].kind = "value"
    <3>1. q[Len(q)] \in Item /\ Len(q) \in DOMAIN q
      BY <1>6
    <3>2. Squash(q[Len(q)], n).kind = "value"
      BY <1>6, <3>1 DEF Squash, Item
    <3>3. Len(t) = Len(q) /\ t[Len(q)] = Squash(q[Len(q)], n)
      BY <3>1
    <3> HIDE DEF t
    <3> QED BY <3>2, <3>3
  <2> HIDE DEF t
  <2> QED BY <2>1, <2>2, <2>3 DEF Bounded
<1>7. CASE q = <<>>
  <2>1. ValuesAt(q) = {}
    BY <1>7 DEF ValuesAt
  <2>2. Values(q) = 0
    BY <2>1, ValuesNat, FS_EmptySet
  <2> QED BY <1>0, <1>4, <1>5, <2>2
<1> QED BY <1>0, <1>4, <1>5, <1>6, <1>7

(* So does emptying it.                                                    *)
LEMMA EmptyBounded == \A m \in Monitors : Bounded(m, <<>>)
<1> SUFFICES ASSUME NEW m \in Monitors PROVE Bounded(m, <<>>)
  OBVIOUS
<1>1. ValuesAt(<<>>) = {} /\ <<>> \in Seq(Item)
  BY DEF ValuesAt
<1>2. Values(<<>>) = 0
  BY <1>1, ValuesNat, FS_EmptySet
<1> QED BY <1>2, HubAssumption DEF Bounded

BoundInv == \A m \in Monitors : Bounded(m, queue[m])

(* No step takes a queue beyond its bound.                                 *)
LEMMA BoundStep == TypeOK /\ BoundInv /\ [Next]_vars => BoundInv'
<1> SUFFICES ASSUME TypeOK, BoundInv, [Next]_vars PROVE BoundInv'
  OBVIOUS
<1> USE DEF mapVars, wireVars, queueVars, chanVars, drainVars
<1>1. ASSUME queue' = queue PROVE BoundInv'
  BY <1>1 DEF BoundInv, Bounded, Values
<1>2. ASSUME NEW m \in Monitors, NEW r, Bounded(m, r), queue' = [queue EXCEPT ![m] = r]
      PROVE  BoundInv'
  <2> SUFFICES ASSUME NEW j \in Monitors PROVE Bounded(j, queue'[j])
    BY DEF BoundInv, Bounded, Values
  <2>1. queue'[j] = IF j = m THEN r ELSE queue[j]
    BY <1>2 DEF TypeOK
  <2> QED BY <1>2, <2>1 DEF BoundInv
<1>3. ASSUME NEW m \in Monitors, Register(m) PROVE BoundInv'
  <2>1. Push(m, <<>>, "disconnected", 1) = <<Single("disconnected", 1)>>
    BY DEF Push
  <2>2. Bounded(m, <<Single("disconnected", 1)>>)
    <3>1. <<>> \in Seq(Item) /\ "disconnected" \in Kinds /\ 1 \in Nat
      BY DEF Kinds
    <3> QED BY <2>1, <3>1, EmptyBounded, PushBounded
  <2> QED BY <1>2, <1>3, <2>2 DEF Register
<1>4. ASSUME NEW m \in Monitors, NEW kind \in Kinds, Report(m, kind) PROVE BoundInv'
  <2> DEFINE r == Push(m, queue[m], kind, Len(log[m]) + 1)
  <2>1. Bounded(m, r)
    <3>1. queue[m] \in Seq(Item) /\ Len(log[m]) + 1 \in Nat /\ Bounded(m, queue[m])
      BY DEF TypeOK, BoundInv
    <3> QED BY <3>1, PushBounded
  <2>2. queue' = [queue EXCEPT ![m] = r]
    BY <1>4 DEF Report
  <2> HIDE DEF r
  <2> QED BY <1>2, <2>1, <2>2
<1>5. ASSUME NEW d \in Drainers, Take(d) PROVE BoundInv'
  <2>1. CASE Head(hand[d]) \in subs
    <3>1. queue' = [queue EXCEPT ![Head(hand[d])] = <<>>] /\ Head(hand[d]) \in Monitors
      BY <1>5, <2>1 DEF Take, TakeQueue, TypeOK
    <3>2. Bounded(Head(hand[d]), <<>>)
      BY <3>1, EmptyBounded
    <3> QED BY <1>2, <3>1, <3>2
  <2>2. CASE Head(hand[d]) \notin subs
    BY <1>1, <1>5, <2>2 DEF Take
  <2> QED BY <2>1, <2>2
<1>6. ASSUME NEW m \in Monitors,
             OpenFails(m) \/ OpenReturns(m) \/ SignalOpen(m) \/ SendOpen(m) \/ WireStarts(m)
               \/ WireStops(m) \/ SendPost(m) \/ CloseSubscription(m)
      PROVE  BoundInv'
  BY <1>1, <1>6 DEF OpenFails, OpenReturns, SignalOpen, SendOpen, WireStarts, WireStops,
                    SendPost, CloseSubscription
<1>7. ASSUME NEW d \in Drainers, Pull(d) \/ Return(d) PROVE BoundInv'
  BY <1>1, <1>7 DEF Pull, Return
<1>8. CASE CloseMonitors \/ CloseDrain \/ UNCHANGED vars
  BY <1>1, <1>8 DEF CloseMonitors, CloseDrain, vars
<1> QED
  BY <1>3, <1>4, <1>5, <1>6, <1>7, <1>8 DEF Next, Subscribe, Wire, RecvBatch

(* hub.rs, push_value: the queue of a monitor holds no more than its limit *)
(* of values, plus one for each connection event queued among them,        *)
(* however many drains take from it.                                       *)
THEOREM QueuesBounded == Spec => []SquashBound
<1>1. Init => BoundInv
  BY EmptyBounded DEF Init, BoundInv
<1>2. BoundInv => SquashBound
  BY DEF BoundInv, Bounded, SquashBound
<1> QED BY <1>1, <1>2, TypeCorrect, BoundStep, PTL DEF Spec
=============================================================================
