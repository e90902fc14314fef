------------------------- MODULE CaServedPV_proofs -------------------------
(***************************************************************************)
(* Theorems about CaServedPV for any entries, names, threads, databases,   *)
(* cells, values and bound, and about the queue its client PUTs go through *)
(* (CaWriteQueue) for any PVs, queues, PUTs, layouts and bound.            *)
(***************************************************************************)
EXTENDS CaServedPV, CaWriteQueue, FiniteSetTheorems, SequenceTheorems, TLAPS

(* What a call carries ...                                                 *)
Carries(k) ==
  /\ k.do \in {"none", "open", "post", "close", "current", "new",
               "set", "get", "install", "remove", "start"}
  /\ k.do \in {"open", "post", "close", "current", "set", "install", "remove"} => k.on \in Entries
  /\ k.do \in {"open", "post", "set", "install"} => k.value \in Values
  /\ k.do \in {"new", "install"} => k.db \in Dbs /\ k.left \in Seq(Entries)
  /\ k.do \in {"new", "start"} \/ (k.do = "install" /\ k.left # <<>>) => k.db \in started

(* ... and what it relies on while it waits for the library: the cell it   *)
(* sets exists and has served its entry only; the entry it installs or     *)
(* removes is its own and as it was.                                       *)
Settable(k) ==
  /\ k.cell \in Cells /\ cell[k.cell] # None
  /\ \A f \in Entries : state[f] = Serving(k.cell) => f = k.on

ReliesOn(t, k) ==
  /\ k.do = "set" => Settable(k)
  /\ k.do \in {"install", "remove"} => mutex[k.on] = t
  /\ k.do = "install" => /\ state[k.on].st # "serving"
                         /\ k.left # <<>> => state[k.on] = Detached(k.value)
  /\ k.do = "remove" => state[k.on].st = "serving"

Calls == \A t \in Threads : Carries(call[t]) /\ ReliesOn(t, call[t])

(* A serving entry is registered, and whatever is registered serves.       *)
Homes ==
  \A e \in Entries : state[e].st = "serving" =>
    /\ reg[e] \in Dbs /\ nameOf[e] \in DOMAIN db[reg[e]]
    /\ db[reg[e]][nameOf[e]] = state[e].cell /\ cell[state[e].cell] # None

Tenants ==
  \A d \in Dbs : \A n \in DOMAIN db[d] :
    \E f \in Entries : state[f] = Serving(db[d][n]) /\ reg[f] = d /\ nameOf[f] = n

OneCell == \A e, f \in Entries : state[e].st = "serving" /\ state[f] = state[e] => e = f

(* The value an entry was last given is where its state says.              *)
Holds(s) == CASE s.st = "closed" -> None
              [] s.st = "detached" -> s.value
              [] OTHER -> cell[s.cell]

Kept == \A e \in Entries : last[e] = Holds(state[e])

Shape ==
  /\ mutex \in [Entries -> Threads \cup {None}]
  /\ DOMAIN db = Dbs /\ DOMAIN call = Threads

IInv ==
  TypeOK /\ Shape /\ Calls /\ Homes /\ Tenants /\ OneCell /\ Kept 

-----------------------------------------------------------------------------
(* The three kinds of state are apart, and each tells what it holds.       *)
LEMMA Kinds3 ==
  /\ Shut.st = "closed"
  /\ \A v : Detached(v).st = "detached" /\ Detached(v).value = v
  /\ \A c : Serving(c).st = "serving" /\ Serving(c).cell = c
BY DEF Shut, Detached, Serving

(* Every entry is in one of them.                                          *)
LEMMA StateKinds ==
  ASSUME TypeOK, NEW e \in Entries
  PROVE  \/ state[e] = Shut
         \/ state[e].value \in Values /\ state[e] = Detached(state[e].value)
         \/ state[e].cell \in Cells /\ state[e] = Serving(state[e].cell)
<1>1. \/ state[e] = Shut
      \/ \E v \in Values : state[e] = Detached(v)
      \/ \E c \in Cells : state[e] = Serving(c)
  BY DEF TypeOK
<1> QED BY <1>1, Kinds3

(* The invariant holds at first.                                           *)
LEMMA CallsInit == Init => IInv
<1> SUFFICES ASSUME Init PROVE IInv
  OBVIOUS
<1>1. \A e \in Entries : state[e] = Shut /\ state[e].st = "closed" /\ last[e] = None
  BY Kinds3 DEF Init
<1>2. TypeOK
  BY <1>1, ServedAssumption DEF Init, TypeOK
<1>3. Shape 
  BY DEF Init, Shape
<1>4. \A t \in Threads : call[t].do = "none"
  BY DEF Init, NoCall
<1>5. Calls
  BY <1>4 DEF Calls, Carries, ReliesOn, Settable
<1>6. Homes /\ OneCell /\ Kept
  BY <1>1 DEF Homes, OneCell, Kept, Holds
<1>7. \A d \in Dbs : DOMAIN db[d] = {}
  BY DEF Init
<1>8. Tenants
  BY <1>7 DEF Tenants
<1> QED BY <1>2, <1>3, <1>5, <1>6, <1>8 DEF IInv

(* A step that only moves a thread from one call to another.               *)
LEMMA CallMoves ==
  ASSUME IInv, NEW t \in Threads, call[t].do \notin {"install", "remove"},
         NEW k, call' = [call EXCEPT ![t] = k], Carries(k)', k.do \notin {"install", "remove"},
         k.do = "set" => Settable(k),
         gil' \in Threads \cup {None}, calls' \in 0 .. MaxCalls,
         started \subseteq started', started' \subseteq Dbs, running' \subseteq started',
         UNCHANGED <<nameOf, mutex, state, reg, db, cell, last>>
  PROVE  IInv'
<1>1. DOMAIN call = Threads
  BY DEF IInv, Shape
<1>2. call'[t] = k /\ \A x \in Threads : x # t => call'[x] = call[x]
  BY <1>1
<1>3. Calls'
  <2> SUFFICES ASSUME NEW x \in Threads PROVE Carries(call[x])' /\ ReliesOn(x, call[x])'
    BY DEF Calls
  <2>1. CASE x = t
    BY <1>2, <2>1 DEF ReliesOn, Settable
  <2>2. CASE x # t
    <3>1. Carries(call[x]) /\ ReliesOn(x, call[x]) /\ call'[x] = call[x]
      BY <1>2, <2>2 DEF IInv, Calls
    <3> QED BY <3>1 DEF Carries, ReliesOn, Settable
  <2> QED BY <2>1, <2>2
<1>4. ASSUME NEW e \in Entries, mutex[e] # None
      PROVE  call'[mutex[e]].do \in {"install", "remove"} /\ call'[mutex[e]].on = e
  <2>1. mutex[e] \in Threads /\ mutex[e] # t
    BY <1>4 DEF IInv, TypeOK, Shape
  <2> QED BY <1>2, <1>4, <2>1 DEF IInv, TypeOK
<1>5. TypeOK'
  BY <1>4 DEF IInv, TypeOK
<1>6. Shape'
  BY <1>1 DEF IInv, Shape
<1>7. Homes' /\ Tenants' /\ OneCell' /\ Kept' 
  BY DEF IInv, Homes, Tenants, OneCell, Kept, Holds
<1> QED BY <1>3, <1>5, <1>6, <1>7 DEF IInv

(* A thread leaves the GIL with the mutex of e and goes to the library.    *)
LEMMA MutexTaken ==
  ASSUME IInv, NEW t \in Threads, call[t].do \notin {"install", "remove"}, NEW e \in Entries,
         mutex[e] = None, NEW k, Outside(t, e, k), Carries(k), k.on = e,
         \/ k.do = "remove" /\ state[e].st = "serving"
         \/ /\ k.do = "install" /\ state[e].st # "serving"
            /\ k.left # <<>> => state[e] = Detached(k.value)
  PROVE  IInv'
<1>1. DOMAIN call = Threads /\ DOMAIN mutex = Entries
  BY DEF IInv, Shape
<1>2. /\ call' = [call EXCEPT ![t] = k] /\ mutex' = [mutex EXCEPT ![e] = t] /\ gil' = None
      /\ UNCHANGED <<nameOf, running, started, state, reg, db, cell, last, calls>>
  BY DEF Outside, servers
<1>3. call'[t] = k /\ \A x \in Threads : x # t => call'[x] = call[x]
  BY <1>1, <1>2
<1>4. mutex'[e] = t /\ \A f \in Entries : f # e => mutex'[f] = mutex[f]
  BY <1>1, <1>2
<1>5. Calls'
  <2> SUFFICES ASSUME NEW x \in Threads PROVE Carries(call[x])' /\ ReliesOn(x, call[x])'
    BY DEF Calls
  <2>1. CASE x = t
    BY <1>2, <1>3, <1>4, <2>1 DEF ReliesOn, Carries, Settable
  <2>2. CASE x # t
    <3>1. Carries(call[x]) /\ ReliesOn(x, call[x]) /\ call'[x] = call[x]
      BY <1>3, <2>2 DEF IInv, Calls
    <3>2. call[x].do \in {"install", "remove"} => call[x].on # e /\ call[x].on \in Entries
      <4>1. x # None
        BY ServedAssumption
      <4> QED BY <3>1, <4>1 DEF ReliesOn, Carries, Settable
    <3>3. call[x].do \in {"install", "remove"} => mutex'[call[x].on] = x
      BY <1>4, <3>1, <3>2 DEF ReliesOn, Settable
    <3> QED BY <1>2, <3>1, <3>3 DEF Carries, ReliesOn, Settable
  <2> QED BY <2>1, <2>2
<1>6. ASSUME NEW f \in Entries, mutex'[f] # None
      PROVE  call'[mutex'[f]].do \in {"install", "remove"} /\ call'[mutex'[f]].on = f
  <2>1. CASE f = e
    BY <1>3, <1>4, <2>1
  <2>2. CASE f # e
    <3>1. mutex'[f] = mutex[f] /\ mutex[f] \in Threads
      BY <1>4, <1>6, <2>2 DEF IInv, Shape
    <3>2. call[mutex[f]].do \in {"install", "remove"} /\ call[mutex[f]].on = f
      BY <1>6, <3>1 DEF IInv, TypeOK
    <3> QED BY <1>3, <3>1, <3>2
  <2> QED BY <2>1, <2>2
<1>7. TypeOK'
  BY <1>2, <1>6 DEF IInv, TypeOK
<1>8. Shape'
  BY <1>1, <1>2 DEF IInv, Shape
<1>9. Homes' /\ Tenants' /\ OneCell' /\ Kept' 
  BY <1>2 DEF IInv, Homes, Tenants, OneCell, Kept, Holds
<1> QED BY <1>5, <1>7, <1>8, <1>9 DEF IInv

-----------------------------------------------------------------------------
(* A method that is over at once gives an entry that serves no cell a      *)
(* value or none, or leaves it alone.                                      *)
LEMMA InstantStep ==
  ASSUME IInv, NEW t \in Threads, call[t].do \notin {"install", "remove"}, NEW e \in Entries,
         mutex[e] = None, NEW s, NEW v, Instant(t, e, s, v),
         \/ s = state[e] /\ v = last[e]
         \/ state[e].st # "serving" /\ s = Shut /\ v = None
         \/ state[e].st # "serving" /\ s = Detached(v) /\ v \in Values
  PROVE  IInv'
<1>0. NoCall.do = "none" /\ Carries(NoCall)'
  BY DEF NoCall, Carries
<1>1. /\ gil' = None /\ call' = [call EXCEPT ![t] = NoCall]
      /\ state' = [state EXCEPT ![e] = s] /\ last' = [last EXCEPT ![e] = v]
      /\ UNCHANGED <<nameOf, running, started, mutex, reg, db, cell, calls>>
  BY DEF Instant, Return, servers
<1>2. state \in [Entries -> {Shut} \cup {Detached(w) : w \in Values} \cup {Serving(c) : c \in Cells}]
      /\ last \in [Entries -> Values \cup {None}] /\ DOMAIN call = Threads
      /\ calls \in 0 .. MaxCalls /\ started \subseteq Dbs /\ running \subseteq started
  BY DEF IInv, TypeOK, Shape
<1>3. CASE s = state[e] /\ v = last[e]
  <2>1. state' = state /\ last' = last
    BY <1>1, <1>2, <1>3
  <2> QED BY <1>0, <1>1, <1>2, <2>1, CallMoves
<1>4. CASE /\ state[e].st # "serving"
           /\ (s = Shut /\ v = None) \/ (s = Detached(v) /\ v \in Values)
  <2>1. /\ state'[e] = s /\ last'[e] = v
        /\ \A f \in Entries : f # e => state'[f] = state[f] /\ last'[f] = last[f]
    BY <1>1, <1>2
  <2>2. s.st # "serving" /\ v = Holds(s)
    BY <1>4, Kinds3 DEF Holds
  <2>3. state' \in [Entries -> {Shut} \cup {Detached(w) : w \in Values} \cup {Serving(c) : c \in Cells}]
        /\ last' \in [Entries -> Values \cup {None}]
    BY <1>1, <1>2, <1>4
  <2>4. call'[t] = NoCall /\ \A x \in Threads : x # t => call'[x] = call[x]
    BY <1>1, <1>2
  <2>5. Calls'
    <3> SUFFICES ASSUME NEW x \in Threads PROVE Carries(call[x])' /\ ReliesOn(x, call[x])'
      BY DEF Calls
    <3>1. CASE x = t
      BY <1>0, <2>4, <3>1 DEF ReliesOn
    <3>2. CASE x # t
      <4>1. Carries(call[x]) /\ ReliesOn(x, call[x]) /\ call'[x] = call[x]
        BY <2>4, <3>2 DEF IInv, Calls
      <4>2. call[x].do \in {"install", "remove"} => call[x].on # e /\ call[x].on \in Entries
        <5>1. x # None
          BY ServedAssumption
        <5> QED BY <4>1, <5>1 DEF ReliesOn, Carries
      <4>3. call[x].do = "set" => Settable(call[x])'
        <5>1. \A c : s # Serving(c)
          BY <2>2, Kinds3
        <5> QED BY <1>1, <2>1, <4>1, <5>1 DEF ReliesOn, Settable
      <4>4. Carries(call[x])'
        BY <1>1, <4>1 DEF Carries
      <4>5. ReliesOn(x, call[x])'
        BY <1>1, <2>1, <4>1, <4>2, <4>3 DEF ReliesOn
      <4> QED BY <4>4, <4>5
    <3> QED BY <3>1, <3>2
  <2>6. ASSUME NEW f \in Entries, mutex[f] # None
        PROVE  call'[mutex[f]].do \in {"install", "remove"} /\ call'[mutex[f]].on = f
    <3>1. mutex[f] \in Threads /\ mutex[f] # t
      BY <2>6 DEF IInv, TypeOK, Shape
    <3> QED BY <2>4, <2>6, <3>1 DEF IInv, TypeOK
  <2>7. TypeOK'
    BY <1>1, <2>3, <2>6 DEF IInv, TypeOK
  <2>8. Shape'
    BY <1>1, <1>2 DEF IInv, Shape
  <2>9. Homes'
    BY <1>1, <2>1, <2>2 DEF IInv, Homes
  <2>10. Tenants'
    <3> SUFFICES ASSUME NEW d \in Dbs, NEW n \in DOMAIN db[d]
                 PROVE  \E f \in Entries : state'[f] = Serving(db[d][n]) /\ reg[f] = d /\ nameOf[f] = n
      BY <1>1 DEF Tenants
    <3>1. PICK f \in Entries : state[f] = Serving(db[d][n]) /\ reg[f] = d /\ nameOf[f] = n
      BY DEF IInv, Tenants
    <3>2. f # e
      BY <1>4, <3>1, Kinds3
    <3> QED BY <2>1, <3>1, <3>2
  <2>11. OneCell'
    BY <2>1, <2>2 DEF IInv, OneCell
  <2>12. Kept'
    <3>1. \A f \in Entries : last'[f] = Holds(state'[f])
      <4>1. \A f \in Entries : last[f] = Holds(state[f])
        BY DEF IInv, Kept
      <4> QED BY <2>1, <2>2, <4>1
    <3> QED BY <1>1, <3>1 DEF Kept, Holds
  <2> QED BY <2>5, <2>7, <2>8, <2>9, <2>10, <2>11, <2>12 DEF IInv
<1> QED BY <1>3, <1>4

(* The value goes to the cell the entry had; nobody else serves it.        *)
LEMMA SetStep ==
  ASSUME IInv, NEW t \in Threads, SetCell(t) PROVE IInv'
<1> DEFINE e == call[t].on
           c == call[t].cell
           v == call[t].value
<1>1. /\ call[t].do = "set" /\ gil' = None /\ call' = [call EXCEPT ![t] = NoCall]
      /\ cell' = [cell EXCEPT ![c] = v]
      /\ last' = IF state[e] = Serving(c) THEN [last EXCEPT ![e] = v] ELSE last
      /\ UNCHANGED <<nameOf, running, started, mutex, state, reg, db, calls>>
  BY DEF SetCell, Back, Return, servers
<1>2. /\ e \in Entries /\ v \in Values /\ c \in Cells /\ cell[c] # None
      /\ \A f \in Entries : state[f] = Serving(c) => f = e
  BY <1>1 DEF IInv, Calls, Carries, ReliesOn, Settable
<1> HIDE DEF e, c, v
<1>3. /\ cell \in [Cells -> Values \cup {None}] /\ last \in [Entries -> Values \cup {None}]
      /\ DOMAIN call = Threads
  BY DEF IInv, TypeOK, Shape
<1>4. /\ cell'[c] = v /\ v # None /\ \A x \in Cells : x # c => cell'[x] = cell[x]
      /\ cell' \in [Cells -> Values \cup {None}]
  BY <1>1, <1>2, <1>3, ServedAssumption
<1>5. \A x \in Cells : cell[x] # None => cell'[x] # None
  BY <1>4
<1>6. call'[t] = NoCall /\ \A x \in Threads : x # t => call'[x] = call[x]
  BY <1>1, <1>3
<1>7. Calls'
  <2> SUFFICES ASSUME NEW x \in Threads PROVE Carries(call[x])' /\ ReliesOn(x, call[x])'
    BY DEF Calls
  <2>1. CASE x = t
    BY <1>6, <2>1 DEF ReliesOn, Carries, NoCall
  <2>2. CASE x # t
    <3>1. Carries(call[x]) /\ ReliesOn(x, call[x]) /\ call'[x] = call[x]
      BY <1>6, <2>2 DEF IInv, Calls
    <3> QED BY <1>1, <1>5, <3>1 DEF Carries, ReliesOn, Settable
  <2> QED BY <2>1, <2>2
<1>8. ASSUME NEW f \in Entries, mutex[f] # None
      PROVE  call'[mutex[f]].do \in {"install", "remove"} /\ call'[mutex[f]].on = f
  <2>1. mutex[f] \in Threads /\ mutex[f] # t
    BY <1>1, <1>8 DEF IInv, TypeOK, Shape
  <2> QED BY <1>6, <1>8, <2>1 DEF IInv, TypeOK
<1>9. last' \in [Entries -> Values \cup {None}]
  BY <1>1, <1>2, <1>3
<1>10. TypeOK'
  BY <1>1, <1>4, <1>8, <1>9 DEF IInv, TypeOK
<1>11. Shape'
  BY <1>1, <1>3 DEF IInv, Shape
<1>12. Homes'
  <2>1. \A f \in Entries : state[f].st = "serving" => state[f].cell \in Cells
    BY StateKinds, Kinds3 DEF IInv
  <2> QED BY <1>1, <1>5, <2>1 DEF IInv, Homes
<1>13. Tenants' /\ OneCell' 
  BY <1>1 DEF IInv, Tenants, OneCell
<1>14. Kept'
  <2> SUFFICES ASSUME NEW f \in Entries PROVE last'[f] = Holds(state[f])'
    BY <1>1 DEF Kept
  <2>1. last[f] = Holds(state[f])
    BY DEF IInv, Kept
  <2>2. CASE state[f] = Serving(c)
    <3>1. f = e /\ last'[f] = v
      BY <1>1, <1>2, <1>3, <2>2
    <3> QED BY <1>1, <1>4, <2>2, <3>1, Kinds3 DEF Holds
  <2>3. CASE state[f] # Serving(c)
    <3>1. last'[f] = last[f]
      BY <1>1, <1>2, <1>3, <2>3
    <3>2. TypeOK
      BY DEF IInv
    <3>3. CASE state[f] = Shut \/ state[f] = Detached(state[f].value)
      BY <1>1, <2>1, <3>1, <3>3, Kinds3 DEF Holds
    <3>4. CASE state[f].cell \in Cells /\ state[f] = Serving(state[f].cell)
      <4>1. state[f].cell # c /\ state[f].st = "serving"
        BY <2>3, <3>4, Kinds3
      <4> QED BY <1>1, <1>4, <2>1, <3>1, <3>4, <4>1 DEF Holds
    <3> QED BY <3>2, <3>3, <3>4, StateKinds
  <2> QED BY <2>2, <2>3
<1> QED BY <1>7, <1>10, <1>11, <1>12, <1>13, <1>14 DEF IInv

-----------------------------------------------------------------------------
(* A thread back from the library with an entry's mutex gives it up.       *)
MutexGiven(t, e, k) ==
  /\ call[t].do \in {"install", "remove"} /\ call[t].on = e
  /\ call' = [call EXCEPT ![t] = k] /\ mutex' = [mutex EXCEPT ![e] = None]
  /\ k.do \notin {"set", "install", "remove"} /\ Carries(k)'

(* Whoever keeps another mutex is not disturbed.                           *)
LEMMA MutexAfter ==
  ASSUME IInv, NEW t \in Threads, NEW e \in Entries, NEW k, MutexGiven(t, e, k)
  PROVE  /\ mutex[e] = t
         /\ Shape => mutex' \in [Entries -> Threads \cup {None}] /\ DOMAIN call' = Threads
         /\ \A f \in Entries : mutex'[f] # None =>
              /\ call'[mutex'[f]].do \in {"install", "remove"}
              /\ call'[mutex'[f]].on = f
         /\ call'[t] = k
         /\ \A x \in Threads : x # t =>
              /\ call'[x] = call[x] /\ Carries(call[x]) /\ ReliesOn(x, call[x])
              /\ call[x].do \in {"install", "remove"} =>
                   call[x].on \in Entries /\ call[x].on # e /\ mutex'[call[x].on] = x
<1>1. mutex[e] = t
  BY DEF IInv, Calls, ReliesOn, MutexGiven
<1>2. mutex \in [Entries -> Threads \cup {None}] /\ DOMAIN call = Threads
  BY DEF IInv, Shape
<1>3. mutex'[e] = None /\ \A f \in Entries : f # e => mutex'[f] = mutex[f]
  BY <1>2 DEF MutexGiven
<1>4. call'[t] = k /\ \A x \in Threads : x # t => call'[x] = call[x]
  BY <1>2 DEF MutexGiven
<1>5. mutex' \in [Entries -> Threads \cup {None}] /\ DOMAIN call' = Threads
  BY <1>2 DEF MutexGiven
<1>6. ASSUME NEW f \in Entries, mutex'[f] # None
      PROVE  call'[mutex'[f]].do \in {"install", "remove"} /\ call'[mutex'[f]].on = f
  <2>1. f # e /\ mutex'[f] = mutex[f] /\ mutex[f] \in Threads /\ mutex[f] # None
    BY <1>2, <1>3, <1>6
  <2>2. call[mutex[f]].do \in {"install", "remove"} /\ call[mutex[f]].on = f
    BY <2>1 DEF IInv, TypeOK
  <2>3. mutex[f] # t
    BY <2>1, <2>2 DEF MutexGiven
  <2> QED BY <1>4, <2>1, <2>2, <2>3
<1>7. ASSUME NEW x \in Threads, x # t
      PROVE  /\ call'[x] = call[x] /\ Carries(call[x]) /\ ReliesOn(x, call[x])
             /\ call[x].do \in {"install", "remove"} =>
                  call[x].on \in Entries /\ call[x].on # e /\ mutex'[call[x].on] = x
  <2>1. Carries(call[x]) /\ ReliesOn(x, call[x])
    BY DEF IInv, Calls
  <2> QED BY <1>1, <1>3, <1>4, <1>7, <2>1 DEF Carries, ReliesOn
<1> QED BY <1>1, <1>4, <1>5, <1>6, <1>7

(* A refused name leaves the entry as it was.                              *)
LEMMA ClashStep == ASSUME IInv, NEW t \in Threads, Clash(t) PROVE IInv'
<1> DEFINE e == call[t].on
<1>1. /\ call[t].do = "install" /\ call' = [call EXCEPT ![t] = NoCall] /\ gil' = None
      /\ mutex' = [mutex EXCEPT ![e] = None]
      /\ UNCHANGED <<nameOf, running, started, state, reg, db, cell, last, calls>>
  BY DEF Clash, Back, Return, servers
<1>2. e \in Entries
  BY <1>1 DEF IInv, Calls, Carries
<1>3. Carries(NoCall)' /\ NoCall.do = "none"
  BY DEF Carries, NoCall
<1>4. MutexGiven(t, e, NoCall)
  BY <1>1, <1>3 DEF MutexGiven
<1> HIDE DEF e
<1>5. /\ Shape => mutex' \in [Entries -> Threads \cup {None}] /\ DOMAIN call' = Threads
      /\ \A f \in Entries : mutex'[f] # None =>
           /\ call'[mutex'[f]].do \in {"install", "remove"}
           /\ call'[mutex'[f]].on = f
      /\ call'[t] = NoCall
  BY <1>2, <1>4, MutexAfter
<1>6. ASSUME NEW x \in Threads, x # t PROVE Carries(call[x])' /\ ReliesOn(x, call[x])'
  <2>1. /\ call'[x] = call[x] /\ Carries(call[x]) /\ ReliesOn(x, call[x])
        /\ call[x].do \in {"install", "remove"} => mutex'[call[x].on] = x
    BY <1>2, <1>4, <1>6, MutexAfter
  <2> QED BY <1>1, <2>1 DEF Carries, ReliesOn, Settable
<1>7. Calls'
  BY <1>3, <1>5, <1>6 DEF Calls, ReliesOn
<1>8. TypeOK' /\ Shape'
  BY <1>1, <1>5 DEF IInv, TypeOK, Shape
<1>9. Homes' /\ Tenants' /\ OneCell' /\ Kept' 
  BY <1>1 DEF IInv, Homes, Tenants, OneCell, Kept, Holds
<1> QED BY <1>7, <1>8, <1>9 DEF IInv

(* A close takes the name and the value together.                          *)
LEMMA RemoveStep == ASSUME IInv, NEW t \in Threads, RemoveCell(t) PROVE IInv'
<1> DEFINE e == call[t].on
           names == [n \in DOMAIN db[reg[e]] \ {nameOf[e]} |-> db[reg[e]][n]]
<1>1. /\ call[t].do = "remove" /\ call' = [call EXCEPT ![t] = NoCall] /\ gil' = None
      /\ mutex' = [mutex EXCEPT ![e] = None]
      /\ state' = [state EXCEPT ![e] = Shut] /\ last' = [last EXCEPT ![e] = None]
      /\ db' = [db EXCEPT ![reg[e]] = names]
      /\ UNCHANGED <<nameOf, running, started, reg, cell, calls>>
  BY DEF RemoveCell, Back, Return, servers
<1>2. e \in Entries /\ state[e].st = "serving"
  BY <1>1 DEF IInv, Calls, Carries, ReliesOn
<1>3. Carries(NoCall)' /\ NoCall.do = "none"
  BY DEF Carries, NoCall
<1>4. MutexGiven(t, e, NoCall)
  BY <1>1, <1>3 DEF MutexGiven
<1>5. reg[e] \in Dbs /\ nameOf[e] \in DOMAIN db[reg[e]] /\ db[reg[e]][nameOf[e]] = state[e].cell
  BY <1>2 DEF IInv, Homes
<1> HIDE DEF e
<1>6. /\ Shape => mutex' \in [Entries -> Threads \cup {None}] /\ DOMAIN call' = Threads
      /\ \A f \in Entries : mutex'[f] # None =>
           /\ call'[mutex'[f]].do \in {"install", "remove"}
           /\ call'[mutex'[f]].on = f
      /\ call'[t] = NoCall
  BY <1>2, <1>4, MutexAfter
<1>7. /\ state \in [Entries -> {Shut} \cup {Detached(w) : w \in Values} \cup {Serving(c) : c \in Cells}]
      /\ last \in [Entries -> Values \cup {None}] /\ DOMAIN db = Dbs
  BY DEF IInv, TypeOK, Shape
<1>8. /\ state'[e] = Shut /\ last'[e] = None
      /\ \A f \in Entries : f # e => state'[f] = state[f] /\ last'[f] = last[f]
      /\ state' \in [Entries -> {Shut} \cup {Detached(w) : w \in Values} \cup {Serving(c) : c \in Cells}]
      /\ last' \in [Entries -> Values \cup {None}]
  BY <1>1, <1>2, <1>7
<1>9. /\ DOMAIN db' = Dbs
      /\ \A d \in Dbs : d # reg[e] => db'[d] = db[d]
      /\ DOMAIN db'[reg[e]] = DOMAIN db[reg[e]] \ {nameOf[e]}
      /\ \A n \in DOMAIN db[reg[e]] \ {nameOf[e]} : db'[reg[e]][n] = db[reg[e]][n]
  BY <1>1, <1>5, <1>7
<1> HIDE DEF names
<1>10. Shut.st = "closed" /\ \A c : Shut # Serving(c)
  BY Kinds3
<1>11. ASSUME NEW x \in Threads, x # t PROVE Carries(call[x])' /\ ReliesOn(x, call[x])'
  <2>1. /\ call'[x] = call[x] /\ Carries(call[x]) /\ ReliesOn(x, call[x])
        /\ call[x].do \in {"install", "remove"} =>
             mutex'[call[x].on] = x /\ call[x].on \in Entries /\ call[x].on # e
    BY <1>2, <1>4, <1>11, MutexAfter
  <2>2. Carries(call[x])'
    BY <1>1, <2>1 DEF Carries
  <2>3. call[x].do = "set" => Settable(call[x])'
    BY <1>1, <1>8, <1>10, <2>1 DEF ReliesOn, Settable
  <2> QED BY <1>8, <2>1, <2>2, <2>3 DEF ReliesOn
<1>12. Calls'
  BY <1>3, <1>6, <1>11 DEF Calls, ReliesOn
<1>13. \A d \in Dbs : \A n \in DOMAIN db'[d] :
         n \in DOMAIN db[d] /\ db'[d][n] = db[d][n] /\ (d = reg[e] => n # nameOf[e])
  BY <1>9
<1>14. TypeOK'
  BY <1>1, <1>6, <1>8, <1>13 DEF IInv, TypeOK
<1>15. Shape'
  BY <1>1, <1>6, <1>9 DEF IInv, Shape
<1>16. Homes'
  <2> SUFFICES ASSUME NEW f \in Entries, state'[f].st = "serving"
               PROVE  /\ reg[f] \in Dbs /\ nameOf[f] \in DOMAIN db'[reg[f]]
                      /\ db'[reg[f]][nameOf[f]] = state'[f].cell /\ cell[state'[f].cell] # None
    BY <1>1 DEF Homes
  <2>1. f # e /\ state'[f] = state[f] /\ state[f].st = "serving"
    BY <1>8, <1>10
  <2>2. /\ reg[f] \in Dbs /\ nameOf[f] \in DOMAIN db[reg[f]]
        /\ db[reg[f]][nameOf[f]] = state[f].cell /\ cell[state[f].cell] # None
    BY <2>1 DEF IInv, Homes
  <2>3. ~(reg[f] = reg[e] /\ nameOf[f] = nameOf[e])
    <3>1. ASSUME reg[f] = reg[e], nameOf[f] = nameOf[e] PROVE FALSE
      <4>1. state[f].cell = state[e].cell
        BY <1>5, <2>2, <3>1
      <4>2. state[f] = Serving(state[f].cell) /\ state[e] = Serving(state[e].cell)
        BY <1>2, <2>1, StateKinds, Kinds3 DEF IInv
      <4>3. state[f] = state[e]
        BY <4>1, <4>2
      <4> QED BY <1>2, <2>1, <4>3 DEF IInv, OneCell
    <3> QED BY <3>1
  <2>4. nameOf[f] \in DOMAIN db'[reg[f]] /\ db'[reg[f]][nameOf[f]] = db[reg[f]][nameOf[f]]
    BY <1>9, <2>2, <2>3
  <2> QED BY <2>1, <2>2, <2>4
<1>17. Tenants'
  <2> SUFFICES ASSUME NEW d \in Dbs, NEW n \in DOMAIN db'[d]
               PROVE  \E f \in Entries : state'[f] = Serving(db'[d][n]) /\ reg[f] = d /\ nameOf[f] = n
    BY <1>1 DEF Tenants
  <2>1. n \in DOMAIN db[d] /\ db'[d][n] = db[d][n] /\ (d = reg[e] => n # nameOf[e])
    BY <1>13
  <2>2. PICK f \in Entries : state[f] = Serving(db[d][n]) /\ reg[f] = d /\ nameOf[f] = n
    BY <2>1 DEF IInv, Tenants
  <2>3. f # e
    BY <2>1, <2>2
  <2> QED BY <1>8, <2>1, <2>2, <2>3
<1>18. OneCell'
  BY <1>8, <1>10 DEF IInv, OneCell
<1>19. Kept'
  <2>1. \A f \in Entries : last[f] = Holds(state[f])
    BY DEF IInv, Kept
  <2>2. Holds(Shut) = None
    BY <1>10 DEF Holds
  <2>3. \A f \in Entries : last'[f] = Holds(state'[f])
    BY <1>8, <2>1, <2>2
  <2> QED BY <1>1, <2>3 DEF Kept, Holds
<1> QED BY <1>12, <1>14, <1>15, <1>16, <1>17, <1>18, <1>19 DEF IInv

(* The new cell serves the entry whose mutex was kept, and nobody else.    *)
LEMMA InstallStep ==
  ASSUME IInv, NEW t \in Threads, NEW c \in Cells, InstallCell(t, c),
         NEW e, NEW d, NEW v, NEW left,
         e = call[t].on, d = call[t].db, v = call[t].value, left = call[t].left
  PROVE  IInv'
<1> DEFINE rest == [do |-> "new", db |-> d, left |-> Tail(left)]
           names == [n \in DOMAIN db[d] \cup {nameOf[e]} |-> IF n = nameOf[e] THEN c ELSE db[d][n]]
           k == IF left # <<>> THEN rest ELSE NoCall
           was == IF left # <<>> THEN last ELSE [last EXCEPT ![e] = v]
<1>1. /\ call[t].do = "install" /\ call' = [call EXCEPT ![t] = k]
      /\ gil' = IF left # <<>> THEN t ELSE None
      /\ nameOf[e] \notin DOMAIN db[d] /\ cell[c] = None
      /\ mutex' = [mutex EXCEPT ![e] = None]
      /\ state' = [state EXCEPT ![e] = Serving(c)] /\ reg' = [reg EXCEPT ![e] = d]
      /\ cell' = [cell EXCEPT ![c] = v]
      /\ db' = [db EXCEPT ![d] = names] /\ last' = was
      /\ UNCHANGED <<nameOf, running, started, calls>>
  BY DEF InstallCell, Back, Return, servers
<1>2. /\ e \in Entries /\ d \in Dbs /\ v \in Values /\ left \in Seq(Entries)
      /\ left # <<>> => d \in started /\ state[e] = Detached(v)
      /\ state[e].st # "serving"
  BY <1>1 DEF IInv, Calls, Carries, ReliesOn
<1>3. Carries(k)' /\ k.do \in {"none", "new"}
  <2>1. CASE left # <<>>
    <3>1. Tail(left) \in Seq(Entries)
      BY <1>2, <2>1
    <3>2. rest.do = "new" /\ rest.db = d /\ rest.left = Tail(left) /\ k = rest
      BY <2>1
    <3>3. d \in Dbs /\ d \in started' /\ started' = started
      BY <1>1, <1>2, <2>1
    <3> HIDE DEF k, rest
    <3>4. Carries(rest)'
      BY <3>1, <3>2, <3>3 DEF Carries
    <3> QED BY <3>2, <3>4
  <2>2. CASE left = <<>>
    <3>1. k = NoCall
      BY <2>2
    <3> HIDE DEF k
    <3> QED BY <3>1 DEF Carries, NoCall
  <2> QED BY <2>1, <2>2
<1>4. MutexGiven(t, e, k)
  BY <1>1, <1>3 DEF MutexGiven
<1>5. last \in [Entries -> Values \cup {None}] /\ last[e] = Holds(state[e])
  BY <1>2 DEF IInv, TypeOK, Kept
<1>6. was \in [Entries -> Values \cup {None}] /\ was[e] = v /\ \A f \in Entries : f # e => was[f] = last[f]
  <2>1. CASE left # <<>>
    BY <1>2, <1>5, <2>1, Kinds3 DEF Holds
  <2>2. CASE left = <<>>
    BY <1>2, <1>5, <2>2
  <2> QED BY <2>1, <2>2
<1> HIDE DEF k, was
<1>7. /\ Shape => mutex' \in [Entries -> Threads \cup {None}] /\ DOMAIN call' = Threads
      /\ \A f \in Entries : mutex'[f] # None =>
           /\ call'[mutex'[f]].do \in {"install", "remove"}
           /\ call'[mutex'[f]].on = f
      /\ call'[t] = k
  BY <1>2, <1>4, MutexAfter
<1>8. /\ state \in [Entries -> {Shut} \cup {Detached(w) : w \in Values} \cup {Serving(x) : x \in Cells}]
      /\ DOMAIN db = Dbs /\ reg \in [Entries -> Dbs \cup {None}]
      /\ cell \in [Cells -> Values \cup {None}]
  BY DEF IInv, TypeOK, Shape
<1>9. /\ state'[e] = Serving(c) /\ reg'[e] = d
      /\ \A f \in Entries : f # e => state'[f] = state[f] /\ reg'[f] = reg[f]
      /\ state' \in [Entries -> {Shut} \cup {Detached(w) : w \in Values} \cup {Serving(x) : x \in Cells}]
      /\ reg' \in [Entries -> Dbs \cup {None}]
  BY <1>1, <1>2, <1>8
<1>10. /\ cell'[c] = v /\ v # None /\ \A x \in Cells : x # c => cell'[x] = cell[x]
       /\ cell' \in [Cells -> Values \cup {None}]
  BY <1>1, <1>2, <1>8, ServedAssumption
<1>11. /\ DOMAIN db' = Dbs
       /\ \A q \in Dbs : q # d => db'[q] = db[q]
       /\ DOMAIN db'[d] = DOMAIN db[d] \cup {nameOf[e]} /\ db'[d][nameOf[e]] = c
       /\ \A n \in DOMAIN db[d] : db'[d][n] = db[d][n]
  BY <1>1, <1>2, <1>8
<1> HIDE DEF names
<1>12. Serving(c).st = "serving" /\ Serving(c).cell = c
  BY Kinds3
<1>13. \A f \in Entries : state[f].st = "serving" =>
         /\ state[f].cell \in Cells /\ state[f] = Serving(state[f].cell)
         /\ cell[state[f].cell] # None /\ state[f].cell # c
  <2>1. \A f \in Entries : state[f].st = "serving" => cell[state[f].cell] # None
    BY DEF IInv, Homes
  <2>2. \A f \in Entries : state[f].st = "serving" =>
          state[f].cell \in Cells /\ state[f] = Serving(state[f].cell)
    BY StateKinds, Kinds3 DEF IInv
  <2> QED BY <1>1, <2>1, <2>2
<1>14. ASSUME NEW x \in Threads, x # t PROVE Carries(call[x])' /\ ReliesOn(x, call[x])'
  <2>1. /\ call'[x] = call[x] /\ Carries(call[x]) /\ ReliesOn(x, call[x])
        /\ call[x].do \in {"install", "remove"} =>
             mutex'[call[x].on] = x /\ call[x].on \in Entries /\ call[x].on # e
    BY <1>2, <1>4, <1>14, MutexAfter
  <2>2. Carries(call[x])'
    BY <1>1, <2>1 DEF Carries
  <2>3. ASSUME call[x].do = "set" PROVE Settable(call[x])'
    <3>1. Settable(call[x])
      BY <2>1, <2>3 DEF ReliesOn
    <3>2. call[x].cell # c /\ call[x].cell \in Cells
      BY <1>1, <3>1 DEF Settable
    <3>3. cell'[call[x].cell] # None
      BY <1>10, <3>1, <3>2 DEF Settable
    <3>4. \A f \in Entries : state'[f] = Serving(call[x].cell) => f = call[x].on
      <4>1. Serving(call[x].cell) # Serving(c)
        BY <3>2, Kinds3
      <4> QED BY <1>9, <3>1, <4>1 DEF Settable
    <3> QED BY <2>1, <3>2, <3>3, <3>4 DEF Settable
  <2> QED BY <1>9, <2>1, <2>2, <2>3 DEF ReliesOn
<1>15. Calls'
  <2>1. call'[t] = k
    BY <1>7
  <2>2. Carries(call[t])' /\ ReliesOn(t, call[t])'
    BY <1>3, <2>1 DEF Carries, ReliesOn
  <2> QED BY <1>14, <2>2 DEF Calls
<1>16. \A q \in Dbs : \A n \in DOMAIN db'[q] :
         \/ q = d /\ n = nameOf[e] /\ db'[q][n] = c
         \/ n \in DOMAIN db[q] /\ db'[q][n] = db[q][n]
  BY <1>11
<1>17. TypeOK'
  <2>1. gil' \in Threads \cup {None}
    BY <1>1
  <2>2. \A q \in Dbs : \A n \in DOMAIN db'[q] : db'[q][n] \in Cells
    BY <1>16 DEF IInv, TypeOK
  <2>3. last' \in [Entries -> Values \cup {None}]
    BY <1>1, <1>6
  <2> QED BY <1>1, <1>7, <1>9, <1>10, <2>1, <2>2, <2>3 DEF IInv, TypeOK
<1>18. Shape'
  BY <1>1, <1>7, <1>11 DEF IInv, Shape
<1>19. Homes'
  <2> SUFFICES ASSUME NEW f \in Entries, state'[f].st = "serving"
               PROVE  /\ reg'[f] \in Dbs /\ nameOf[f] \in DOMAIN db'[reg'[f]]
                      /\ db'[reg'[f]][nameOf[f]] = state'[f].cell /\ cell'[state'[f].cell] # None
    BY <1>1 DEF Homes
  <2>1. CASE f = e
    BY <1>2, <1>9, <1>10, <1>11, <1>12, <2>1
  <2>2. CASE f # e
    <3>1. state'[f] = state[f] /\ reg'[f] = reg[f] /\ state[f].st = "serving"
      BY <1>9, <2>2
    <3>2. /\ reg[f] \in Dbs /\ nameOf[f] \in DOMAIN db[reg[f]]
          /\ db[reg[f]][nameOf[f]] = state[f].cell
      BY <3>1 DEF IInv, Homes
    <3>3. nameOf[f] \in DOMAIN db'[reg[f]] /\ db'[reg[f]][nameOf[f]] = db[reg[f]][nameOf[f]]
      BY <1>11, <3>2
    <3>4. cell'[state[f].cell] # None
      BY <1>10, <1>13, <3>1
    <3> QED BY <3>1, <3>2, <3>3, <3>4
  <2> QED BY <2>1, <2>2
<1>20. Tenants'
  <2> SUFFICES ASSUME NEW q \in Dbs, NEW n \in DOMAIN db'[q]
               PROVE  \E f \in Entries : state'[f] = Serving(db'[q][n]) /\ reg'[f] = q /\ nameOf[f] = n
    BY <1>1 DEF Tenants
  <2>1. CASE q = d /\ n = nameOf[e] /\ db'[q][n] = c
    BY <1>2, <1>9, <2>1
  <2>2. CASE n \in DOMAIN db[q] /\ db'[q][n] = db[q][n]
    <3>1. PICK f \in Entries : state[f] = Serving(db[q][n]) /\ reg[f] = q /\ nameOf[f] = n
      BY <2>2 DEF IInv, Tenants
    <3>2. f # e
      BY <1>2, <3>1, Kinds3
    <3> QED BY <1>9, <2>2, <3>1, <3>2
  <2> QED BY <1>16, <2>1, <2>2
<1>21. OneCell'
  <2> SUFFICES ASSUME NEW f \in Entries, NEW g \in Entries, state'[f].st = "serving",
                      state'[g] = state'[f]
               PROVE  f = g
    BY DEF OneCell
  <2>1. ASSUME NEW h \in Entries, h # e PROVE state'[h] # Serving(c)
    BY <1>9, <1>12, <1>13, <2>1
  <2>2. CASE f = e \/ g = e
    BY <1>9, <2>1, <2>2
  <2>3. CASE f # e /\ g # e
    BY <1>9, <2>3 DEF IInv, OneCell
  <2> QED BY <2>2, <2>3
<1>22. Kept'
  <2> SUFFICES ASSUME NEW f \in Entries PROVE last'[f] = Holds(state[f])'
    BY DEF Kept
  <2>1. CASE f = e
    BY <1>1, <1>6, <1>9, <1>10, <1>12, <2>1 DEF Holds
  <2>2. CASE f # e
    <3>1. last'[f] = last[f] /\ state'[f] = state[f] /\ last[f] = Holds(state[f])
      BY <1>1, <1>6, <1>9, <2>2 DEF IInv, Kept
    <3>2. CASE state[f] = Shut \/ state[f] = Detached(state[f].value)
      BY <3>1, <3>2, Kinds3 DEF Holds
    <3>3. CASE state[f].st = "serving"
      BY <1>10, <1>13, <3>1, <3>3 DEF Holds
    <3> QED BY <3>2, <3>3, StateKinds, Kinds3 DEF IInv
  <2> QED BY <2>1, <2>2
<1> QED BY <1>15, <1>17, <1>18, <1>19, <1>20, <1>21, <1>22 DEF IInv

-----------------------------------------------------------------------------
(* A thread leaves the GIL for work that keeps no mutex.                   *)
LEMMA DetachStep ==
  ASSUME IInv, NEW t \in Threads, call[t].do \notin {"install", "remove"},
         NEW k, Detach(t, k), Carries(k), k.do \notin {"install", "remove"},
         k.do = "set" => Settable(k)
  PROVE  IInv'
<1>1. /\ gil' = None /\ call' = [call EXCEPT ![t] = k]
      /\ UNCHANGED <<nameOf, running, started, mutex, state, reg, db, cell, last, calls>>
  BY DEF Detach, servers
<1>2. Carries(k)'
  BY <1>1 DEF Carries
<1>3. calls \in 0 .. MaxCalls /\ started \subseteq Dbs /\ running \subseteq started
  BY DEF IInv, TypeOK
<1> QED BY <1>1, <1>2, <1>3, CallMoves

(* The set a served entry's open or post goes out with.                    *)
LEMMA SetCarries ==
  ASSUME IInv, NEW e \in Entries, state[e].st = "serving", NEW v \in Values
  PROVE  Carries(Set(e, v)) /\ Settable(Set(e, v)) /\ Set(e, v).do = "set"
<1> DEFINE k == Set(e, v)
<1>1. k.do = "set" /\ k.on = e /\ k.cell = state[e].cell /\ k.value = v
  BY DEF Set
<1> HIDE DEF k
<1>2. k.cell \in Cells /\ state[e] = Serving(k.cell)
  BY <1>1, StateKinds, Kinds3 DEF IInv
<1>3. cell[k.cell] # None
  BY <1>1 DEF IInv, Homes
<1>4. Carries(k)
  BY <1>1 DEF Carries
<1>5. \A f \in Entries : state[f] = Serving(k.cell) => f = e
  BY <1>2 DEF IInv, OneCell
<1>6. Settable(k)
  BY <1>1, <1>2, <1>3, <1>5 DEF Settable
<1> QED BY <1>1, <1>4, <1>6 DEF k

(* A method starts with nothing to rely on.                                *)
LEMMA EnterStep ==
  ASSUME IInv, NEW t \in Threads, NEW c \in Methods, Enter(t, c) PROVE IInv'
<1>1. /\ call[t] = NoCall /\ gil' = t /\ call' = [call EXCEPT ![t] = c]
      /\ calls' = calls + 1 /\ calls < MaxCalls
      /\ started' = IF c.do = "new" THEN started \cup {c.db} ELSE started
      /\ UNCHANGED <<nameOf, mutex, state, reg, db, cell, running, last>>
  BY DEF Enter
<1>2. calls' \in 0 .. MaxCalls /\ started \subseteq Dbs /\ running \subseteq started
  BY <1>1, ServedAssumption DEF IInv, TypeOK
<1>3. call[t].do = "none"
  BY <1>1 DEF NoCall
<1>4. CASE c \in [do : {"open", "post"}, on : Entries, value : Values]
  <2>1. /\ Carries(c)' /\ c.do \in {"open", "post"}
        /\ started' = started
    BY <1>1, <1>4 DEF Carries
  <2> QED BY <1>1, <1>2, <1>3, <2>1, CallMoves
<1>5. CASE c \in [do : {"close", "current"}, on : Entries]
  <2>1. Carries(c)' /\ c.do \in {"close", "current"} /\ started' = started
    BY <1>1, <1>5 DEF Carries
  <2> QED BY <1>1, <1>2, <1>3, <2>1, CallMoves
<1>6. CASE c \in [do : {"new"}, db : Dbs, left : Lists]
  <2>1. c.do = "new" /\ c.db \in Dbs /\ c.left \in Lists
    BY <1>6
  <2>2. c.left \in Seq(Entries)
    <3>1. Cardinality(Entries) \in Nat
      BY ServedAssumption, FS_CardinalityType
    <3>2. PICK n \in 1 .. Cardinality(Entries) : c.left \in [1 .. n -> Entries]
      BY <2>1 DEF Lists
    <3> QED BY <3>1, <3>2
  <2>3. started' = started \cup {c.db}
    BY <1>1, <2>1
  <2>4. Carries(c)'
    BY <2>1, <2>2, <2>3 DEF Carries
  <2> QED BY <1>1, <1>2, <1>3, <2>1, <2>3, <2>4, CallMoves
<1> QED BY <1>4, <1>5, <1>6 DEF Methods

(* The methods that lock one entry.                                        *)
LEMMA LockedStep ==
  ASSUME IInv, NEW t \in Threads, Open(t) \/ Post(t) \/ Close(t) \/ Current(t)
  PROVE  IInv'
<1> SUFFICES ASSUME NEW e, NEW v, e = call[t].on, v = call[t].value PROVE IInv'
  OBVIOUS
<1>1. /\ call[t].do \in {"open", "post", "close", "current"}
      /\ mutex[e] = None
  BY DEF Open, Post, Close, Current, Locked
<1>2. e \in Entries /\ (call[t].do \in {"open", "post"} => v \in Values)
  BY <1>1 DEF IInv, Calls, Carries
<1>3. ASSUME call[t].do \in {"open", "post"}, state[e].st = "serving", Detach(t, Set(e, v))
      PROVE  IInv'
  <2> SUFFICES ASSUME NEW k, k = Set(e, v) PROVE IInv'
    OBVIOUS
  <2>1. Carries(k) /\ Settable(k) /\ k.do = "set" /\ Detach(t, k)
    BY <1>2, <1>3, SetCarries
  <2> QED BY <1>3, <2>1, DetachStep
<1>4. CASE Open(t)
  <2>0. call[t].do = "open"
    BY <1>4 DEF Open, Locked
  <2>1. CASE state[e].st = "serving"
    BY <1>3, <1>4, <2>0, <2>1 DEF Open
  <2>2. CASE state[e].st # "serving" /\ reg[e] # None
    <3> SUFFICES ASSUME NEW k, k = [do |-> "install", on |-> e, db |-> reg[e], value |-> v,
                                    left |-> <<>>]
                 PROVE  IInv'
      OBVIOUS
    <3>1. Outside(t, e, k)
      BY <1>4, <2>2 DEF Open
    <3>2. reg[e] \in Dbs
      BY <1>2, <2>2 DEF IInv, TypeOK
    <3>3. /\ k.do = "install" /\ k.on = e /\ k.db = reg[e] /\ k.value = v /\ k.left = <<>>
          /\ <<>> \in Seq(Entries)
      OBVIOUS
    <3>4. Carries(k)
      BY <1>2, <2>0, <3>2, <3>3 DEF Carries
    <3> QED BY <1>1, <1>2, <2>2, <3>1, <3>3, <3>4, MutexTaken
  <2>3. CASE state[e].st # "serving" /\ reg[e] = None
    <3>1. Instant(t, e, Detached(v), v)
      BY <1>4, <2>3 DEF Open
    <3> QED BY <1>1, <1>2, <2>0, <2>3, <3>1, InstantStep
  <2> QED BY <2>1, <2>2, <2>3
<1>5. CASE Post(t)
  <2>0. call[t].do = "post"
    BY <1>5 DEF Post, Locked
  <2>1. CASE state[e].st = "serving"
    BY <1>3, <1>5, <2>0, <2>1 DEF Post
  <2>2. CASE state[e].st = "detached"
    <3>1. Instant(t, e, Detached(v), v)
      BY <1>5, <2>2 DEF Post
    <3> QED BY <1>1, <1>2, <2>0, <2>2, <3>1, InstantStep
  <2>3. CASE state[e].st \notin {"serving", "detached"}
    <3>1. Instant(t, e, Shut, None)
      BY <1>5, <2>3 DEF Post
    <3> QED BY <1>1, <1>2, <2>3, <3>1, InstantStep
  <2> QED BY <2>1, <2>2, <2>3
<1>6. CASE Close(t)
  <2>1. CASE state[e].st = "serving"
    <3> SUFFICES ASSUME NEW k, k = [do |-> "remove", on |-> e] PROVE IInv'
      OBVIOUS
    <3>1. Outside(t, e, k) /\ k.do = "remove" /\ k.on = e
      BY <1>6, <2>1 DEF Close
    <3>2. Carries(k)
      BY <1>2, <3>1 DEF Carries
    <3> QED BY <1>1, <1>2, <2>1, <3>1, <3>2, MutexTaken
  <2>2. CASE state[e].st # "serving"
    <3>1. Instant(t, e, Shut, None)
      BY <1>6, <2>2 DEF Close
    <3> QED BY <1>1, <1>2, <2>2, <3>1, InstantStep
  <2> QED BY <2>1, <2>2
<1>7. CASE Current(t)
  <2>1. CASE state[e].st = "serving"
    <3> SUFFICES ASSUME NEW k, k = [do |-> "get"] PROVE IInv'
      OBVIOUS
    <3>1. Detach(t, k) /\ k.do = "get"
      BY <1>7, <2>1 DEF Current
    <3>2. Carries(k)
      BY <3>1 DEF Carries
    <3> QED BY <1>1, <3>1, <3>2, DetachStep
  <2>2. CASE state[e].st # "serving"
    <3>1. Instant(t, e, state[e], last[e])
      BY <1>7, <2>2 DEF Current
    <3> QED BY <1>1, <1>2, <3>1, InstantStep
  <2> QED BY <2>1, <2>2
<1> QED BY <1>4, <1>5, <1>6, <1>7

(* A server takes over a detached value with the mutex kept.               *)
LEMMA AdoptStep == ASSUME IInv, NEW t \in Threads, Adopt(t) PROVE IInv'
<1> SUFFICES ASSUME NEW e, NEW left, left = call[t].left, e = Head(left) PROVE IInv'
  OBVIOUS
<1>1. call[t].do = "new" /\ left # <<>> /\ mutex[e] = None
  BY DEF Adopt
<1>2. /\ left \in Seq(Entries) /\ call[t].db \in Dbs /\ call[t].db \in started
  BY <1>1 DEF IInv, Calls, Carries
<1>3. e \in Entries
  BY <1>1, <1>2
<1>4. CASE state[e].st = "detached"
  <2> SUFFICES ASSUME NEW k, k = [do |-> "install", on |-> e, db |-> call[t].db,
                                  value |-> state[e].value, left |-> left]
               PROVE  IInv'
    OBVIOUS
  <2>1. Outside(t, e, k)
    BY <1>4 DEF Adopt
  <2>2. /\ k.do = "install" /\ k.on = e /\ k.db = call[t].db /\ k.value = state[e].value
        /\ k.left = left
    OBVIOUS
  <2>3. state[e].value \in Values /\ state[e] = Detached(state[e].value)
    BY <1>3, <1>4, StateKinds, Kinds3 DEF IInv
  <2>4. Carries(k)
    BY <1>2, <1>3, <2>2, <2>3 DEF Carries
  <2> QED BY <1>1, <1>3, <1>4, <2>1, <2>2, <2>3, <2>4, MutexTaken
<1>5. CASE state[e].st # "detached"
  <2>1. Instant(t, e, state[e], last[e])
    BY <1>5 DEF Adopt
  <2> QED BY <1>1, <1>3, <2>1, InstantStep
<1> QED BY <1>4, <1>5

(* Steps of a server that touch no entry.                                  *)
LEMMA ServerStep ==
  ASSUME IInv, NEW t \in Threads,
         StartServer(t) \/ GetCell(t) \/ (\E ok \in BOOLEAN : ServerStarts(t, ok))
  PROVE  IInv'
<1>0. calls \in 0 .. MaxCalls /\ started \subseteq Dbs /\ running \subseteq started
  BY DEF IInv, TypeOK
<1>1. CASE StartServer(t)
  <2> SUFFICES ASSUME NEW k, k = [do |-> "start", db |-> call[t].db] PROVE IInv'
    OBVIOUS
  <2>1. Detach(t, k) /\ k.do = "start" /\ k.db = call[t].db /\ call[t].do = "new"
    BY <1>1 DEF StartServer
  <2>2. Carries(k)
    BY <2>1 DEF IInv, Calls, Carries
  <2> QED BY <2>1, <2>2, DetachStep
<1>2. NoCall.do = "none" /\ Carries(NoCall)'
  BY DEF Carries, NoCall
<1>3. CASE GetCell(t)
  <2>1. /\ call[t].do = "get" /\ gil' = None /\ call' = [call EXCEPT ![t] = NoCall]
        /\ UNCHANGED <<nameOf, running, started, mutex, state, reg, db, cell, last, calls>>
    BY <1>3 DEF GetCell, Back, Return, servers
  <2> QED BY <1>0, <1>2, <2>1, CallMoves
<1>4. ASSUME NEW ok \in BOOLEAN, ServerStarts(t, ok) PROVE IInv'
  <2>1. /\ call[t].do = "start" /\ gil' = None /\ call' = [call EXCEPT ![t] = NoCall]
        /\ running' \subseteq running \cup {call[t].db}
        /\ UNCHANGED <<nameOf, started, mutex, state, reg, db, cell, last, calls>>
    BY <1>4 DEF ServerStarts, Back, Return
  <2>2. running' \subseteq started
    BY <1>0, <2>1 DEF IInv, Calls, Carries
  <2> QED BY <1>0, <1>2, <2>1, <2>2, CallMoves
<1> QED BY <1>1, <1>3, <1>4

(* Every step keeps the invariant.                                         *)
LEMMA ServedStep == IInv /\ [Next]_vars => IInv'
<1> SUFFICES ASSUME IInv, [Next]_vars PROVE IInv'
  OBVIOUS
<1>1. ASSUME NEW t \in Threads, NEW c \in Cells, InstallCell(t, c) PROVE IInv'
  BY <1>1, InstallStep
<1>4. ASSUME NEW d \in Dbs, StopServer(d) PROVE IInv'
  <2>1. /\ running' \subseteq running
        /\ UNCHANGED <<nameOf, started, gil, mutex, state, reg, db, cell, call, last, calls>>
    BY <1>4 DEF StopServer
  <2>2. TypeOK'
    BY <2>1 DEF IInv, TypeOK
  <2>3. Calls' /\ Shape' /\ Homes'
    BY <2>1 DEF IInv, Calls, Carries, ReliesOn, Settable, Shape, Homes
  <2>4. Tenants' /\ OneCell' /\ Kept' 
    BY <2>1 DEF IInv, Tenants, OneCell, Kept, Holds
  <2> QED BY <2>2, <2>3, <2>4 DEF IInv
<1>5. CASE UNCHANGED vars
  <2>1. UNCHANGED <<nameOf, running, started, gil, mutex, state, reg, db, cell, call, last, calls>>
    BY <1>5 DEF vars
  <2>2. TypeOK'
    BY <2>1 DEF IInv, TypeOK
  <2>3. Calls' /\ Shape'
    BY <2>1 DEF IInv, Calls, Carries, ReliesOn, Settable, Shape
  <2>4. Homes' /\ Tenants' /\ OneCell' /\ Kept'
    BY <2>1 DEF IInv, Homes, Tenants, OneCell, Kept, Holds
  <2> QED BY <2>2, <2>3, <2>4 DEF IInv
<1> QED
  BY <1>1, <1>4, <1>5, EnterStep, LockedStep, AdoptStep, ServerStep, SetStep,
     RemoveStep, ClashStep DEF Next

(* So it holds always.                                                     *)
LEMMA ServedInvariant == Spec => []IInv
  BY CallsInit, ServedStep, PTL DEF Spec

(* ca_server.rs, ValueState: the value of a PV lives in exactly one place. *)
(* A serving entry's cell is the one registered under its name, every      *)
(* registered cell serves its entry and no cell serves two.                *)
THEOREM ValueAtHome == Spec => []OneHome
<1>1. IInv => OneHome
  <2> SUFFICES ASSUME IInv, NEW e \in Entries, mutex[e] = None
               PROVE  /\ state[e].st = "serving" =>
                           /\ reg[e] # None /\ nameOf[e] \in DOMAIN db[reg[e]]
                           /\ db[reg[e]][nameOf[e]] = state[e].cell
                      /\ \A d \in Dbs : \A n \in DOMAIN db[d] :
                           \E f \in Entries : \/ state[f] = Serving(db[d][n]) /\ reg[f] = d
                                                 /\ nameOf[f] = n
                                              \/ mutex[f] # None
                      /\ \A f \in Entries : state[e].st = "serving" /\ state[f] = state[e] => e = f
    BY DEF IInv, OneHome
  <2>1. state[e].st = "serving" => /\ reg[e] # None /\ nameOf[e] \in DOMAIN db[reg[e]]
                                   /\ db[reg[e]][nameOf[e]] = state[e].cell
    BY ServedAssumption DEF IInv, Homes
  <2>2. \A d \in Dbs : \A n \in DOMAIN db[d] :
          \E f \in Entries : state[f] = Serving(db[d][n]) /\ reg[f] = d /\ nameOf[f] = n
    BY DEF IInv, Tenants
  <2>3. \A f \in Entries : state[e].st = "serving" /\ state[f] = state[e] => e = f
    BY DEF IInv, OneCell
  <2> QED BY <2>1, <2>2, <2>3
<1> QED BY <1>1, ServedInvariant, PTL

(* ca_server.rs, adopt, open and close keep the state's mutex over         *)
(* block_on: no value given to a PV is lost to one that was waiting for    *)
(* the library, for any number of threads.                                 *)
THEOREM ValuesKept == Spec => []ValueKept
<1>1. IInv => ValueKept
  BY DEF IInv, Kept, Holds, ValueKept
<1> QED BY <1>1, ServedInvariant, PTL


-----------------------------------------------------------------------------
(* A PUT is in the queue its PV was created with ...                       *)
Home(u) == queueOf[Target[u]]
InLine(u) == \E i \in DOMAIN queue[Home(u)] : queue[Home(u)][i] = u

PutRec == [st : {"new", "queued", "held", "kept", "gone"}, asks : BOOLEAN, done : BOOLEAN,
           told : Seq({"ok", "failed"})]

(* ... its verdict has been told once, by done() or the drop, or neither   *)
(* has happened yet.                                                       *)
Fair(r) ==
  /\ r.st = "new" => ~r.asks /\ ~r.done
  /\ ~r.asks => r.told = <<>>
  /\ r.asks /\ ~r.done /\ r.st # "gone" => r.told = <<>>
  /\ r.asks /\ (r.done \/ r.st = "gone") => Len(r.told) = 1

Records == \A u \in Puts : Fair(put[u])

Lines ==
  \A q \in Queues : \A i \in DOMAIN queue[q] :
    /\ Home(queue[q][i]) = q /\ put[queue[q][i]].st = "queued"
    /\ \A j \in DOMAIN queue[q] : queue[q][j] = queue[q][i] => i = j

Waits == \A u \in Puts : put[u].st = "queued" => InLine(u)

Loops ==
  \A u \in Puts : /\ put[u].st = "held" => drain[Home(u)] = Handling(u)
                  /\ \A q \in Queues : drain[q] = Handling(u) => put[u].st = "held" /\ Home(u) = q

Gone == \A q \in freed : queue[q] = <<>>

WriteInv == WriteTypeOK /\ Records /\ Lines /\ Waits /\ Loops /\ Gone

(* The loop is in one of three states.                                     *)
LEMMA LoopKinds ==
  /\ Waiting.st = "waiting" /\ Ended.st = "ended"
  /\ \A u : Handling(u).st = "handling" /\ Handling(u).put = u
BY DEF Waiting, Ended, Handling

LEMMA HomeIsQueue ==
  ASSUME queueOf \in Layouts, NEW u \in Puts PROVE Home(u) \in Queues
BY WriteAssumption DEF Home

(* One verdict appended to none.                                           *)
LEMMA OneTold ==
  ASSUME NEW a \in {"ok", "failed"}
  PROVE  /\ Append(<<>>, a) \in Seq({"ok", "failed"}) /\ Len(Append(<<>>, a)) = 1
         /\ <<>> \in Seq({"ok", "failed"})
<1>1. <<>> \in Seq({"ok", "failed"}) /\ Len(<<>>) = 0
  OBVIOUS
<1> QED BY <1>1, AppendProperties

(* What done() and the drop make of a PUT's record.                        *)
LEMMA AnswerFacts ==
  ASSUME NEW r \in PutRec, Fair(r), r.st \notin {"new", "gone"}, NEW a \in {"ok", "failed"}
  PROVE  Answer(r, a) \in PutRec /\ Answer(r, a).st = r.st /\ Fair(Answer(r, a)) /\ Answer(r, a).asks = r.asks
<1>1. Tell(r, a) \in Seq({"ok", "failed"}) /\ (r.asks /\ ~r.done => Len(Tell(r, a)) = 1)
      /\ (~r.asks \/ r.done => Tell(r, a) = r.told)
  BY OneTold DEF PutRec, Fair, Tell
<1>2. /\ Answer(r, a) \in PutRec
      /\ Answer(r, a).st = r.st /\ Answer(r, a).asks = r.asks /\ Answer(r, a).done = TRUE
      /\ Answer(r, a).told = Tell(r, a)
  BY <1>1 DEF PutRec, Answer
<1> QED BY <1>1, <1>2 DEF Fair

LEMMA DropFacts ==
  ASSUME NEW r \in PutRec, Fair(r), r.st \notin {"new", "gone"}
  PROVE  Drop(r) \in PutRec /\ Drop(r).st = "gone" /\ Fair(Drop(r))
<1>1. Tell(r, "failed") \in Seq({"ok", "failed"}) /\ (r.asks /\ ~r.done => Len(Tell(r, "failed")) = 1)
      /\ (~r.asks \/ r.done => Tell(r, "failed") = r.told)
  BY OneTold DEF PutRec, Fair, Tell
<1>2. /\ Drop(r) \in PutRec
      /\ Drop(r).st = "gone" /\ Drop(r).asks = r.asks /\ Drop(r).done = r.done
      /\ Drop(r).told = Tell(r, "failed")
  BY <1>1 DEF PutRec, Drop
<1> QED BY <1>1, <1>2 DEF Fair

LEMMA MoveFacts ==
  ASSUME NEW r \in PutRec, Fair(r), r.st \notin {"new", "gone"}, NEW s \in {"held", "kept"}
  PROVE  LET n == [r EXCEPT !.st = s] IN n \in PutRec /\ n.st = s /\ Fair(n)
<1> DEFINE n == [r EXCEPT !.st = s]
<1>1. n \in PutRec /\ n.st = s /\ n.asks = r.asks /\ n.done = r.done /\ n.told = r.told
  BY DEF PutRec
<1>2. Fair(n)
  BY <1>1 DEF Fair
<1> QED BY <1>1, <1>2

(* A step that replaces the record of one PUT.                             *)
LEMMA OneRecord ==
  ASSUME WriteInv, NEW u \in Puts, NEW r \in PutRec, Fair(r), put' = [put EXCEPT ![u] = r]
  PROVE  /\ put' \in [Puts -> PutRec] /\ Records' /\ put'[u] = r
         /\ \A x \in Puts : x # u => put'[x] = put[x]
<1>1. put \in [Puts -> PutRec]
  BY DEF WriteInv, WriteTypeOK, PutRec
<1>2. put' \in [Puts -> PutRec] /\ put'[u] = r /\ \A x \in Puts : x # u => put'[x] = put[x]
  BY <1>1
<1>3. Records'
  BY <1>2 DEF WriteInv, Records
<1> QED BY <1>2, <1>3

(* Steps that leave the queues and the loops alone and move a PUT between  *)
(* no two of them.                                                         *)
LEMMA PlacesKept ==
  ASSUME WriteInv, UNCHANGED <<queueOf, queue, drain, freed>>,
         \A x \in Puts : \/ put'[x].st = put[x].st
                         \/ {put[x].st, put'[x].st} \cap {"queued", "held"} = {}
  PROVE  Lines' /\ Waits' /\ Loops' /\ Gone'
<1>1. queue \in [Queues -> Seq(Puts)]
  BY DEF WriteInv, WriteTypeOK
<1>2. \A q \in Queues : \A i \in DOMAIN queue[q] : queue[q][i] \in Puts
  BY <1>1
<1>3. \A x \in Puts : /\ put'[x].st = "queued" <=> put[x].st = "queued"
                      /\ put'[x].st = "held" <=> put[x].st = "held"
  OBVIOUS
<1>4. Lines'
  BY <1>2, <1>3 DEF WriteInv, Lines, Home
<1>5. Waits'
  BY <1>3 DEF WriteInv, Waits, InLine, Home
<1>6. Loops'
  BY <1>3 DEF WriteInv, Loops, Home
<1>7. Gone'
  BY DEF WriteInv, Gone
<1> QED BY <1>4, <1>5, <1>6, <1>7

(* The hook's send: at the end of the line of the PV's queue.              *)
LEMMA Sends ==
  ASSUME WriteInv, NEW u \in Puts, NEW asks \in BOOLEAN, NEW ack \in BOOLEAN, ClientPut(u, asks, ack)
  PROVE  WriteInv'
<1> DEFINE q == Home(u)
           r == [put[u] EXCEPT !.asks = asks]
<1>1. /\ put[u] \in PutRec /\ put[u].st = "new" /\ put[u].told = <<>> /\ ~put[u].done
      /\ queue \in [Queues -> Seq(Puts)] /\ q \in Queues
      /\ UNCHANGED <<flavour, queueOf, alive, served, moves, stopped, freed, drain>>
  BY HomeIsQueue DEF WriteInv, WriteTypeOK, PutRec, Records, Fair, ClientPut, owners
<1>2. r \in PutRec /\ r.st = "new" /\ r.asks = asks /\ r.done = put[u].done /\ r.told = <<>>
  BY <1>1 DEF PutRec
<1>3. CASE ack \/ q \in freed
  <2>1. put' = [put EXCEPT ![u] = Drop(r)] /\ queue' = queue
    BY <1>3 DEF ClientPut, Home
  <2>2. Drop(r) \in PutRec /\ Fair(Drop(r)) /\ Drop(r).st = "gone"
    <3>1. Tell(r, "failed") \in Seq({"ok", "failed"}) /\ (r.asks => Len(Tell(r, "failed")) = 1)
          /\ (~r.asks => Tell(r, "failed") = <<>>)
      BY <1>1, <1>2, OneTold DEF Tell
    <3>2. /\ Drop(r) \in PutRec /\ Drop(r).st = "gone" /\ Drop(r).asks = r.asks /\ Drop(r).done = r.done
          /\ Drop(r).told = Tell(r, "failed")
      BY <1>2, <3>1 DEF PutRec, Drop
    <3> QED BY <3>1, <3>2 DEF Fair
  <2> HIDE DEF r
  <2>3. /\ put' \in [Puts -> PutRec] /\ Records' /\ put'[u] = Drop(r)
        /\ \A x \in Puts : x # u => put'[x] = put[x]
    BY <2>1, <2>2, OneRecord
  <2>4. Lines' /\ Waits' /\ Loops' /\ Gone'
    BY <1>1, <2>1, <2>2, <2>3, PlacesKept
  <2> QED BY <1>1, <2>1, <2>3, <2>4 DEF WriteInv, WriteTypeOK, PutRec
<1>4. CASE ~(ack \/ q \in freed)
  <2> DEFINE n == [r EXCEPT !.st = "queued"]
             s == queue[q]
             w == Append(s, u)
  <2>1. put' = [put EXCEPT ![u] = n] /\ queue' = [queue EXCEPT ![q] = w]
    BY <1>4 DEF ClientPut, Home
  <2>2. n \in PutRec /\ n.st = "queued" /\ Fair(n)
    <3>1. n \in PutRec /\ n.st = "queued" /\ n.asks = asks /\ n.done = put[u].done /\ n.told = <<>>
      BY <1>2 DEF PutRec
    <3> QED BY <1>1, <3>1 DEF Fair
  <2> HIDE DEF r, n
  <2>3. /\ put' \in [Puts -> PutRec] /\ Records' /\ put'[u] = n
        /\ \A x \in Puts : x # u => put'[x] = put[x]
    BY <2>1, <2>2, OneRecord
  <2>4. /\ s \in Seq(Puts) /\ w \in Seq(Puts) /\ Len(w) = Len(s) + 1 /\ Len(s) \in Nat
        /\ DOMAIN s = 1..Len(s) /\ DOMAIN w = 1..(Len(s) + 1)
        /\ \A i \in 1..Len(s) : w[i] = s[i]
        /\ w[Len(s) + 1] = u
    BY <1>1, AppendProperties, LenProperties
  <2>5. queue' \in [Queues -> Seq(Puts)] /\ queue'[q] = w /\ \A x \in Queues : x # q => queue'[x] = queue[x]
    BY <1>1, <2>1, <2>4
  <2> HIDE DEF s, w, q
  <2>6. \A x \in Queues : \A i \in DOMAIN queue[x] : queue[x][i] \in Puts /\ queue[x][i] # u
    <3>1. \A x \in Queues : \A i \in DOMAIN queue[x] : put[queue[x][i]].st = "queued" /\ queue[x][i] \in Puts
      BY <1>1 DEF WriteInv, Lines
    <3> QED BY <1>1, <3>1
  <2>7. Home(u)' = q /\ \A x : Home(x)' = Home(x)
    BY <1>1 DEF Home, q
  <2>8. Lines'
    <3> SUFFICES ASSUME NEW x \in Queues, NEW i \in DOMAIN queue'[x]
                 PROVE  /\ Home(queue'[x][i]) = x /\ put'[queue'[x][i]].st = "queued"
                        /\ \A j \in DOMAIN queue'[x] : queue'[x][j] = queue'[x][i] => i = j
      BY <1>1 DEF Lines, Home
    <3>1. CASE x # q
      <4>1. queue'[x] = queue[x]
        BY <2>5, <3>1
      <4> QED BY <2>3, <2>6, <4>1 DEF WriteInv, Lines
    <3>2. CASE x = q
      <4>1. \A k \in 1..Len(s) : /\ Home(s[k]) = q /\ put[s[k]].st = "queued" /\ s[k] \in Puts /\ s[k] # u
                                 /\ \A j \in 1..Len(s) : s[j] = s[k] => j = k
        BY <1>1, <2>4, <2>6 DEF WriteInv, Lines, s
      <4>2. i \in 1..(Len(s) + 1) /\ queue'[x] = w
        BY <2>4, <2>5, <3>2
      <4>3. CASE i \in 1..Len(s)
        <5>1. \A j \in 1..(Len(s) + 1) : w[j] = w[i] => j = i
          BY <2>4, <4>1, <4>3
        <5> QED BY <2>3, <2>4, <3>2, <4>1, <4>2, <4>3, <5>1
      <4>4. CASE i = Len(s) + 1
        <5>1. \A j \in 1..(Len(s) + 1) : w[j] = w[i] => j = i
          BY <2>4, <4>1, <4>4
        <5> QED BY <2>2, <2>3, <2>4, <2>7, <3>2, <4>2, <4>4, <5>1, <1>1 DEF q
      <4> QED BY <2>4, <4>2, <4>3, <4>4
    <3> QED BY <3>1, <3>2
  <2>9. Waits'
    <3> SUFFICES ASSUME NEW x \in Puts, put'[x].st = "queued" PROVE InLine(x)'
      BY DEF Waits
    <3>1. CASE x = u
      <4>1. Len(s) + 1 \in DOMAIN queue'[q] /\ queue'[q][Len(s) + 1] = x
        BY <2>4, <2>5, <1>1, <3>1
      <4> QED BY <2>7, <3>1, <4>1 DEF InLine
    <3>2. CASE x # u
      <4>1. InLine(x)
        BY <2>3, <3>2 DEF WriteInv, Waits
      <4>2. PICK i \in DOMAIN queue[Home(x)] : queue[Home(x)][i] = x
        BY <4>1 DEF InLine
      <4>3. CASE Home(x) = q
        BY <1>1, <2>4, <2>5, <2>7, <4>2, <4>3 DEF InLine, s
      <4>4. CASE Home(x) # q
        <5>1. Home(x) \in Queues
          BY HomeIsQueue DEF WriteInv, WriteTypeOK
        <5> QED BY <2>5, <2>7, <4>2, <4>4, <5>1 DEF InLine
      <4> QED BY <4>3, <4>4
    <3> QED BY <3>1, <3>2
  <2>10. Loops'
    BY <1>1, <2>2, <2>3, <2>7 DEF WriteInv, Loops
  <2>11. Gone'
    <3>1. q \notin freed /\ freed \subseteq Queues
      BY <1>4 DEF WriteInv, WriteTypeOK
    <3> QED BY <1>1, <2>5, <3>1 DEF WriteInv, Gone
  <2> QED BY <1>1, <2>3, <2>5, <2>8, <2>9, <2>10, <2>11 DEF WriteInv, WriteTypeOK, PutRec
<1> QED BY <1>3, <1>4

(* The receiver takes the head of its line.                                *)
LEMMA Receives ==
  ASSUME WriteInv, NEW q \in Queues, Receive(q) PROVE WriteInv'
<1> DEFINE s == queue[q]
           u == Head(s)
           w == Tail(s)
<1>1. /\ queue \in [Queues -> Seq(Puts)] /\ s \in Seq(Puts) /\ s # <<>> /\ drain[q] = Waiting
      /\ queue' = [queue EXCEPT ![q] = w] /\ drain \in [Queues -> {Waiting, Ended} \cup {Handling(x) : x \in Puts}]
      /\ UNCHANGED <<flavour, queueOf, alive, served, moves, stopped, freed>>
  BY DEF WriteInv, WriteTypeOK, Receive, owners
<1>2. /\ u \in Puts /\ w \in Seq(Puts) /\ Len(s) \in Nat /\ Len(s) >= 1 /\ Len(w) = Len(s) - 1
      /\ \A i \in 1..Len(w) : w[i] = s[i + 1]
      /\ DOMAIN s = 1..Len(s) /\ DOMAIN w = 1..Len(w) /\ s[1] = u
  BY <1>1, HeadTailProperties, LenProperties, EmptySeq
<1>3. /\ queue' \in [Queues -> Seq(Puts)] /\ queue'[q] = w /\ \A x \in Queues : x # q => queue'[x] = queue[x]
  BY <1>1, <1>2
<1>4. /\ put[u] \in PutRec /\ Fair(put[u]) /\ put[u].st = "queued" /\ Home(u) = q
      /\ \A i \in 1..Len(s) : s[i] = u => i = 1
      /\ \A i, j \in 1..Len(s) : s[i] = s[j] => i = j
  <2>1. \A i \in 1..Len(s) : /\ Home(s[i]) = q /\ put[s[i]].st = "queued"
                            /\ \A j \in 1..Len(s) : s[j] = s[i] => i = j
    BY <1>2 DEF WriteInv, Lines
  <2>2. 1 \in 1..Len(s)
    BY <1>2
  <2>3. put[u] \in PutRec /\ Fair(put[u])
    BY <1>2 DEF WriteInv, WriteTypeOK, PutRec, Records
  <2> HIDE DEF s, u
  <2> QED BY <1>2, <2>1, <2>2, <2>3
<1> HIDE DEF s, u, w
<1>5. PICK r \in PutRec : /\ put' = [put EXCEPT ![u] = r] /\ Fair(r)
                          /\ \/ r.st = "gone" /\ drain' = drain
                             \/ r.st = "held" /\ drain' = [drain EXCEPT ![q] = Handling(u)]
  <2>1. CASE Unhandled(u)
    <3>1. put' = [put EXCEPT ![u] = Drop(Answer(put[u], "failed"))] /\ drain' = drain
      BY <2>1 DEF Receive, u, s
    <3>2. LET r == Answer(put[u], "failed") IN r \in PutRec /\ Fair(r) /\ r.st = "queued"
      BY <1>4, AnswerFacts
    <3> QED BY <3>1, <3>2, DropFacts
  <2>2. CASE ~Unhandled(u)
    <3>1. put' = [put EXCEPT ![u] = [put[u] EXCEPT !.st = "held"]] /\ drain' = [drain EXCEPT ![q] = Handling(u)]
      BY <2>2 DEF Receive, u, s
    <3> QED BY <1>4, <3>1, MoveFacts
  <2> QED BY <2>1, <2>2
<1>6. /\ put' \in [Puts -> PutRec] /\ Records' /\ put'[u] = r
      /\ \A x \in Puts : x # u => put'[x] = put[x]
  BY <1>2, <1>5, OneRecord
<1>7. \A x : Home(x)' = Home(x)
  BY <1>1 DEF Home
<1>8. Lines'
  <2> SUFFICES ASSUME NEW x \in Queues, NEW i \in DOMAIN queue'[x]
               PROVE  /\ Home(queue'[x][i]) = x /\ put'[queue'[x][i]].st = "queued"
                      /\ \A j \in DOMAIN queue'[x] : queue'[x][j] = queue'[x][i] => i = j
    BY <1>7 DEF Lines
  <2>1. CASE x # q
    <3>1. queue'[x] = queue[x] /\ queue[x][i] \in Puts
      BY <1>1, <1>3, <2>1
    <3>2. Home(queue[x][i]) = x /\ put[queue[x][i]].st = "queued"
          /\ \A j \in DOMAIN queue[x] : queue[x][j] = queue[x][i] => i = j
      BY <3>1 DEF WriteInv, Lines
    <3>3. queue[x][i] # u
      BY <1>4, <2>1, <3>2
    <3> QED BY <1>6, <3>1, <3>2, <3>3
  <2>2. CASE x = q
    <3>1. i \in 1..Len(w) /\ queue'[x] = w /\ i + 1 \in 1..Len(s) /\ w[i] = s[i + 1]
      BY <1>2, <1>3, <2>2
    <3>2. /\ s[i + 1] \in Puts /\ s[i + 1] # u /\ Home(s[i + 1]) = q /\ put[s[i + 1]].st = "queued"
      BY <1>1, <1>2, <1>4, <3>1 DEF WriteInv, Lines, s
    <3>3. \A j \in 1..Len(w) : w[j] = w[i] => i = j
      BY <1>2, <1>4, <3>1
    <3> QED BY <1>2, <1>6, <2>2, <3>1, <3>2, <3>3
  <2> QED BY <2>1, <2>2
<1>9. Waits'
  <2> SUFFICES ASSUME NEW x \in Puts, put'[x].st = "queued" PROVE InLine(x)'
    BY DEF Waits
  <2>1. x # u /\ put'[x] = put[x]
    BY <1>5, <1>6
  <2>2. PICK i \in DOMAIN queue[Home(x)] : queue[Home(x)][i] = x
    BY <2>1 DEF WriteInv, Waits, InLine
  <2>3. CASE Home(x) = q
    <3>1. i \in 1..Len(s) /\ s[i] = x /\ i # 1
      BY <1>2, <2>1, <2>2, <2>3 DEF s
    <3>2. i - 1 \in 1..Len(w) /\ w[i - 1] = x
      BY <1>2, <3>1
    <3> QED BY <1>2, <1>3, <1>7, <2>3, <3>2 DEF InLine
  <2>4. CASE Home(x) # q
    <3>1. Home(x) \in Queues
      BY HomeIsQueue DEF WriteInv, WriteTypeOK
    <3> QED BY <1>3, <1>7, <2>2, <2>4, <3>1 DEF InLine
  <2> QED BY <2>3, <2>4
<1>10. Loops'
  <2>1. CASE r.st = "gone" /\ drain' = drain
    BY <1>4, <1>6, <1>7, <2>1 DEF WriteInv, Loops
  <2>2. CASE r.st = "held" /\ drain' = [drain EXCEPT ![q] = Handling(u)]
    <3>1. drain'[q] = Handling(u) /\ \A x \in Queues : x # q => drain'[x] = drain[x]
      BY <1>1, <2>2
    <3>2. \A x \in Puts : Home(x) \in Queues
      BY HomeIsQueue DEF WriteInv, WriteTypeOK
    <3>3. \A x \in Puts : drain[q] # Handling(x)
      BY <1>1, LoopKinds
    <3>4. \A x \in Puts : Handling(x) = Handling(u) => x = u
      BY LoopKinds
    <3> QED BY <1>4, <1>6, <1>7, <2>2, <3>1, <3>2, <3>3, <3>4 DEF WriteInv, Loops
  <2> QED BY <1>5, <2>1, <2>2
<1>11. Gone'
  BY <1>1, <1>3 DEF WriteInv, WriteTypeOK, Gone, s
<1>12. drain' \in [Queues -> {Waiting, Ended} \cup {Handling(x) : x \in Puts}]
  BY <1>1, <1>2, <1>5
<1> QED BY <1>1, <1>3, <1>6, <1>8, <1>9, <1>10, <1>11, <1>12 DEF WriteInv, WriteTypeOK, PutRec

(* The handler is over, and its loop waits again.                          *)
LEMMA Handles ==
  ASSUME WriteInv, NEW q \in Queues, NEW keeps \in BOOLEAN, HandlerReturns(q, keeps) \/ HandlerRaises(q, keeps)
  PROVE  WriteInv'
<1>1. /\ drain[q].st = "handling" /\ drain' = [drain EXCEPT ![q] = Waiting]
      /\ UNCHANGED <<flavour, queueOf, alive, served, moves, queue, stopped, freed>>
      /\ drain \in [Queues -> {Waiting, Ended} \cup {Handling(x) : x \in Puts}]
  BY DEF HandlerReturns, HandlerRaises, owners, WriteInv, WriteTypeOK
<1>2. PICK u \in Puts : drain[q] = Handling(u)
  BY <1>1, LoopKinds
<1>3. /\ drain[q].put = u /\ put[u].st = "held" /\ Home(u) = q /\ put[u] \in PutRec /\ Fair(put[u])
  BY <1>2, LoopKinds DEF WriteInv, WriteTypeOK, PutRec, Records, Loops
<1>4. PICK r \in PutRec : put' = [put EXCEPT ![u] = r] /\ Fair(r) /\ r.st \in {"kept", "gone"}
  <2>1. CASE HandlerReturns(q, keeps)
    <3>1. put' = [put EXCEPT ![u] = IF keeps THEN [put[u] EXCEPT !.st = "kept"] ELSE Drop(put[u])]
      BY <1>3, <2>1 DEF HandlerReturns
    <3> QED BY <1>3, <3>1, MoveFacts, DropFacts
  <2>2. CASE HandlerRaises(q, keeps)
    <3> DEFINE n == Answer(put[u], "failed")
    <3>1. put' = [put EXCEPT ![u] = IF keeps THEN [n EXCEPT !.st = "kept"] ELSE Drop(n)]
      BY <1>3, <2>2 DEF HandlerRaises
    <3>2. n \in PutRec /\ Fair(n) /\ n.st = "held"
      BY <1>3, AnswerFacts
    <3> HIDE DEF n
    <3> QED BY <3>1, <3>2, MoveFacts, DropFacts
  <2> QED BY <2>1, <2>2
<1>5. /\ put' \in [Puts -> PutRec] /\ Records' /\ put'[u] = r
      /\ \A x \in Puts : x # u => put'[x] = put[x]
  BY <1>4, OneRecord
<1>6. \A x : Home(x)' = Home(x)
  BY <1>1 DEF Home
<1>7. Lines' /\ Waits' /\ Gone'
  <2>1. \A x \in Puts : put'[x].st = "queued" <=> put[x].st = "queued"
    BY <1>3, <1>4, <1>5
  <2>2. \A x \in Queues : \A i \in DOMAIN queue[x] : queue[x][i] \in Puts
    BY DEF WriteInv, WriteTypeOK
  <2>3. Lines'
    BY <1>1, <1>6, <2>1, <2>2 DEF WriteInv, Lines
  <2>4. Waits'
    BY <1>1, <1>6, <2>1 DEF WriteInv, Waits, InLine
  <2> QED BY <1>1, <2>3, <2>4 DEF WriteInv, Gone
<1>8. Loops'
  <2>1. drain'[q] = Waiting /\ \A x \in Queues : x # q => drain'[x] = drain[x]
    BY <1>1
  <2>2. \A x \in Puts : Waiting # Handling(x)
    BY LoopKinds
  <2>3. \A x \in Puts : put[x].st = "held" /\ Home(x) = q => x = u
    <3>1. \A x \in Puts : Handling(x) = Handling(u) => x = u
      BY LoopKinds
    <3> QED BY <1>2, <3>1 DEF WriteInv, Loops
  <2>4. \A x \in Puts : Home(x) \in Queues
    BY HomeIsQueue DEF WriteInv, WriteTypeOK
  <2> QED BY <1>2, <1>3, <1>4, <1>5, <1>6, <2>1, <2>2, <2>3, <2>4 DEF WriteInv, Loops
<1>9. drain' \in [Queues -> {Waiting, Ended} \cup {Handling(x) : x \in Puts}]
  BY <1>1
<1> QED BY <1>1, <1>5, <1>7, <1>8, <1>9 DEF WriteInv, WriteTypeOK, PutRec

(* Answers and releases.                                                   *)
LEMMA Answers ==
  ASSUME WriteInv, NEW u \in Puts, Released(u) \/ \E a \in {"ok", "failed"} : Done(u, a)
  PROVE  WriteInv'
<1>1. /\ put[u] \in PutRec /\ Fair(put[u]) /\ put[u].st \in {"held", "kept"}
      /\ UNCHANGED <<flavour, queueOf, alive, served, moves, queue, stopped, freed, drain>>
  BY DEF WriteInv, WriteTypeOK, PutRec, Records, Released, Done, owners
<1>2. PICK r \in PutRec : /\ put' = [put EXCEPT ![u] = r] /\ Fair(r)
                          /\ r.st = put[u].st \/ (put[u].st = "kept" /\ r.st = "gone")
  <2>1. CASE Released(u)
    <3>1. put' = [put EXCEPT ![u] = Drop(put[u])] /\ put[u].st = "kept"
      BY <2>1 DEF Released
    <3> QED BY <1>1, <3>1, DropFacts
  <2>2. ASSUME NEW a \in {"ok", "failed"}, Done(u, a)
        PROVE  \E r \in PutRec : put' = [put EXCEPT ![u] = r] /\ Fair(r) /\ r.st = put[u].st
    <3>1. put' = [put EXCEPT ![u] = Answer(put[u], a)]
      BY <2>2 DEF Done
    <3> QED BY <1>1, <3>1, AnswerFacts
  <2> QED BY <2>1, <2>2
<1>3. /\ put' \in [Puts -> PutRec] /\ Records' /\ put'[u] = r
      /\ \A x \in Puts : x # u => put'[x] = put[x]
  BY <1>2, OneRecord
<1>4. Lines' /\ Waits' /\ Loops' /\ Gone'
  BY <1>1, <1>2, <1>3, PlacesKept
<1> QED BY <1>1, <1>3, <1>4 DEF WriteInv, WriteTypeOK, PutRec

(* A loop that ends was waiting, and a stop or an owner moves no PUT.      *)
LEMMA LoopsEnd ==
  ASSUME WriteInv, LoopEnds \/ \E q \in Queues : DrainEnds(q) PROVE WriteInv'
<1>1. /\ UNCHANGED <<flavour, queueOf, alive, served, moves, queue, stopped, freed, put>>
      /\ drain' \in [Queues -> {Waiting, Ended} \cup {Handling(x) : x \in Puts}]
      /\ \A q \in Queues : drain'[q] = drain[q] \/ (drain[q] \in {Waiting, Ended} /\ drain'[q] = Ended)
  BY DEF LoopEnds, DrainEnds, owners, WriteInv, WriteTypeOK
<1>2. \A x \in Puts : Waiting # Handling(x) /\ Ended # Handling(x)
  BY LoopKinds
<1>3. \A x : Home(x)' = Home(x)
  BY <1>1 DEF Home
<1>4. \A x \in Puts : Home(x) \in Queues
  BY HomeIsQueue DEF WriteInv, WriteTypeOK
<1>5. Loops'
  BY <1>1, <1>2, <1>3, <1>4 DEF WriteInv, Loops
<1>6. Lines' /\ Waits' /\ Gone' /\ Records'
  BY <1>1, <1>3 DEF WriteInv, Lines, Waits, InLine, Gone, Records
<1> QED BY <1>1, <1>5, <1>6 DEF WriteInv, WriteTypeOK

LEMMA OwnersAct ==
  ASSUME WriteInv, \/ UNCHANGED writeVars \/ \E q \in Queues : Stop(q)
                   \/ \E p \in PVs : Serve(p) \/ Collect(p)
  PROVE  WriteInv'
<1>1. UNCHANGED <<flavour, queueOf, queue, drain, freed, put>>
  BY DEF writeVars, owners, Stop, Serve, Collect
<1>2. alive' \subseteq PVs /\ served' \subseteq PVs /\ stopped' \subseteq Queues /\ moves' \in 0..MaxMoves
  <2>1. /\ alive \subseteq PVs /\ served \subseteq PVs /\ stopped \subseteq Queues /\ moves \in 0..MaxMoves
        /\ MaxMoves \in Nat /\ queueOf \in [PVs -> Queues]
    BY WriteAssumption DEF WriteInv, WriteTypeOK
  <2> QED BY <2>1 DEF writeVars, owners, Stop, Serve, Collect
<1>3. Lines' /\ Waits' /\ Loops' /\ Gone'
  BY <1>1, PlacesKept
<1> QED BY <1>1, <1>2, <1>3 DEF WriteInv, WriteTypeOK, Records

(* The receiver goes, and drops every PUT in its line.                     *)
LEMMA Frees ==
  ASSUME WriteInv, NEW q \in Queues, FreeQueue(q) PROVE WriteInv'
<1>1. /\ UNCHANGED <<flavour, queueOf, alive, served, moves, stopped, drain>> /\ freed' = freed \cup {q}
      /\ queue' = [queue EXCEPT ![q] = <<>>] /\ queue \in [Queues -> Seq(Puts)] /\ freed \subseteq Queues
      /\ put' = [u \in Puts |-> IF Contains(queue[q], u) THEN Drop(put[u]) ELSE put[u]]
  BY DEF WriteInv, WriteTypeOK, FreeQueue, owners
<1>2. /\ queue' \in [Queues -> Seq(Puts)] /\ queue'[q] = <<>> /\ \A x \in Queues : x # q => queue'[x] = queue[x]
  BY <1>1
<1>3. \A u \in Puts : Contains(queue[q], u) <=> put[u].st = "queued" /\ Home(u) = q
  <2> SUFFICES ASSUME NEW u \in Puts PROVE Contains(queue[q], u) <=> put[u].st = "queued" /\ Home(u) = q
    OBVIOUS
  <2>1. Contains(queue[q], u) <=> \E i \in DOMAIN queue[q] : queue[q][i] = u
    BY <1>1, LenProperties DEF Contains
  <2> QED BY <2>1 DEF WriteInv, Lines, Waits, InLine
<1>4. \A u \in Puts : put[u] \in PutRec /\ Fair(put[u])
  BY DEF WriteInv, WriteTypeOK, PutRec, Records
<1>5. ASSUME NEW u \in Puts
      PROVE  /\ put'[u] \in PutRec /\ Fair(put'[u])
             /\ put[u].st = "queued" /\ Home(u) = q => put'[u].st = "gone"
             /\ ~(put[u].st = "queued" /\ Home(u) = q) => put'[u].st = put[u].st
  <2>1. CASE put[u].st = "queued" /\ Home(u) = q
    <3>1. put'[u] = Drop(put[u])
      BY <1>1, <1>3, <2>1
    <3> QED BY <1>4, <2>1, <3>1, DropFacts
  <2>2. CASE ~(put[u].st = "queued" /\ Home(u) = q)
    BY <1>1, <1>3, <1>4, <2>2
  <2> QED BY <2>1, <2>2
<1>6. put' \in [Puts -> PutRec] /\ Records'
  BY <1>1, <1>5 DEF Records
<1>7. \A x : Home(x)' = Home(x)
  BY <1>1 DEF Home
<1>8. Lines'
  <2> SUFFICES ASSUME NEW x \in Queues, NEW i \in DOMAIN queue'[x]
               PROVE  /\ Home(queue'[x][i]) = x /\ put'[queue'[x][i]].st = "queued"
                      /\ \A j \in DOMAIN queue'[x] : queue'[x][j] = queue'[x][i] => i = j
    BY <1>7 DEF Lines
  <2>1. x # q /\ queue'[x] = queue[x]
    BY <1>2
  <2>2. queue[x][i] \in Puts
    BY <1>1, <2>1
  <2> QED BY <1>5, <2>1, <2>2 DEF WriteInv, Lines
<1>9. Waits'
  <2> SUFFICES ASSUME NEW x \in Puts, put'[x].st = "queued" PROVE InLine(x)'
    BY DEF Waits
  <2>1. put[x].st = "queued" /\ Home(x) # q /\ Home(x) \in Queues
    BY <1>5, HomeIsQueue DEF WriteInv, WriteTypeOK
  <2> QED BY <1>2, <1>7, <2>1 DEF WriteInv, Waits, InLine
<1>10. Loops'
  <2>1. \A u \in Puts : put'[u].st = "held" <=> put[u].st = "held"
    BY <1>5
  <2> QED BY <1>1, <1>7, <2>1 DEF WriteInv, Loops
<1>11. Gone'
  BY <1>1, <1>2 DEF WriteInv, Gone
<1> QED BY <1>1, <1>2, <1>6, <1>8, <1>9, <1>10, <1>11 DEF WriteInv, WriteTypeOK, PutRec

LEMMA WriteInitially == WriteInit => WriteInv
<1> SUFFICES ASSUME WriteInit PROVE WriteInv
  OBVIOUS
<1>1. \A u \in Puts : /\ put[u].st = "new" /\ ~put[u].asks /\ ~put[u].done /\ put[u].told = <<>>
  BY DEF WriteInit
<1>2. Records /\ Waits
  BY <1>1 DEF Records, Fair, Waits
<1>3. WriteTypeOK
  <2>1. put \in [Puts -> PutRec]
    BY OneTold DEF WriteInit, PutRec
  <2> QED BY <2>1, WriteAssumption DEF WriteInit, WriteTypeOK, PutRec
<1>4. Lines /\ Gone
  BY <1>3 DEF WriteInit, Lines, Gone
<1>5. Loops
  BY <1>1, LoopKinds DEF WriteInit, Loops
<1> QED BY <1>2, <1>3, <1>4, <1>5 DEF WriteInv

LEMMA WriteInvariant == WriteSpec => []WriteInv
<1>1. WriteInv /\ [WriteNext]_writeVars => WriteInv'
  BY Sends, Receives, Handles, Answers, LoopsEnd, OwnersAct, Frees DEF WriteNext, DrainStep
<1> QED BY <1>1, WriteInitially, PTL DEF WriteSpec

(* ca_server.rs, CaServerOperation and CaWorkQueue: a put callback is told *)
(* one verdict at most, and until it is, its operation has its Reply and   *)
(* is in one place a verdict or the drop that fails it can come from: one  *)
(* position of one queue with a receiver, one drain loop, or its keeper.   *)
THEOREM VerdictOnce == WriteSpec => []OneVerdict
<1>1. WriteInv => OneVerdict
  <2> SUFFICES ASSUME WriteInv, NEW u \in Puts
               PROVE  /\ Len(put[u].told) <= 1
                      /\ put[u].asks /\ put[u].told = <<>> =>
                           ~put[u].done /\ put[u].st \in {"queued", "held", "kept"}
                      /\ put[u].st = "queued" <=> \E q \in Queues \ freed : Contains(queue[q], u)
                      /\ put[u].st = "held" <=> \E q \in Queues : drain[q] = Handling(u)
                      /\ \A q, r \in Queues : \A i \in DOMAIN queue[q], j \in DOMAIN queue[r] :
                           queue[q][i] = u /\ queue[r][j] = u => q = r /\ i = j
    BY DEF WriteInv, OneVerdict
  <2>1. put[u] \in PutRec /\ Fair(put[u]) /\ Home(u) \in Queues /\ queue \in [Queues -> Seq(Puts)]
    BY HomeIsQueue DEF WriteInv, WriteTypeOK, PutRec, Records
  <2>2. Len(put[u].told) <= 1 /\ (put[u].asks /\ put[u].told = <<>> =>
                           ~put[u].done /\ put[u].st \in {"queued", "held", "kept"})
    <3>1. Len(<<>>) = 0
      BY EmptySeq
    <3>2. put[u].told = <<>> \/ Len(put[u].told) = 1
      BY <2>1 DEF Fair, PutRec
    <3>3. put[u].st \in {"new", "queued", "held", "kept", "gone"}
      BY <2>1 DEF PutRec
    <3>4. Len(put[u].told) <= 1
      <4>1. Len(put[u].told) \in {0, 1}
        BY <3>1, <3>2, Zenon
      <4>2. \A n \in {0, 1} : n <= 1
        OBVIOUS
      <4> QED BY <4>1, <4>2, Zenon
    <3>5. ASSUME put[u].asks, put[u].told = <<>>
          PROVE  ~put[u].done /\ put[u].st # "gone" /\ put[u].st # "new"
      <4>1. Len(put[u].told) # 1
        BY <3>1, <3>5
      <4> QED BY <2>1, <3>5, <4>1 DEF Fair
    <3> QED BY <3>3, <3>4, <3>5
  <2>3. put[u].st = "queued" <=> \E q \in Queues \ freed : Contains(queue[q], u)
    <3>1. \A q \in Queues : Contains(queue[q], u) <=> \E i \in DOMAIN queue[q] : queue[q][i] = u
      BY <2>1, LenProperties DEF Contains
    <3>2. \A q \in freed : DOMAIN queue[q] = {}
      BY DEF WriteInv, Gone
    <3> QED BY <2>1, <3>1, <3>2 DEF WriteInv, Lines, Waits, InLine
  <2>4. put[u].st = "held" <=> \E q \in Queues : drain[q] = Handling(u)
    BY <2>1 DEF WriteInv, Loops
  <2>5. \A q, r \in Queues : \A i \in DOMAIN queue[q], j \in DOMAIN queue[r] :
          queue[q][i] = u /\ queue[r][j] = u => q = r /\ i = j
    BY DEF WriteInv, Lines
  <2> QED BY <2>2, <2>3, <2>4, <2>5
<1> QED BY <1>1, WriteInvariant, PTL
=============================================================================
