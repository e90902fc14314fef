------------------------ MODULE PvaSharedPV_proofs ------------------------
(***************************************************************************)
(* Theorems about PvaSharedPV for any types, fields, numbers, subscribers, *)
(* ring sizes, PUTs and bound.                                             *)
(***************************************************************************)
EXTENDS PvaSharedPV, SequenceTheorems, TLAPS

(* The fields of an assigned value are the new ones where they are marked, *)
(* the old ones elsewhere; its type is the old one.                        *)
LEMMA AssignFields ==
  ASSUME NEW old \in Value, NEW new \in Value, NEW F \in SUBSET Fields
  PROVE  /\ Assign(old, new, F) \in Value
         /\ Assign(old, new, F).type = old.type
         /\ \A f \in Fields :
              Assign(old, new, F).val[f] = IF f \in F THEN new.val[f] ELSE old.val[f]
<1>1. /\ old = [type |-> old.type, val |-> old.val] /\ old.type \in Types
      /\ old.val \in [Fields -> Numbers] /\ new.val \in [Fields -> Numbers]
  BY DEF Value
<1> DEFINE w == [f \in Fields |-> IF f \in F THEN new.val[f] ELSE old.val[f]]
<1>2. Assign(old, new, F) = [type |-> old.type, val |-> w]
  BY <1>1 DEF Assign, Value
<1>3. w \in [Fields -> Numbers]
  BY <1>1
<1> HIDE DEF w
<1>4. [type |-> old.type, val |-> w] \in Value
  BY <1>1, <1>3 DEF Value
<1> QED BY <1>2, <1>4 DEF w

(* A ring stays within its size, and its last update is the one offered,   *)
(* with the marks of the update it replaced if there was no room.          *)
LEMMA OfferCases ==
  ASSUME NEW r \in Seq(Update), NEW limit \in Nat \ {0}, Len(r) <= limit, NEW u \in Update
  PROVE  LET o == Offer(r, limit, u)
         IN  /\ o \in Seq(Update) /\ Len(o) <= limit
             /\ \/ /\ Len(o) = Len(r) + 1 /\ o[Len(o)] = u
                   /\ \A i \in DOMAIN r : o[i] = r[i]
                \/ /\ Len(o) = Len(r) /\ Len(r) \in DOMAIN r
                   /\ \A i \in DOMAIN r : i # Len(r) => o[i] = r[i]
                   /\ o[Len(r)] \in Update
                   /\ o[Len(r)].value = u.value
                   /\ o[Len(r)].marked = u.marked \cup r[Len(r)].marked
<1> DEFINE o == Offer(r, limit, u)
<1>1. CASE Len(r) < limit
  <2>1. o = Append(r, u)
    BY <1>1 DEF Offer
  <2> QED BY <1>1, <2>1, AppendProperties
<1>2. CASE ~(Len(r) < limit)
  <2> DEFINE x == [u EXCEPT !.marked = @ \cup r[Len(r)].marked]
  <2>1. Len(r) \in DOMAIN r
    BY <1>2
  <2>2. r[Len(r)] \in Update
    BY <2>1
  <2>3. x \in Update /\ x.value = u.value /\ x.marked = u.marked \cup r[Len(r)].marked
    BY <2>2 DEF Update
  <2>4. o = [r EXCEPT ![Len(r)] = x]
    BY <1>2 DEF Offer
  <2> HIDE DEF x
  <2>5. /\ o \in Seq(Update) /\ Len(o) = Len(r) /\ o[Len(r)] = x
        /\ \A i \in DOMAIN r : i # Len(r) => o[i] = r[i]
    BY <2>1, <2>3, <2>4
  <2> QED BY <2>1, <2>3, <2>5
<1> QED BY <1>1, <1>2

-----------------------------------------------------------------------------
(* What holds between the steps.  While a close is under way the entry has *)
(* no type and only subscribers that raced it; the library's PV is closed  *)
(* in its last phase, and whoever subscribes finds it open.                *)
PutTyped(u) ==
  put[u].st = "op" => put[u].value \in Value /\ put[u].marked \in SUBSET Fields

IInv ==
  /\ TypeOK
  /\ DOMAIN ring = Subs
  /\ DOMAIN put = Puts /\ \A u \in Puts : PutTyped(u)
  /\ lib = Closed <=> base = Closed
  /\ closing = "dropping" => lib = Closed
  /\ closing # "no" => opened = Closed
  /\ lib = Closed \/ closing # "no" => opened = Closed /\ marks = {} /\ subs \subseteq raced
  /\ lib # Closed /\ closing = "no" => opened = lib.type
  /\ opened # Closed => \A f \in Fields : lib.val[f] # base.val[f] => f \in marks
  /\ \A s \in Subs : stream[s] = "new" => ring[s] = <<>> /\ s \notin subs
  /\ \A s \in Subs : stream[s] \in {"open", "ended"} => view[s] \in Value
  /\ SeedOrRing

-----------------------------------------------------------------------------
(* Reading the ring r leaves field f, now at w, at a.                      *)
FieldEnds(r, f, w, a) ==
  /\ \A i \in DOMAIN r : LastMark(r, f, i) => r[i].value.val[f] = a
  /\ (\A i \in DOMAIN r : f \notin r[i].marked) => w = a

(* An update offered to a ring moves a field to the update's number, if    *)
(* it marks the field whenever that is a change.                           *)
LEMMA OfferField ==
  ASSUME NEW r \in Seq(Update), NEW limit \in Nat \ {0}, Len(r) <= limit, NEW u \in Update,
         NEW f \in Fields, NEW w, NEW a, FieldEnds(r, f, w, a),
         f \notin u.marked => u.value.val[f] = a
  PROVE  FieldEnds(Offer(r, limit, u), f, w, u.value.val[f])
<1> DEFINE o == Offer(r, limit, u)
           b == u.value.val[f]
<1>0. /\ o \in Seq(Update) /\ \/ /\ Len(o) = Len(r) + 1 /\ o[Len(o)] = u
                                 /\ \A i \in DOMAIN r : o[i] = r[i]
                              \/ /\ Len(o) = Len(r) /\ Len(r) \in DOMAIN r
                                 /\ \A i \in DOMAIN r : i # Len(r) => o[i] = r[i]
                                 /\ o[Len(r)].value = u.value
                                 /\ o[Len(r)].marked = u.marked \cup r[Len(r)].marked
  BY OfferCases
<1> HIDE DEF o, b
<1>1. Len(o) \in DOMAIN o /\ o[Len(o)].value.val[f] = b /\ u.marked \subseteq o[Len(o)].marked
  BY <1>0 DEF b
<1>2. CASE f \in o[Len(o)].marked
  <2>1. ASSUME NEW i \in DOMAIN o, LastMark(o, f, i) PROVE i = Len(o)
    <3>1. i <= Len(o) /\ i \in Nat
      BY <1>0
    <3>2. ~(Len(o) > i)
      BY <1>1, <1>2, <2>1 DEF LastMark
    <3> QED BY <3>1, <3>2
  <2> QED BY <1>1, <1>2, <2>1 DEF FieldEnds, o, b
<1>3. CASE f \notin o[Len(o)].marked
  <2>1. b = a
    BY <1>1, <1>3 DEF b
  <2>2. ASSUME NEW i \in DOMAIN r, f \in r[i].marked
        PROVE  i \in DOMAIN o /\ i < Len(o) /\ o[i] = r[i]
    BY <1>0, <1>3, <2>2
  <2>3. ASSUME NEW i \in DOMAIN o, f \in o[i].marked
        PROVE  i \in DOMAIN r /\ o[i] = r[i]
    BY <1>0, <1>3, <2>3
  <2>4. ASSUME NEW i \in DOMAIN o, LastMark(o, f, i) PROVE o[i].value.val[f] = a
    <3>1. i \in DOMAIN r /\ o[i] = r[i] /\ f \in r[i].marked
      BY <2>3, <2>4 DEF LastMark
    <3>2. \A j \in DOMAIN r : j > i => f \notin r[j].marked
      BY <2>2, <2>4 DEF LastMark
    <3> QED BY <3>1, <3>2 DEF FieldEnds, LastMark
  <2>5. (\A i \in DOMAIN o : f \notin o[i].marked) => w = a
    BY <2>2 DEF FieldEnds
  <2> QED BY <2>1, <2>4, <2>5 DEF FieldEnds, o, b
<1> QED BY <1>2, <1>3

(* Reading one update leaves where the rest of the ring takes the client.  *)
LEMMA ReadField ==
  ASSUME NEW r \in Seq(Update), r # <<>>, NEW f \in Fields, NEW w, NEW a, FieldEnds(r, f, w, a)
  PROVE  FieldEnds(Tail(r), f, IF f \in Head(r).marked THEN Head(r).value.val[f] ELSE w, a)
<1> DEFINE t == Tail(r)
<1>1. /\ t \in Seq(Update) /\ Len(t) = Len(r) - 1 /\ Head(r) = r[1] /\ 1 \in DOMAIN r
      /\ \A i \in 1 .. Len(t) : t[i] = r[i + 1]
  OBVIOUS
<1> HIDE DEF t
<1>2. ASSUME NEW i \in DOMAIN t, LastMark(t, f, i) PROVE t[i].value.val[f] = a
  <2>1. i + 1 \in DOMAIN r /\ t[i] = r[i + 1]
    BY <1>1
  <2>2. ASSUME NEW j \in DOMAIN r, j > i + 1 PROVE f \notin r[j].marked
    <3>1. j - 1 \in DOMAIN t /\ t[j - 1] = r[j] /\ j - 1 > i
      BY <1>1, <2>2
    <3> QED BY <1>2, <3>1 DEF LastMark
  <2>3. LastMark(r, f, i + 1)
    BY <1>2, <2>1, <2>2 DEF LastMark
  <2> QED BY <2>1, <2>3 DEF FieldEnds
<1>3. ASSUME \A i \in DOMAIN t : f \notin t[i].marked
      PROVE  (IF f \in Head(r).marked THEN Head(r).value.val[f] ELSE w) = a
  <2>1. ASSUME NEW j \in DOMAIN r, j > 1 PROVE f \notin r[j].marked
    <3>1. j - 1 \in DOMAIN t /\ t[j - 1] = r[j]
      BY <1>1, <2>1
    <3> QED BY <1>3, <3>1
  <2>2. CASE f \in r[1].marked
    <3>1. LastMark(r, f, 1)
      BY <2>1, <2>2 DEF LastMark
    <3> QED BY <1>1, <2>2, <3>1 DEF FieldEnds
  <2>3. CASE f \notin r[1].marked
    <3>1. \A j \in DOMAIN r : f \notin r[j].marked
      <4>1. \A j \in DOMAIN r : j = 1 \/ j > 1
        BY <1>1
      <4> QED BY <2>1, <2>3, <4>1
    <3> QED BY <1>1, <2>3, <3>1 DEF FieldEnds
  <2> QED BY <2>2, <2>3
<1> QED BY <1>2, <1>3 DEF FieldEnds, t

(* A client catches up field by field.                                     *)
LEMMA CatchesUpFields ==
  \A s, value : CatchesUp(s, value) <=>
    /\ view[s].type = value.type
    /\ \A f \in Fields : FieldEnds(ring[s], f, view[s].val[f], value.val[f])
BY DEF CatchesUp, FieldEnds

-----------------------------------------------------------------------------
(* It holds at first.                                                      *)
LEMMA InitStep == Init => IInv
<1> SUFFICES ASSUME Init PROVE IInv
  OBVIOUS
<1>1. \A s \in Subs : <<>> \in Seq(Update) /\ Len(<<>>) <= Limit[s]
  BY SharedAssumption
<1> QED BY <1>1, SharedAssumption DEF Init, IInv, TypeOK, PutTyped, SeedOrRing

(* A post or a PUT delivers to every listener.                             *)
LEMMA StoreStep ==
  ASSUME IInv, NEW v \in Value, NEW F \in SUBSET Fields, Postable(v, F), Store(v, F),
         DOMAIN put' = Puts, \A u \in Puts : PutTyped(u)' /\ put'[u].st \in {"new", "op", "done"},
         posts' \in 0 .. MaxPosts
  PROVE  IInv'
<1> DEFINE cur == Assign(lib, v, F)
           listening == {s \in subs : stream[s] # "gone"}
           upd(s) == [value |-> cur, marked |-> IF s \in PlainSubs THEN Fields ELSE F]
<1>0. TypeOK
  BY DEF IInv
<1>1. closing = "no" /\ lib # Closed /\ lib \in Value /\ opened = lib.type /\ base \in Value
  BY DEF IInv, TypeOK, Postable
<1>2. /\ cur \in Value /\ cur.type = lib.type
      /\ \A f \in Fields : cur.val[f] = IF f \in F THEN v.val[f] ELSE lib.val[f]
  BY <1>1, AssignFields
<1>3. /\ lib' = cur /\ marks' = marks \cup F /\ subs' = listening
      /\ ring' = [s \in Subs |-> IF s \in listening THEN Deliver(s, cur, F) ELSE ring[s]]
      /\ UNCHANGED <<opened, closing, taken, stream, view, raced, base>>
  BY DEF Store
<1>4. cur # Closed
  BY <1>2, SharedAssumption DEF Value
<1> HIDE DEF cur
<1>5. \A s \in Subs : upd(s) \in Update
  BY <1>2 DEF Update
<1>6. ASSUME NEW s \in Subs
      PROVE  /\ ring[s] \in Seq(Update) /\ Len(ring[s]) <= Limit[s] /\ Limit[s] \in Nat \ {0}
             /\ Deliver(s, cur, F) = Offer(ring[s], Limit[s], upd(s))
             /\ Deliver(s, cur, F) \in Seq(Update) /\ Len(Deliver(s, cur, F)) <= Limit[s]
  <2>1. ring[s] \in Seq(Update) /\ Len(ring[s]) <= Limit[s] /\ Limit[s] \in Nat \ {0}
    BY <1>0, SharedAssumption DEF TypeOK
  <2>2. Deliver(s, cur, F) = Offer(ring[s], Limit[s], upd(s))
    BY DEF Deliver
  <2> HIDE DEF upd
  <2>3. upd(s) \in Update
    BY <1>5
  <2> QED BY <2>1, <2>2, <2>3, OfferCases
<1>7. TypeOK'
  BY <1>0, <1>2, <1>3, <1>6 DEF TypeOK
<1>8. SeedOrRing'
  <2> SUFFICES ASSUME NEW s \in listening, s \notin raced, stream[s] = "open"
               PROVE  CatchesUp(s, lib)'
    BY <1>3 DEF SeedOrRing
  <2>1. s \in Subs /\ s \in subs \ raced /\ CatchesUp(s, lib)
    BY <1>0, <1>1 DEF IInv, SeedOrRing, TypeOK
  <2>2. ring'[s] = Offer(ring[s], Limit[s], upd(s)) /\ view'[s] = view[s]
    BY <1>3, <1>6, <2>1
  <2>3. ASSUME NEW f \in Fields PROVE FieldEnds(ring'[s], f, view[s].val[f], cur.val[f])
    <3>1. FieldEnds(ring[s], f, view[s].val[f], lib.val[f])
      BY <2>1, CatchesUpFields
    <3>2. upd(s).value.val[f] = cur.val[f] /\ (f \notin upd(s).marked => cur.val[f] = lib.val[f])
      BY <1>2
    <3>3. upd(s) \in Update /\ ring[s] \in Seq(Update) /\ Len(ring[s]) <= Limit[s]
          /\ Limit[s] \in Nat \ {0}
      BY <1>5, <1>6, <2>1
    <3> HIDE DEF upd
    <3>4. FieldEnds(Offer(ring[s], Limit[s], upd(s)), f, view[s].val[f], upd(s).value.val[f])
      BY <3>1, <3>2, <3>3, OfferField
    <3> QED BY <2>2, <3>2, <3>4
  <2>4. view[s].type = cur.type
    BY <1>2, <2>1 DEF CatchesUp
  <2> QED BY <1>3, <2>2, <2>3, <2>4 DEF CatchesUp, FieldEnds, LastMark
<1>9. \A s \in Subs : stream[s] = "new" => ring'[s] = <<>> /\ s \notin subs'
  BY <1>3 DEF IInv
<1>10. opened # Closed => \A f \in Fields : lib'.val[f] # base.val[f] => f \in marks'
  BY <1>2, <1>3 DEF IInv
<1>11. lib' # Closed /\ base # Closed /\ opened' = lib'.type /\ closing' = "no"
  BY <1>1, <1>2, <1>3, <1>4 DEF IInv
<1>12. DOMAIN ring' = Subs
  BY <1>3
<1>13. \A s \in Subs : stream'[s] \in {"open", "ended"} => view'[s] \in Value
  BY <1>3 DEF IInv
<1> QED
  BY <1>3, <1>7, <1>8, <1>9, <1>10, <1>11, <1>12, <1>13 DEF IInv

-----------------------------------------------------------------------------
(* An open finds no listener that did not race a close.                    *)
LEMMA OpenStep ==
  ASSUME IInv, NEW v \in Value, NEW F \in SUBSET Fields, Open(v, F) PROVE IInv'
<1>1. v # Closed /\ v.type # Closed /\ v.type \in Types
  BY SharedAssumption DEF Value
<1>2. TypeOK'
  BY <1>1, SharedAssumption DEF Open, IInv, TypeOK
<1>3. SeedOrRing'
  BY DEF Open, IInv, SeedOrRing
<1> QED BY <1>1, <1>2, <1>3 DEF Open, IInv, PutTyped

(* A subscribe takes the value as it is, and a plain one repeats it as its *)
(* first update.                                                           *)
LEMMA SubscribeStep ==
  ASSUME IInv, NEW s \in Subs, Subscribe(s) PROVE IInv'
<1> DEFINE u == [value |-> lib, marked |-> Fields]
<1>1. /\ TypeOK /\ lib \in Value /\ lib # Closed /\ stream[s] = "new" /\ ring[s] = <<>>
      /\ Limit[s] \in Nat \ {0}
  BY SharedAssumption DEF Subscribe, IInv, TypeOK
<1>2. u \in Update
  BY <1>1 DEF Update
<1>3. Deliver(s, lib, Fields) = <<u>>
  <2>1. Deliver(s, lib, Fields) = Offer(<<>>, Limit[s], u)
    BY <1>1 DEF Deliver
  <2> HIDE DEF u
  <2> QED BY <1>1, <2>1 DEF Offer
<1>4. /\ DOMAIN ring' = Subs /\ (ring'[s] = <<>> \/ ring'[s] = <<u>>)
      /\ \A t \in Subs : t # s => ring'[t] = ring[t]
  <2>1. DOMAIN ring = Subs
    BY DEF IInv
  <2>2. ring' = ring \/ ring' = [ring EXCEPT ![s] = <<u>>]
    BY <1>3 DEF Subscribe, Seeded
  <2> HIDE DEF u
  <2> QED BY <1>1, <2>1, <2>2
<1>5. \A t \in Subs : ring'[t] \in Seq(Update) /\ Len(ring'[t]) <= Limit[t]
  <2>1. <<>> \in Seq(Update) /\ <<u>> \in Seq(Update) /\ Len(<<>>) = 0 /\ Len(<<u>>) = 1
    BY <1>2
  <2> HIDE DEF u
  <2>2. \A t \in Subs : ring[t] \in Seq(Update) /\ Len(ring[t]) <= Limit[t]
    BY <1>1 DEF TypeOK
  <2>3. ring'[s] \in Seq(Update) /\ Len(ring'[s]) <= Limit[s]
    <3>1. 0 <= Limit[s] /\ 1 <= Limit[s]
      BY <1>1
    <3>2. CASE ring'[s] = <<>>
      BY <2>1, <3>1, <3>2
    <3>3. CASE ring'[s] = <<u>>
      BY <2>1, <3>1, <3>3
    <3> QED BY <1>4, <3>2, <3>3
  <2> QED BY <1>4, <2>2, <2>3
<1>6. /\ view' = [view EXCEPT ![s] = lib] /\ stream' = [stream EXCEPT ![s] = "open"]
      /\ subs' = subs \cup {s} /\ raced' = IF closing = "no" THEN raced ELSE raced \cup {s}
      /\ UNCHANGED <<lib, opened, marks, closing, taken, base, put, posts>>
  BY DEF Subscribe
<1>7. TypeOK'
  BY <1>1, <1>5, <1>6 DEF TypeOK
<1>8. SeedOrRing'
  <2> SUFFICES ASSUME NEW t \in subs', t \notin raced', stream'[t] = "open"
               PROVE  CatchesUp(t, lib)'
    BY DEF SeedOrRing
  <2>1. CASE t = s
    <3>1. view'[s] = lib /\ lib' = lib
      BY <1>1, <1>6 DEF TypeOK
    <3>2. \A i \in DOMAIN ring'[s] : ring'[s][i] = u
      BY <1>4
    <3> QED BY <2>1, <3>1, <3>2 DEF CatchesUp, LastMark
  <2>2. CASE t # s
    <3>1. /\ t \in subs \ raced /\ stream[t] = "open" /\ t \in Subs
          /\ ring'[t] = ring[t] /\ view'[t] = view[t] /\ lib' = lib
      BY <1>1, <1>4, <1>6, <2>2 DEF TypeOK
    <3>2. CatchesUp(t, lib)
      BY <1>1, <3>1 DEF IInv, SeedOrRing
    <3> QED BY <3>1, <3>2 DEF CatchesUp, LastMark
  <2> QED BY <2>1, <2>2
<1>9. \A t \in Subs : stream'[t] = "new" => ring'[t] = <<>> /\ t \notin subs'
  BY <1>1, <1>4, <1>6 DEF IInv, TypeOK
<1>10. \A t \in Subs : stream'[t] \in {"open", "ended"} => view'[t] \in Value
  BY <1>1, <1>6 DEF IInv, TypeOK
<1>11. closing # "no" => subs' \subseteq raced'
  BY <1>6 DEF IInv
<1> HIDE DEF u
<1>12. DOMAIN ring' = Subs
  BY <1>4
<1> QED
  BY <1>1, <1>6, <1>7, <1>8, <1>9, <1>10, <1>11, <1>12 DEF IInv, PutTyped

(* A read applies what the head of the ring marks.                         *)
LEMMA ReadStep ==
  ASSUME IInv, NEW s \in Subs, Read(s) PROVE IInv'
<1> DEFINE u == Head(ring[s])
           w == Assign(view[s], u.value, u.marked)
<1>0. TypeOK
  BY DEF IInv
<1>1. ring[s] \in Seq(Update) /\ ring[s] # <<>> /\ Len(ring[s]) <= Limit[s]
  BY <1>0 DEF TypeOK, Read
<1>2. u \in Update /\ u.value \in Value /\ u.marked \in SUBSET Fields
  <2>1. u \in Update
    BY <1>1
  <2> QED BY <2>1 DEF Update
<1>3. /\ view' = [view EXCEPT ![s] = w] /\ ring' = [ring EXCEPT ![s] = Tail(ring[s])]
      /\ UNCHANGED <<lib, opened, marks, subs, closing, taken, stream, raced, base, put, posts>>
      /\ stream[s] # "new"
  BY DEF Read
<1>4. Tail(ring[s]) \in Seq(Update) /\ Len(Tail(ring[s])) <= Limit[s]
  <2>1. Limit[s] \in Nat /\ Len(ring[s]) \in Nat
    BY <1>1, SharedAssumption
  <2>2. Tail(ring[s]) \in Seq(Update) /\ Len(Tail(ring[s])) = Len(ring[s]) - 1
    BY <1>1
  <2> QED BY <1>1, <2>1, <2>2
<1>5. view[s] \in Value /\ w \in Value
  <2>1. view[s] \in Value
    BY DEF IInv, Read
  <2> QED BY <1>2, <2>1, AssignFields
<1>6. \A f \in Fields : w.val[f] = IF f \in u.marked THEN u.value.val[f] ELSE view[s].val[f]
  BY <1>2, <1>5, AssignFields
<1>7. w.type = view[s].type
  BY <1>2, <1>5, AssignFields
<1> HIDE DEF u, w
<1>8. /\ DOMAIN ring' = Subs /\ ring'[s] = Tail(ring[s]) /\ view'[s] = w
      /\ \A t \in Subs : t # s => ring'[t] = ring[t] /\ view'[t] = view[t]
  BY <1>0, <1>3 DEF IInv, TypeOK
<1>9. TypeOK'
  BY <1>0, <1>3, <1>4, <1>5, <1>8 DEF TypeOK
<1>10. SeedOrRing'
  <2> SUFFICES ASSUME NEW t \in subs, t \notin raced, stream[t] = "open", lib # Closed
               PROVE  CatchesUp(t, lib)'
    BY <1>3 DEF SeedOrRing
  <2>1. CatchesUp(t, lib) /\ t \in Subs
    BY <1>0 DEF IInv, SeedOrRing, TypeOK
  <2>2. CASE t # s
    BY <1>3, <1>8, <2>1, <2>2 DEF CatchesUp, LastMark
  <2>3. CASE t = s
    <3>1. ASSUME NEW f \in Fields
          PROVE  FieldEnds(ring'[s], f, w.val[f], lib.val[f])
      <4>1. FieldEnds(ring[s], f, view[s].val[f], lib.val[f])
        BY <2>1, <2>3, CatchesUpFields
      <4>2. FieldEnds(Tail(ring[s]), f,
                      IF f \in Head(ring[s]).marked THEN Head(ring[s]).value.val[f]
                      ELSE view[s].val[f], lib.val[f])
        BY <1>1, <4>1, ReadField
      <4>3. w.val[f] = IF f \in Head(ring[s]).marked THEN Head(ring[s]).value.val[f]
                       ELSE view[s].val[f]
        BY <1>6 DEF u
      <4> QED BY <1>8, <4>2, <4>3
    <3>2. w.type = lib.type
      BY <1>7, <2>1, <2>3 DEF CatchesUp
    <3> QED BY <1>3, <1>8, <2>3, <3>1, <3>2 DEF CatchesUp, FieldEnds, LastMark
  <2> QED BY <2>2, <2>3
<1>11. \A t \in Subs : stream'[t] \in {"open", "ended"} => view'[t] \in Value
  BY <1>3, <1>5, <1>8 DEF IInv
<1>12. \A t \in Subs : stream'[t] = "new" => ring'[t] = <<>> /\ t \notin subs'
  BY <1>3, <1>8 DEF IInv
<1> QED BY <1>3, <1>8, <1>9, <1>10, <1>11, <1>12 DEF IInv, PutTyped

(* A client that left has no ring.                                         *)
LEMMA LeaveStep ==
  ASSUME IInv, NEW s \in Subs, Leave(s) PROVE IInv'
<1>1. <<>> \in Seq(Update) /\ \A t \in Subs : Len(<<>>) <= Limit[t]
  BY SharedAssumption
<1>2. TypeOK'
  BY <1>1 DEF Leave, IInv, TypeOK
<1>3. /\ DOMAIN ring' = Subs
      /\ \A t \in Subs : t # s => ring'[t] = ring[t] /\ view'[t] = view[t] /\ stream'[t] = stream[t]
      /\ ring'[s] = <<>> /\ stream'[s] = "gone"
      /\ UNCHANGED <<lib, opened, marks, subs, closing, taken, raced, base, put, posts>>
  BY DEF Leave, IInv, TypeOK
<1>4. SeedOrRing'
  <2> SUFFICES ASSUME NEW t \in subs, t \notin raced, stream'[t] = "open", lib # Closed
               PROVE  CatchesUp(t, lib)'
    BY <1>3 DEF SeedOrRing
  <2>1. t \in Subs /\ t # s
    BY <1>3 DEF IInv, TypeOK
  <2>2. CatchesUp(t, lib)
    BY <1>3, <2>1 DEF IInv, SeedOrRing
  <2> QED BY <1>3, <2>1, <2>2 DEF CatchesUp, LastMark
<1>5. \A t \in Subs : /\ stream'[t] \in {"open", "ended"} => view'[t] \in Value
                      /\ stream'[t] = "new" => ring'[t] = <<>> /\ t \notin subs'
  BY <1>3 DEF IInv
<1> QED BY <1>2, <1>3, <1>4, <1>5 DEF IInv, PutTyped

(* The three halves of a close.                                            *)
LEMMA CloseStep == IInv /\ (CloseState \/ CloseLib \/ CloseSubs) => IInv'
<1> SUFFICES ASSUME IInv PROVE CloseState \/ CloseLib \/ CloseSubs => IInv'
  OBVIOUS
<1>1. CASE CloseState
  BY <1>1 DEF CloseState, IInv, TypeOK, SeedOrRing, PutTyped
<1>2. CASE CloseLib
  BY <1>2, SharedAssumption DEF CloseLib, IInv, TypeOK, SeedOrRing, PutTyped
<1>3. CASE CloseSubs
  <2>1. TypeOK'
    BY <1>3 DEF CloseSubs, IInv, TypeOK
  <2>2. SeedOrRing'
    BY <1>3 DEF CloseSubs, IInv, SeedOrRing
  <2> QED BY <1>3, <2>1, <2>2 DEF CloseSubs, IInv, PutTyped, TypeOK
<1> QED BY <1>1, <1>2, <1>3

(* A PUT starts from the current value, and is posted or refused.          *)
LEMMA PutStep ==
  ASSUME IInv, NEW u \in Puts,
         (\E v \in Value, F \in (SUBSET Fields) \ {{}} : PutStarts(u, v, F)) \/ PutPosted(u)
  PROVE  IInv'
<1>1. CASE \E v \in Value, F \in (SUBSET Fields) \ {{}} : PutStarts(u, v, F)
  <2>1. PICK v \in Value, F \in (SUBSET Fields) \ {{}} : PutStarts(u, v, F)
    BY <1>1
  <2>2. lib \in Value /\ Assign(lib, v, F) \in Value
    <3>1. lib \in Value
      BY <2>1 DEF PutStarts, IInv, TypeOK
    <3> QED BY <3>1, AssignFields
  <2> DEFINE p == [st |-> "op", value |-> Assign(lib, v, F), marked |-> F,
                   asked |-> [f \in F |-> v.val[f]]]
  <2>3. p.st = "op" /\ p.value \in Value /\ p.marked \in SUBSET Fields
    BY <2>2
  <2>4. /\ put' = [put EXCEPT ![u] = p]
        /\ UNCHANGED <<lib, opened, marks, subs, closing, taken, ring, stream, view, raced, base, posts>>
    BY <2>1 DEF PutStarts
  <2> HIDE DEF p
  <2>5. DOMAIN put' = Puts /\ put'[u] = p /\ \A x \in Puts : x # u => put'[x] = put[x]
    BY <2>4 DEF IInv
  <2>6. \A x \in Puts : PutTyped(x)' /\ put'[x].st \in {"new", "op", "done"}
    BY <2>3, <2>5 DEF IInv, PutTyped, TypeOK
  <2>7. TypeOK' /\ SeedOrRing'
    BY <2>4, <2>6 DEF IInv, TypeOK, SeedOrRing, CatchesUp, LastMark
  <2> QED BY <2>4, <2>5, <2>6, <2>7 DEF IInv
<1>2. CASE PutPosted(u)
  <2>1. put[u].st = "op" /\ put' = [put EXCEPT ![u].st = "done"] /\ posts' = posts
    BY <1>2 DEF PutPosted
  <2>2. DOMAIN put' = Puts /\ put'[u].st = "done" /\ \A x \in Puts : x # u => put'[x] = put[x]
    BY <2>1 DEF IInv
  <2>3. \A x \in Puts : PutTyped(x)' /\ put'[x].st \in {"new", "op", "done"}
    BY <2>2 DEF IInv, PutTyped, TypeOK
  <2>4. CASE Postable(put[u].value, put[u].marked)
    <3>1. put[u].value \in Value /\ put[u].marked \in SUBSET Fields /\ posts' \in 0 .. MaxPosts
      BY <2>1 DEF IInv, PutTyped, TypeOK
    <3>2. Store(put[u].value, put[u].marked)
      BY <1>2, <2>4 DEF PutPosted
    <3> QED BY <2>2, <2>3, <2>4, <3>1, <3>2, StoreStep
  <2>5. CASE ~Postable(put[u].value, put[u].marked)
    <3>1. UNCHANGED <<lib, opened, marks, subs, closing, taken, ring, stream, view, raced, base, posts>>
      BY <1>2, <2>5 DEF PutPosted
    <3>2. TypeOK' /\ SeedOrRing'
      BY <2>3, <3>1 DEF IInv, TypeOK, SeedOrRing, CatchesUp, LastMark
    <3> QED BY <2>2, <2>3, <3>1, <3>2 DEF IInv
  <2> QED BY <2>4, <2>5
<1> QED BY <1>1, <1>2

(* Every step keeps the invariant.                                         *)
LEMMA SharedStep == IInv /\ [Next]_vars => IInv'
<1> SUFFICES ASSUME IInv, [Next]_vars PROVE IInv'
  OBVIOUS
<1>1. ASSUME NEW v \in Value, NEW F \in SUBSET Fields, Post(v, F) PROVE IInv'
  <2>1. posts' \in 0 .. MaxPosts
    BY <1>1, SharedAssumption DEF Post, IInv, TypeOK
  <2>2. DOMAIN put' = Puts /\ \A u \in Puts : PutTyped(u)' /\ put'[u].st \in {"new", "op", "done"}
    BY <1>1 DEF Post, IInv, PutTyped, TypeOK
  <2> QED BY <1>1, <2>1, <2>2, StoreStep DEF Post
<1>2. CASE UNCHANGED vars
  BY <1>2 DEF vars, IInv, TypeOK, SeedOrRing, CatchesUp, LastMark, PutTyped
<1> QED
  BY <1>1, <1>2, OpenStep, PutStep, CloseStep, SubscribeStep, ReadStep, LeaveStep DEF Next

(* So it holds always.                                                     *)
LEMMA SharedInvariant == Spec => []IInv
  BY InitStep, SharedStep, PTL DEF Spec

(* server.rs, PvEntry open, post and close: the entry's own type and marks *)
(* agree with the library's PV whenever no close is under way, whatever    *)
(* ran meanwhile, for any number of subscribers and PUTs.                  *)
THEOREM EntryAgrees == Spec => []OpenAgrees
<1>1. IInv => OpenAgrees
  BY DEF IInv, OpenAgrees
<1> QED BY <1>1, SharedInvariant, PTL

(* server.rs, PvEntry.subscribe and MonitorRing: a client that keeps its   *)
(* seed and applies the marked fields of its ring, squashed or not,        *)
(* arrives at the current value, for rings of any size.                    *)
THEOREM EveryPostSeen == Spec => []SeedOrRing
<1>1. IInv => SeedOrRing
  BY DEF IInv
<1> QED BY <1>1, SharedInvariant, PTL

-----------------------------------------------------------------------------
(* What the fields were last given, next to what a PUT under way will give *)
(* them: the operation still carries what its client asked for.            *)
AsAsked(u) ==
  put[u].st = "op" => \A f \in put[u].marked : put[u].value.val[f] = put[u].asked[f]

Stands == LastWriteStands /\ \A u \in Puts : AsAsked(u)

(* A write of the fields of F moves the library's value and the record of  *)
(* what was written together.                                              *)
LEMMA StoreStands ==
  ASSUME IInv, LastWriteStands, NEW v \in Value, NEW F \in SUBSET Fields, Postable(v, F), Store(v, F),
         NEW new, \A f \in F : v.val[f] = new[f], wrote' = Given(new, F)
  PROVE  LastWriteStands'
<1>1. lib # Closed /\ lib \in Value
  BY DEF IInv, TypeOK, Postable
<1>2. /\ lib' = Assign(lib, v, F)
      /\ \A f \in Fields : Assign(lib, v, F).val[f] = IF f \in F THEN v.val[f] ELSE lib.val[f]
  BY <1>1, AssignFields DEF Store
<1>3. \A f \in Fields : wrote'[f] = IF f \in F THEN new[f] ELSE wrote[f]
  BY DEF Given
<1> QED BY <1>1, <1>2, <1>3 DEF LastWriteStands

(* The step of a PUT: it takes its client's fields with it, and gives them *)
(* to the PV as they are.                                                  *)
LEMMA PutStands ==
  ASSUME IInv, Stands, NEW u \in Puts,
         (\E v \in Value, F \in (SUBSET Fields) \ {{}} : PutStarts(u, v, F)) \/ PutPosted(u)
  PROVE  Stands'
<1>0. DOMAIN put = Puts /\ PutTyped(u) /\ AsAsked(u)
  BY DEF IInv, Stands
<1>1. CASE \E v \in Value, F \in (SUBSET Fields) \ {{}} : PutStarts(u, v, F)
  <2>1. PICK v \in Value, F \in (SUBSET Fields) \ {{}} : PutStarts(u, v, F)
    BY <1>1
  <2>2. \A f \in F : Assign(lib, v, F).val[f] = v.val[f]
    <3>1. lib \in Value
      BY <2>1 DEF PutStarts, IInv, TypeOK
    <3> QED BY <3>1, AssignFields
  <2> DEFINE p == [st |-> "op", value |-> Assign(lib, v, F), marked |-> F,
                   asked |-> [f \in F |-> v.val[f]]]
  <2>3. \A f \in p.marked : p.value.val[f] = p.asked[f]
    BY <2>2
  <2>4. put' = [put EXCEPT ![u] = p] /\ lib' = lib /\ wrote' = wrote
    BY <2>1 DEF PutStarts
  <2> HIDE DEF p
  <2>5. \A x \in Puts : put'[x] = IF x = u THEN p ELSE put[x]
    BY <1>0, <2>4
  <2>6. \A x \in Puts : AsAsked(x)'
    BY <2>3, <2>5 DEF Stands, AsAsked
  <2> QED BY <2>4, <2>6 DEF Stands, LastWriteStands
<1>2. CASE PutPosted(u)
  <2>1. put[u].st = "op" /\ put' = [put EXCEPT ![u].st = "done"]
    BY <1>2 DEF PutPosted
  <2>2. \A x \in Puts : AsAsked(x)'
    <3>1. put'[u].st = "done" /\ \A x \in Puts : x # u => put'[x] = put[x]
      BY <1>0, <2>1
    <3> QED BY <3>1 DEF Stands, AsAsked
  <2>3. CASE Postable(put[u].value, put[u].marked)
    <3>1. Store(put[u].value, put[u].marked) /\ wrote' = Given(put[u].asked, put[u].marked)
      BY <1>2, <2>3 DEF PutPosted
    <3>2. /\ put[u].value \in Value /\ put[u].marked \in SUBSET Fields
          /\ \A f \in put[u].marked : put[u].value.val[f] = put[u].asked[f]
      BY <1>0, <2>1 DEF PutTyped, AsAsked
    <3>3. LastWriteStands'
      BY <2>3, <3>1, <3>2, StoreStands DEF Stands
    <3> QED BY <2>2, <3>3 DEF Stands
  <2>4. CASE ~Postable(put[u].value, put[u].marked)
    <3>1. lib' = lib /\ wrote' = wrote
      BY <1>2, <2>4 DEF PutPosted
    <3> QED BY <2>2, <3>1 DEF Stands, LastWriteStands
  <2> QED BY <2>3, <2>4
<1> QED BY <1>1, <1>2

LEMMA StandsStep == IInv /\ Stands /\ [Next]_vars => Stands'
<1> SUFFICES ASSUME IInv, Stands, [Next]_vars PROVE Stands'
  OBVIOUS
<1>1. ASSUME NEW v \in Value, NEW F \in SUBSET Fields, Open(v, F) PROVE Stands'
  BY <1>1 DEF Open, Stands, LastWriteStands, AsAsked
<1>2. ASSUME NEW v \in Value, NEW F \in SUBSET Fields, Post(v, F) PROVE Stands'
  <2>1. LastWriteStands'
    BY <1>2, StoreStands DEF Post, Stands
  <2> QED BY <1>2, <2>1 DEF Post, Stands, AsAsked
<1>3. CASE CloseState \/ CloseLib \/ CloseSubs
  BY <1>3 DEF CloseState, CloseLib, CloseSubs, Stands, LastWriteStands, AsAsked
<1>4. ASSUME NEW s \in Subs, Subscribe(s) \/ Read(s) \/ Leave(s) PROVE Stands'
  BY <1>4 DEF Subscribe, Read, Leave, Stands, LastWriteStands, AsAsked
<1>5. CASE UNCHANGED vars
  BY <1>5 DEF vars, Stands, LastWriteStands, AsAsked
<1> QED BY <1>1, <1>2, <1>3, <1>4, <1>5, PutStands DEF Next

(* server.rs, put_delta_checked and PvEntry.post: whatever posts, PUTs and *)
(* reopenings come between the merge of a client's PUT and its post, every *)
(* field stands as the last write that named it gave it, for any number of *)
(* PUTs under way.                                                         *)
THEOREM WritesStand == Spec => []LastWriteStands
<1>1. Init => Stands
  BY DEF Init, Stands, LastWriteStands, AsAsked
<1>2. Stands => LastWriteStands
  BY DEF Stands
<1> QED BY <1>1, <1>2, StandsStep, SharedInvariant, PTL DEF Spec
=============================================================================
