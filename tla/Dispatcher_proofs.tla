------------------------- MODULE Dispatcher_proofs --------------------------
(***************************************************************************)
(* Theorems about Dispatcher for any subscriptions, kinds of items and     *)
(* number of items, and so for batches of any length.                      *)
(***************************************************************************)
EXTENDS Dispatcher, FiniteSetTheorems, SequenceTheorems, WellFoundedInduction, TLAPS

(* The items are planned in the order of their numbers: first those up to  *)
(* Past, then the batch, then the queue.                                   *)
Past == Len(arrived) - Len(queue) - Len(batch)

InLine ==
  stopping.at # "done" =>
    /\ \A i \in DOMAIN batch : batch[i] = Past + i
    /\ \A i \in DOMAIN queue : queue[i] = Past + Len(batch) + i

(* Wherever an item is it has arrived, and no more are dropped than were   *)
(* planned.                                                                *)
Numbers ==
  /\ Past >= 0 /\ Len(arrived) <= MaxItems
  /\ \A i \in DOMAIN batch : batch[i] \in DOMAIN arrived
  /\ \A i \in DOMAIN queue : queue[i] \in DOMAIN arrived
  /\ \A i \in DOMAIN todo : todo[i] \in 1..Past
  /\ \A s \in Subs : dropped[s] <= Past

(* What the drain holds where it is.                                       *)
PlacesA ==
  /\ pc # "plan" => batch = <<>>
  /\ pc \in {"off", "recv", "plan"} => todo = <<>>
  /\ stopping.at = "done" => queue = <<>> /\ ~hubOpen
Busy == {"noting", "opening", "hook", "marking", "ending", "deliver", "callback"}
PlacesB == pc \in Busy => current \in DOMAIN arrived
PlacesC == pc = "ending" => state[Sub(current)] = "closed"

Frames == Numbers /\ PlacesA /\ PlacesB /\ PlacesC

(* Where a subscription whose constructor has come so far can be.          *)
Entered(s) == maker[s] \in {"adding", "added", "started", "made"}
Added(s) == maker[s] \in {"added", "started", "made"}

Arrivals == \A k \in DOMAIN arrived : Entered(Sub(k))
Users == (\A s \in hubSubs : Entered(s)) /\ (\A s \in subs \cup stopping.left : Added(s))
Reopened(s) == s \in Elems(reopened)
Closings ==
  \A s \in Subs :
    /\ ~Entered(s) => state[s] = "opening" /\ ~Reopened(s)
    /\ state[s] # "closed" /\ ~Reopened(s) => closer[s] = "no"
    /\ state[s] # "closed" /\ ~Reopened(s) /\ stopping.at = "no" /\ Added(s) => s \in subs

(* Who has marked a subscription closed and not counted it down is still   *)
(* in the middle of that.                                                  *)
Tokens ==
  \A s \in Subs :
    /\ <<s, "owner">> \in uncounted => closer[s] = "marked"
    /\ <<s, "drain">> \in uncounted => pc = "ending" /\ Sub(current) = s
    /\ <<s, "shutdown">> \in uncounted => stopping.sub = s
    /\ \A who \in Closers : <<s, who>> \in uncounted => Entered(s)

Owned == Arrivals /\ Users /\ Closings /\ Tokens

(* On a loop an event is never handled in the middle of an owner's call,   *)
(* and the drain is over when shutdown() runs: no close is overwritten.    *)
OneAt ==
  /\ pc # "deliver"
  /\ stopping.at # "no" => pc \in {"exited", "dead"}
  /\ reopened = <<>>
HeldOpen == pc \in {"noting", "opening"} => state[Sub(current)] # "closed"

OneThread == Flavour = "loop" => OneAt /\ HeldOpen

(* Without a purge the entry is there when it is counted in.               *)
Counting ==
  "purge" \notin MayHappen =>
    /\ \A s \in Subs : maker[s] # "new" => cached
    /\ CountAccounted

(* What plan() and the drain have made of the items of s so far.           *)
PastItems(s) == {k \in 1..Past : Sub(k) = s}
Rising(q, s) == \A i, j \in DOMAIN q : Sub(q[i]) = s /\ Sub(q[j]) = s /\ i < j => q[i] < q[j]
Lost(s) == PastItems(s) \ Kept(s)
Overtaken(k, s) ==
  \E n \in Kept(s) : k < n /\ s \notin AllUpdates /\ \A x \in PastItems(s) : k <= x /\ x <= n => Kind(x) = "value"

(* Not closed, not opened again after a close, and not shut down.          *)
Whole(s) == state[s] # "closed" /\ ~Reopened(s) /\ stopping.at = "no"

Told(s) ==
  Whole(s) =>
    /\ \A i \in DOMAIN seen[s] : seen[s][i] \in 1..Past
    /\ \A i, j \in DOMAIN seen[s] : i < j => seen[s][i] < seen[s][j]
    /\ Rising(todo, s)
    /\ \A i \in DOMAIN seen[s], j \in DOMAIN todo : Sub(todo[j]) = s => seen[s][i] < todo[j]
    /\ dropped[s] = Cardinality(Lost(s))
    /\ \A k \in Lost(s) : Overtaken(k, s)

IInv == TypeOK /\ InLine /\ Frames /\ Owned /\ OneThread /\ Counting /\ \A s \in Subs : Told(s)

-----------------------------------------------------------------------------
(* Induction over the naturals, with a set for the predicate.              *)
NatLess == {p \in Nat \X Nat : p[1] < p[2]}

(* What holds of 0, and of n + 1 if of n, holds of every natural number.   *)
LEMMA Climb ==
  ASSUME NEW T, 0 \in T, \A n \in Nat : n \in T => n + 1 \in T
  PROVE  \A n \in Nat : n \in T
<1>1. IsWellFoundedOn(NatLess, Nat)
  BY NatLessThanWellFounded DEF OpToRel, NatLess
<1> DEFINE Out == {n \in Nat : n \notin T}
<1>2. SUFFICES ASSUME Out # {} PROVE FALSE
  OBVIOUS
<1>3. PICK m \in Out : \A y \in Out : ~(<<y, m>> \in NatLess)
  <2>1. Out \subseteq Nat
    OBVIOUS
  <2> HIDE DEF Out
  <2> QED BY <1>1, <1>2, <2>1, WFMin
<1>4. m \in Nat /\ m # 0 /\ m \notin T
  OBVIOUS
<1>5. m - 1 \in Nat /\ m - 1 < m /\ (m - 1) + 1 = m
  BY <1>4
<1>6. <<m - 1, m>> \in NatLess
  BY <1>4, <1>5 DEF NatLess
<1>7. m - 1 \in T
  BY <1>3, <1>5, <1>6
<1> QED BY <1>4, <1>5, <1>7

(* The rounds of plan(): there is a function of their results.             *)
IsRounds(u, b, m) == u = [n \in 0..m |-> IF n = 0 THEN Nothing ELSE PlanItem(u[n - 1], b[n])]

(* The rounds of any number of items have results, ...                     *)
LEMMA RoundsExist ==
  ASSUME NEW b, NEW m \in Nat
  PROVE  \E u : IsRounds(u, b, m)
<1> DEFINE T == {k \in Nat : \E u : IsRounds(u, b, k)}
<1>1. 0 \in T
  <2> DEFINE h == [n \in 0..0 |-> Nothing]
  <2>1. h = [n \in 0..0 |-> IF n = 0 THEN Nothing ELSE PlanItem(h[n - 1], b[n])]
    OBVIOUS
  <2> HIDE DEF h
  <2>2. IsRounds(h, b, 0)
    BY <2>1 DEF IsRounds
  <2> QED BY <2>2
<1>2. ASSUME NEW k \in Nat, k \in T PROVE k + 1 \in T
  <2>1. PICK u : IsRounds(u, b, k)
    BY <1>2
  <2> DEFINE h == [n \in 0..(k + 1) |-> IF n <= k THEN u[n] ELSE PlanItem(u[k], b[k + 1])]
  <2>2. \A n \in 0..k : u[n] = IF n = 0 THEN Nothing ELSE PlanItem(u[n - 1], b[n])
    BY <2>1 DEF IsRounds
  <2>3. /\ DOMAIN h = 0..(k + 1) /\ h = [n \in 0..(k + 1) |-> h[n]]
        /\ \A n \in 0..k : h[n] = u[n]
        /\ h[k + 1] = PlanItem(u[k], b[k + 1])
    OBVIOUS
  <2> HIDE DEF h
  <2>4. ASSUME NEW n \in 0..(k + 1) PROVE h[n] = IF n = 0 THEN Nothing ELSE PlanItem(h[n - 1], b[n])
    <3>1. CASE n = 0
      BY <2>2, <2>3, <3>1
    <3>2. CASE n # 0 /\ n <= k
      <4>1. n \in 0..k /\ n - 1 \in 0..k
        BY <3>2
      <4> QED BY <2>2, <2>3, <3>2, <4>1
    <3>3. CASE n = k + 1
      <4>1. n - 1 = k /\ k \in 0..k /\ n # 0
        BY <3>3
      <4> QED BY <2>3, <3>3, <4>1
    <3> QED BY <3>1, <3>2, <3>3
  <2>5. IsRounds(h, b, k + 1)
    BY <2>3, <2>4 DEF IsRounds
  <2> QED BY <2>5
<1>3. \A k \in Nat : k \in T
  <2> HIDE DEF T
  <2> QED BY <1>1, <1>2, Climb
<1> QED BY <1>3

(* ... so plan() is one round after the other.                             *)
LEMMA PlannedByRounds ==
  ASSUME NEW b, Len(b) \in Nat
  PROVE  \E u : /\ u[0] = Nothing
                /\ \A n \in 1..Len(b) : u[n] = PlanItem(u[n - 1], b[n])
                /\ Planned(b) = u[Len(b)]
<1> DEFINE u == CHOOSE u : u = [n \in 0..Len(b) |-> IF n = 0 THEN Nothing ELSE PlanItem(u[n - 1], b[n])]
<1>1. u = [n \in 0..Len(b) |-> IF n = 0 THEN Nothing ELSE PlanItem(u[n - 1], b[n])]
  BY RoundsExist DEF IsRounds
<1>2. Planned(b) = u[Len(b)]
  BY DEF Planned
<1> HIDE DEF u
<1>3. u[0] = Nothing /\ \A n \in 1..Len(b) : u[n] = PlanItem(u[n - 1], b[n])
  BY <1>1
<1> QED BY <1>2, <1>3

-----------------------------------------------------------------------------
(* What one round of plan() makes of an item.                              *)
Skipped(acc, a, k) == Sub(k) \notin subs /\ a = acc
Overtook(acc, a, k) ==
  /\ Sub(k) \in subs /\ Kind(k) = "value" /\ Sub(k) \notin AllUpdates /\ acc.at[Sub(k)] # 0
  /\ a.out = [acc.out EXCEPT ![acc.at[Sub(k)]] = k]
  /\ a.at = acc.at
  /\ a.drops = [acc.drops EXCEPT ![Sub(k)] = @ + 1]
Opened(acc, a, k) ==
  /\ Sub(k) \in subs /\ Kind(k) = "value" /\ Sub(k) \notin AllUpdates /\ acc.at[Sub(k)] = 0
  /\ a.out = Append(acc.out, k)
  /\ a.at = [acc.at EXCEPT ![Sub(k)] = Len(acc.out) + 1]
  /\ a.drops = acc.drops
Passed(acc, a, k) ==
  /\ Sub(k) \in subs
  /\ a.out = Append(acc.out, k)
  /\ a.at = [acc.at EXCEPT ![Sub(k)] = 0]
  /\ a.drops = acc.drops

Plans == [out: Seq(Nat), at: [Subs -> Nat], drops: [Subs -> Nat]]

(* A round does one of four things.                                        *)
LEMMA ItemCases ==
  ASSUME NEW acc \in Plans, NEW k, Sub(k) \in Subs, subs \subseteq Subs, NEW a, a = PlanItem(acc, k)
  PROVE  /\ a = [out |-> a.out, at |-> a.at, drops |-> a.drops]
         /\ \/ Skipped(acc, a, k) \/ Overtook(acc, a, k) \/ Opened(acc, a, k) \/ Passed(acc, a, k)
<1>0. acc = [out |-> acc.out, at |-> acc.at, drops |-> acc.drops]
  BY DEF Plans
<1>1. CASE Sub(k) \notin subs
  BY <1>0, <1>1 DEF PlanItem, Skipped
<1>2. CASE Sub(k) \in subs /\ Kind(k) = "value" /\ Sub(k) \notin AllUpdates /\ acc.at[Sub(k)] # 0
  <2>1. a = Overtake(acc, Sub(k), k)
    BY <1>2 DEF PlanItem
  <2>2. a = [out |-> [acc.out EXCEPT ![acc.at[Sub(k)]] = k], at |-> acc.at,
             drops |-> [acc.drops EXCEPT ![Sub(k)] = @ + 1]]
    BY <2>1, <1>0 DEF Overtake
  <2> QED BY <2>2, <1>2 DEF Overtook
<1>3. CASE Sub(k) \in subs /\ Kind(k) = "value" /\ Sub(k) \notin AllUpdates /\ acc.at[Sub(k)] = 0
  <2>1. a = [acc EXCEPT !.out = Append(@, k), !.at[Sub(k)] = Len(acc.out) + 1]
    BY <1>3 DEF PlanItem
  <2>2. a = [out |-> Append(acc.out, k), at |-> [acc.at EXCEPT ![Sub(k)] = Len(acc.out) + 1],
             drops |-> acc.drops]
    BY <2>1, <1>0
  <2> QED BY <2>2, <1>3 DEF Opened
<1>4. CASE Sub(k) \in subs /\ ~(Kind(k) = "value" /\ Sub(k) \notin AllUpdates)
  <2>1. a = [Collapse(acc, Sub(k)) EXCEPT !.out = Append(@, k)]
    BY <1>4 DEF PlanItem
  <2>2. a = [out |-> Append(acc.out, k), at |-> [acc.at EXCEPT ![Sub(k)] = 0], drops |-> acc.drops]
    BY <2>1, <1>0 DEF Collapse
  <2> QED BY <2>2, <1>4 DEF Passed
<1> QED BY <1>1, <1>2, <1>3, <1>4

(* Whatever the items are: what is planned was in the batch, belongs to a  *)
(* registered subscription, and no more is dropped than was looked at.     *)
PlanShape(acc, n, b) ==
  /\ acc \in Plans
  /\ \A i \in DOMAIN acc.out : Sub(acc.out[i]) \in subs /\ \E j \in 1..n : acc.out[i] = b[j]
  /\ \A s \in Subs : acc.at[s] # 0 => acc.at[s] \in DOMAIN acc.out
  /\ \A s \in Subs : acc.drops[s] <= n

(* Appending ...                                                           *)
LEMMA AppendAt ==
  ASSUME NEW q \in Seq(Nat), NEW k \in Nat, NEW r, r = Append(q, k)
  PROVE  /\ r \in Seq(Nat) /\ Len(r) = Len(q) + 1 /\ DOMAIN r = 1..(Len(q) + 1)
         /\ r[Len(q) + 1] = k
         /\ \A i \in DOMAIN q : i \in DOMAIN r /\ i # Len(q) + 1 /\ r[i] = q[i]
         /\ \A i \in DOMAIN r : i = Len(q) + 1 \/ i \in DOMAIN q
<1>1. Len(q) \in Nat /\ DOMAIN q = 1..Len(q)
  OBVIOUS
<1>2. r \in Seq(Nat) /\ Len(r) = Len(q) + 1 /\ DOMAIN r = 1..(Len(q) + 1)
  BY AppendProperties
<1>3. r[Len(q) + 1] = k /\ \A i \in 1..Len(q) : r[i] = q[i]
  BY AppendProperties
<1> QED BY <1>1, <1>2, <1>3

(* ... and replacing an element.                                           *)
LEMMA PutAt ==
  ASSUME NEW q \in Seq(Nat), NEW k \in Nat, NEW p \in DOMAIN q, NEW r, r = [q EXCEPT ![p] = k]
  PROVE  /\ r \in Seq(Nat) /\ DOMAIN r = DOMAIN q /\ r[p] = k
         /\ \A i \in DOMAIN q : i # p => r[i] = q[i]
<1>1. Len(q) \in Nat /\ DOMAIN q = 1..Len(q) /\ \A i \in 1..Len(q) : q[i] \in Nat
  OBVIOUS
<1>2. DOMAIN r = DOMAIN q /\ r[p] = k /\ \A i \in DOMAIN q : i # p => r[i] = q[i]
  OBVIOUS
<1>3. r \in Seq(Nat)
  BY ExceptSeq
<1> QED BY <1>2, <1>3

(* A round keeps the shape.                                                *)
LEMMA ShapeStep ==
  ASSUME NEW b, NEW n \in Nat, NEW acc, PlanShape(acc, n, b), b[n + 1] \in Nat,
         Sub(b[n + 1]) \in Subs, subs \subseteq Subs
  PROVE  PlanShape(PlanItem(acc, b[n + 1]), n + 1, b)
<1> DEFINE k == b[n + 1]
<1> DEFINE s == Sub(k)
<1> DEFINE a == PlanItem(acc, k)
<1>1. acc \in Plans /\ k \in Nat /\ s \in Subs
  BY DEF PlanShape
<1>2. /\ a = [out |-> a.out, at |-> a.at, drops |-> a.drops]
      /\ \/ Skipped(acc, a, k) \/ Overtook(acc, a, k) \/ Opened(acc, a, k) \/ Passed(acc, a, k)
  BY <1>1, ItemCases
<1>3. acc.out \in Seq(Nat) /\ acc.at \in [Subs -> Nat] /\ acc.drops \in [Subs -> Nat]
  BY <1>1 DEF Plans
<1>4. /\ \A i \in DOMAIN acc.out : Sub(acc.out[i]) \in subs /\ \E j \in 1..n : acc.out[i] = b[j]
      /\ \A t \in Subs : acc.at[t] # 0 => acc.at[t] \in DOMAIN acc.out
      /\ \A t \in Subs : acc.drops[t] <= n
  BY DEF PlanShape
<1>5. k = b[n + 1] /\ s = Sub(k)
  OBVIOUS
<1>6. /\ n + 1 \in 1..(n + 1) /\ \A j \in 1..n : j \in 1..(n + 1)
  OBVIOUS
<1>7. SUFFICES /\ a.out \in Seq(Nat) /\ a.at \in [Subs -> Nat] /\ a.drops \in [Subs -> Nat]
               /\ \A i \in DOMAIN a.out : Sub(a.out[i]) \in subs /\ (a.out[i] = b[n + 1] \/ \E j \in 1..n : a.out[i] = b[j])
               /\ \A t \in Subs : a.at[t] # 0 => a.at[t] \in DOMAIN a.out
               /\ \A t \in Subs : a.drops[t] <= n + 1
  <2>1. a \in Plans
    BY <1>2, <1>7 DEF Plans
  <2>2. \A i \in DOMAIN a.out : Sub(a.out[i]) \in subs /\ \E j \in 1..(n + 1) : a.out[i] = b[j]
    BY <1>6, <1>7
  <2> QED BY <2>1, <2>2, <1>7 DEF PlanShape
<1> HIDE DEF k, s, a
<1>8. CASE Skipped(acc, a, k)
  <2>1. a = acc
    BY <1>8 DEF Skipped
  <2>2. \A t \in Subs : acc.drops[t] <= n + 1
    BY <1>3, <1>4
  <2> QED BY <2>1, <2>2, <1>3, <1>4
<1>9. CASE Overtook(acc, a, k)
  <2>1. /\ s \in subs /\ acc.at[s] # 0 /\ a.out = [acc.out EXCEPT ![acc.at[s]] = k]
        /\ a.at = acc.at /\ a.drops = [acc.drops EXCEPT ![s] = @ + 1]
    BY <1>9, <1>5 DEF Overtook
  <2>2. acc.at[s] \in DOMAIN acc.out
    BY <2>1, <1>1, <1>4
  <2>3. /\ a.out \in Seq(Nat) /\ DOMAIN a.out = DOMAIN acc.out /\ a.out[acc.at[s]] = k
        /\ \A i \in DOMAIN acc.out : i # acc.at[s] => a.out[i] = acc.out[i]
    BY <2>1, <2>2, <1>1, <1>3, PutAt
  <2>4. a.drops \in [Subs -> Nat] /\ \A t \in Subs : a.drops[t] <= n + 1
    <3> DEFINE d == acc.drops
    <3>1. d \in [Subs -> Nat] /\ (\A t \in Subs : d[t] <= n) /\ a.drops = [d EXCEPT ![s] = @ + 1]
      BY <2>1, <1>3, <1>4
    <3> HIDE DEF d
    <3>2. DOMAIN a.drops = Subs /\ a.drops = [t \in Subs |-> IF t = s THEN d[t] + 1 ELSE d[t]]
      BY <3>1
    <3>3. ASSUME NEW t \in Subs PROVE a.drops[t] \in Nat /\ a.drops[t] <= n + 1
      <4>1. d[t] \in Nat /\ d[t] <= n
        BY <3>1
      <4> QED BY <3>2, <4>1
    <3> QED BY <3>2, <3>3
  <2>5. \A i \in DOMAIN a.out : Sub(a.out[i]) \in subs /\ (a.out[i] = b[n + 1] \/ \E j \in 1..n : a.out[i] = b[j])
    BY <2>1, <2>3, <1>4, <1>5
  <2> QED BY <2>1, <2>3, <2>4, <2>5, <1>3, <1>4
<1>10. CASE Opened(acc, a, k) \/ Passed(acc, a, k)
  <2>1. /\ s \in subs /\ a.out = Append(acc.out, k) /\ a.drops = acc.drops
        /\ (a.at = [acc.at EXCEPT ![s] = Len(acc.out) + 1] \/ a.at = [acc.at EXCEPT ![s] = 0])
    BY <1>10, <1>5 DEF Opened, Passed
  <2>2. /\ a.out \in Seq(Nat) /\ DOMAIN a.out = 1..(Len(acc.out) + 1) /\ a.out[Len(acc.out) + 1] = k
        /\ \A i \in DOMAIN acc.out : i \in DOMAIN a.out /\ a.out[i] = acc.out[i]
        /\ \A i \in DOMAIN a.out : i = Len(acc.out) + 1 \/ i \in DOMAIN acc.out
    <3> DEFINE q == acc.out
    <3>1. q \in Seq(Nat) /\ a.out = Append(q, k)
      BY <2>1, <1>3
    <3> HIDE DEF q
    <3>2. /\ a.out \in Seq(Nat) /\ DOMAIN a.out = 1..(Len(q) + 1) /\ a.out[Len(q) + 1] = k
          /\ \A i \in DOMAIN q : i \in DOMAIN a.out /\ a.out[i] = q[i]
          /\ \A i \in DOMAIN a.out : i = Len(q) + 1 \/ i \in DOMAIN q
      BY <3>1, <1>1, AppendAt
    <3> QED BY <3>2 DEF q
  <2>3. Len(acc.out) + 1 \in Nat /\ Len(acc.out) + 1 \in DOMAIN a.out
    BY <2>2, <1>3
  <2>4. PICK p : (p = Len(acc.out) + 1 \/ p = 0) /\ a.at = [acc.at EXCEPT ![s] = p]
    BY <2>1
  <2>5. /\ a.at \in [Subs -> Nat]
        /\ \A t \in Subs : a.at[t] # 0 => a.at[t] \in DOMAIN a.out
    <3> DEFINE d == acc.at
    <3>1. d \in [Subs -> Nat] /\ (\A t \in Subs : d[t] # 0 => d[t] \in DOMAIN acc.out) /\ a.at = [d EXCEPT ![s] = p]
      BY <2>4, <1>3, <1>4
    <3> HIDE DEF d
    <3>2. a.at = [t \in Subs |-> IF t = s THEN p ELSE d[t]]
      BY <3>1
    <3>3. p \in Nat /\ (p # 0 => p \in DOMAIN a.out)
      BY <2>3, <2>4
    <3> QED BY <3>1, <3>2, <3>3, <2>2
  <2>6. \A i \in DOMAIN a.out : Sub(a.out[i]) \in subs /\ (a.out[i] = b[n + 1] \/ \E j \in 1..n : a.out[i] = b[j])
    BY <2>1, <2>2, <1>4, <1>5
  <2>7. \A t \in Subs : a.drops[t] <= n + 1
    BY <2>1, <1>3, <1>4
  <2> QED BY <2>1, <2>2, <2>5, <2>6, <2>7, <1>3
<1> QED BY <1>2, <1>8, <1>9, <1>10

-----------------------------------------------------------------------------
(* The items of t among the first n of a batch numbered from P + 1, those  *)
(* of them plan() has dropped, and what it promises of t.                  *)
Of(t, P, n) == {x \in (P + 1)..(P + n) : Sub(x) = t}
Gone(q, t, P, n) == Of(t, P, n) \ Elems(q)
Covered(q, t, P, n, x) ==
  \E y \in Elems(q) : /\ Sub(y) = t /\ x < y /\ t \notin AllUpdates
                      /\ \A z \in Of(t, P, n) : x <= z /\ z <= y => Kind(z) = "value"

Slot(acc, t, P, n) ==
  LET y == acc.out[acc.at[t]]
  IN  /\ y \in Of(t, P, n) /\ Kind(y) = "value" /\ t \notin AllUpdates
      /\ \A x \in Of(t, P, n) : x <= y

PlanTold(acc, t, P, n) ==
  /\ Rising(acc.out, t)
  /\ acc.at[t] # 0 => Slot(acc, t, P, n)
  /\ t \notin subs => acc.drops[t] = 0
  /\ t \in subs => acc.drops[t] = Cardinality(Gone(acc.out, t, P, n))
  /\ t \in subs => \A x \in Gone(acc.out, t, P, n) : Covered(acc.out, t, P, n, x)

(* In a batch that is in line, the items planned are among those looked at.*)
LEMMA OutBelow ==
  ASSUME NEW b, NEW n \in Nat, NEW P \in Nat, NEW acc, PlanShape(acc, n, b),
         \A j \in 1..n : b[j] = P + j
  PROVE  /\ acc.out \in Seq(Nat) /\ acc.at \in [Subs -> Nat] /\ acc.drops \in [Subs -> Nat]
         /\ \A i \in DOMAIN acc.out : acc.out[i] \in (P + 1)..(P + n)
<1>1. acc.out \in Seq(Nat) /\ acc.at \in [Subs -> Nat] /\ acc.drops \in [Subs -> Nat]
  BY DEF PlanShape, Plans
<1>2. ASSUME NEW i \in DOMAIN acc.out PROVE acc.out[i] \in (P + 1)..(P + n)
  <2>1. PICK j \in 1..n : acc.out[i] = b[j]
    BY DEF PlanShape
  <2>2. acc.out[i] = P + j
    BY <2>1
  <2> QED BY <2>2
<1> QED BY <1>1, <1>2

(* The items looked at after one more.                                     *)
LEMMA OfNext ==
  ASSUME NEW P \in Nat, NEW n \in Nat, NEW t
  PROVE  /\ Sub(P + n + 1) = t => Of(t, P, n + 1) = Of(t, P, n) \cup {P + n + 1}
         /\ Sub(P + n + 1) # t => Of(t, P, n + 1) = Of(t, P, n)
         /\ Of(t, P, n) \subseteq Nat
         /\ \A x \in Of(t, P, n) : x <= P + n /\ x # P + n + 1 /\ Sub(x) = t
         /\ IsFiniteSet(Of(t, P, n))
<1>1. (P + 1)..(P + (n + 1)) = ((P + 1)..(P + n)) \cup {P + n + 1}
  OBVIOUS
<1>2. P + 1 \in Int /\ P + n \in Int
  OBVIOUS
<1>3. IsFiniteSet((P + 1)..(P + n))
  BY <1>2, FS_Interval
<1>4. Of(t, P, n) \subseteq (P + 1)..(P + n)
  BY DEF Of
<1>5. IsFiniteSet(Of(t, P, n))
  BY <1>3, <1>4, FS_Subset
<1>6. \A x \in (P + 1)..(P + n) : x \in Nat /\ x <= P + n /\ x # P + n + 1
  OBVIOUS
<1>7. Of(t, P, n) \subseteq Nat /\ \A x \in Of(t, P, n) : x <= P + n /\ x # P + n + 1 /\ Sub(x) = t
  BY <1>4, <1>6 DEF Of
<1>8. Sub(P + n + 1) = t => Of(t, P, n + 1) = Of(t, P, n) \cup {P + n + 1}
  BY <1>1 DEF Of
<1>9. Sub(P + n + 1) # t => Of(t, P, n + 1) = Of(t, P, n)
  BY <1>1 DEF Of
<1> QED BY <1>5, <1>7, <1>8, <1>9

(* What a round leaves of another subscription's items.                    *)
Same(q, r, t) ==
  /\ \A i \in DOMAIN q : Sub(q[i]) = t => i \in DOMAIN r /\ r[i] = q[i]
  /\ \A i \in DOMAIN r : Sub(r[i]) = t => i \in DOMAIN q /\ r[i] = q[i]

(* They are in the same order.                                             *)
LEMMA SameElems ==
  ASSUME NEW q, NEW r, NEW t, Same(q, r, t)
  PROVE  /\ \A x : Sub(x) = t => (x \in Elems(q) <=> x \in Elems(r))
         /\ Rising(q, t) => Rising(r, t)
<1>1. ASSUME NEW x, Sub(x) = t PROVE x \in Elems(q) <=> x \in Elems(r)
  BY <1>1 DEF Same, Elems
<1>2. Rising(q, t) => Rising(r, t)
  BY DEF Same, Rising
<1> QED BY <1>1, <1>2

(* A round that is not about t keeps what is promised of t.                *)
LEMMA SameTold ==
  ASSUME NEW P \in Nat, NEW n \in Nat, NEW t, NEW acc, NEW a, PlanTold(acc, t, P, n),
         t \in subs => Of(t, P, n + 1) = Of(t, P, n), t \notin subs => a.at[t] = 0,
         Same(acc.out, a.out, t), a.at[t] = acc.at[t], a.drops[t] = acc.drops[t],
         acc.at[t] # 0 => acc.at[t] \in DOMAIN acc.out
  PROVE  PlanTold(a, t, P, n + 1)
<1>1. /\ \A x : Sub(x) = t => (x \in Elems(acc.out) <=> x \in Elems(a.out))
      /\ Rising(a.out, t)
  BY SameElems DEF PlanTold
<1>2. a.at[t] # 0 => Slot(a, t, P, n + 1)
  <2> SUFFICES ASSUME a.at[t] # 0 PROVE Slot(a, t, P, n + 1)
    OBVIOUS
  <2>1. Slot(acc, t, P, n) /\ acc.at[t] \in DOMAIN acc.out /\ t \in subs
    BY DEF PlanTold
  <2>2. Sub(acc.out[acc.at[t]]) = t
    BY <2>1 DEF Slot, Of
  <2>3. a.out[a.at[t]] = acc.out[acc.at[t]]
    BY <2>1, <2>2 DEF Same
  <2> QED BY <2>1, <2>3 DEF Slot
<1>3. ASSUME t \in subs
      PROVE  /\ a.drops[t] = Cardinality(Gone(a.out, t, P, n + 1))
             /\ \A x \in Gone(a.out, t, P, n + 1) : Covered(a.out, t, P, n + 1, x)
  <2>1. Of(t, P, n + 1) = Of(t, P, n) /\ \A x \in Of(t, P, n) : Sub(x) = t
    BY <1>3 DEF Of
  <2>2. Gone(a.out, t, P, n + 1) = Gone(acc.out, t, P, n)
    BY <2>1, <1>1 DEF Gone
  <2>3. a.drops[t] = Cardinality(Gone(a.out, t, P, n + 1))
    BY <1>3, <2>2 DEF PlanTold
  <2>4. ASSUME NEW x \in Gone(a.out, t, P, n + 1) PROVE Covered(a.out, t, P, n + 1, x)
    <3>1. Covered(acc.out, t, P, n, x)
      BY <1>3, <2>2 DEF PlanTold
    <3>2. PICK y \in Elems(acc.out) :
            /\ Sub(y) = t /\ x < y /\ t \notin AllUpdates
            /\ \A z \in Of(t, P, n) : x <= z /\ z <= y => Kind(z) = "value"
      BY <3>1 DEF Covered
    <3>3. y \in Elems(a.out)
      BY <3>2, <1>1
    <3> QED BY <3>2, <3>3, <2>1 DEF Covered
  <2> QED BY <2>3, <2>4
<1> QED BY <1>1, <1>2, <1>3 DEF PlanTold

-----------------------------------------------------------------------------
(* An item of t that is planned comes last; nothing more is lost.          *)
LEMMA AppendTold ==
  ASSUME NEW P \in Nat, NEW n \in Nat, NEW t, NEW acc, NEW a, PlanTold(acc, t, P, n),
         acc.out \in Seq(Nat), \A i \in DOMAIN acc.out : acc.out[i] \in (P + 1)..(P + n),
         Sub(P + n + 1) = t, t \in subs,
         a.out = Append(acc.out, P + n + 1), a.drops[t] = acc.drops[t],
         \/ a.at[t] = 0
         \/ a.at[t] = Len(acc.out) + 1 /\ Kind(P + n + 1) = "value" /\ t \notin AllUpdates
  PROVE  PlanTold(a, t, P, n + 1)
<1> DEFINE k == P + n + 1
<1> DEFINE q == acc.out
<1> DEFINE r == a.out
<1> DEFINE O == Of(t, P, n)
<1>1. k \in Nat /\ k = P + n + 1 /\ q \in Seq(Nat) /\ q = acc.out /\ r = Append(q, k) /\ r = a.out
  OBVIOUS
<1>2. \A i \in DOMAIN q : q[i] \in Nat /\ q[i] < k
  <2>1. \A x \in (P + 1)..(P + n) : x \in Nat /\ x < k
    OBVIOUS
  <2> QED BY <2>1
<1>3. /\ Of(t, P, n + 1) = O \cup {k} /\ O \subseteq Nat
      /\ \A x \in O : x < k /\ x # k
  <2>1. /\ Of(t, P, n + 1) = O \cup {k} /\ O \subseteq Nat /\ IsFiniteSet(O)
        /\ \A x \in O : x <= P + n /\ x # k
    BY OfNext
  <2>2. \A x \in Nat : x <= P + n => x < k
    OBVIOUS
  <2> HIDE DEF O
  <2> QED BY <2>1, <2>2
<1>4. O = Of(t, P, n)
  OBVIOUS
<1> HIDE DEF k, q, r, O
<1>5. /\ DOMAIN r = 1..(Len(q) + 1) /\ r[Len(q) + 1] = k
      /\ \A i \in DOMAIN q : i \in DOMAIN r /\ i # Len(q) + 1 /\ r[i] = q[i]
      /\ \A i \in DOMAIN r : i = Len(q) + 1 \/ i \in DOMAIN q
  BY <1>1, AppendAt
<1>6. Len(q) + 1 \in DOMAIN r /\ Len(q) \in Nat /\ DOMAIN q = 1..Len(q)
  BY <1>1, <1>5
<1>7. Elems(r) = Elems(q) \cup {k}
  BY <1>5, <1>6 DEF Elems
<1>8. \A y \in Elems(q) : y \in Nat /\ y < k
  BY <1>2 DEF Elems
<1>9. Rising(r, t)
  <2> SUFFICES ASSUME NEW i \in DOMAIN r, NEW j \in DOMAIN r, Sub(r[i]) = t, Sub(r[j]) = t, i < j
               PROVE  r[i] < r[j]
    BY DEF Rising
  <2>1. i \in DOMAIN q /\ r[i] = q[i]
    BY <1>5, <1>6
  <2>2. CASE j = Len(q) + 1
    BY <2>1, <2>2, <1>2, <1>5
  <2>3. CASE j \in DOMAIN q
    <3>1. r[j] = q[j]
      BY <2>3, <1>5
    <3> QED BY <2>1, <2>3, <3>1, <1>1 DEF PlanTold, Rising
  <2> QED BY <2>2, <2>3, <1>5
<1>10. Gone(r, t, P, n + 1) = Gone(q, t, P, n)
  BY <1>3, <1>4, <1>7 DEF Gone
<1>11. ASSUME NEW x \in Gone(r, t, P, n + 1) PROVE Covered(r, t, P, n + 1, x)
  <2>1. Covered(q, t, P, n, x)
    BY <1>1, <1>10 DEF PlanTold
  <2>2. PICK y \in Elems(q) :
          /\ Sub(y) = t /\ x < y /\ t \notin AllUpdates
          /\ \A z \in O : x <= z /\ z <= y => Kind(z) = "value"
    BY <2>1, <1>4 DEF Covered
  <2>3. y \in Elems(r) /\ y \in Nat /\ y < k
    BY <1>7, <1>8
  <2>4. \A z \in O \cup {k} : x <= z /\ z <= y => Kind(z) = "value"
    BY <2>2, <2>3, <1>1
  <2> QED BY <2>2, <2>3, <2>4, <1>3 DEF Covered
<1>12. a.at[t] # 0 => Slot(a, t, P, n + 1)
  <2> SUFFICES ASSUME a.at[t] # 0 PROVE Slot(a, t, P, n + 1)
    OBVIOUS
  <2>1. r[a.at[t]] = k /\ Kind(k) = "value" /\ t \notin AllUpdates
    BY <1>1, <1>5
  <2>2. k \in O \cup {k} /\ \A x \in O \cup {k} : x <= k
    <3>1. ASSUME NEW x \in O PROVE x <= k
      <4>1. x \in Nat /\ x < k
        BY <1>3
      <4> QED BY <4>1, <1>1
    <3>2. k <= k
      BY <1>1
    <3> QED BY <3>1, <3>2
  <2>3. a.out[a.at[t]] = k
    BY <2>1, <1>1
  <2> QED BY <2>1, <2>2, <2>3, <1>3 DEF Slot
<1>13. a.drops[t] = Cardinality(Gone(r, t, P, n + 1))
  BY <1>1, <1>10 DEF PlanTold
<1> QED BY <1>1, <1>9, <1>11, <1>12, <1>13 DEF PlanTold

(* A newer value takes the slot: the older one is lost, and covered.       *)
LEMMA OvertakeTold ==
  ASSUME NEW P \in Nat, NEW n \in Nat, NEW t, NEW acc, NEW a, PlanTold(acc, t, P, n),
         acc.out \in Seq(Nat), \A i \in DOMAIN acc.out : acc.out[i] \in (P + 1)..(P + n),
         Sub(P + n + 1) = t, t \in subs, Kind(P + n + 1) = "value", t \notin AllUpdates,
         acc.at[t] # 0, acc.at[t] \in DOMAIN acc.out,
         a.out = [acc.out EXCEPT ![acc.at[t]] = P + n + 1], a.drops[t] = acc.drops[t] + 1,
         a.at[t] = acc.at[t]
  PROVE  PlanTold(a, t, P, n + 1)
<1> DEFINE k == P + n + 1
<1> DEFINE q == acc.out
<1> DEFINE r == a.out
<1> DEFINE O == Of(t, P, n)
<1> DEFINE p == acc.at[t]
<1> DEFINE old == q[p]
<1>1. /\ k \in Nat /\ k = P + n + 1 /\ q \in Seq(Nat) /\ q = acc.out /\ r = [q EXCEPT ![p] = k] /\ r = a.out
      /\ p = a.at[t] /\ p = acc.at[t] /\ p \in DOMAIN q /\ p # 0 /\ old = q[p] /\ Sub(k) = t /\ Kind(k) = "value"
  OBVIOUS
<1>2. \A i \in DOMAIN q : q[i] \in Nat /\ q[i] < k
  <2>1. \A x \in (P + 1)..(P + n) : x \in Nat /\ x < k
    OBVIOUS
  <2> QED BY <2>1
<1>3. /\ Of(t, P, n + 1) = O \cup {k} /\ O \subseteq Nat /\ IsFiniteSet(O)
      /\ \A x \in O : x < k /\ x # k
  <2>1. /\ Of(t, P, n + 1) = O \cup {k} /\ O \subseteq Nat /\ IsFiniteSet(O)
        /\ \A x \in O : x <= P + n /\ x # k
    BY OfNext
  <2>2. \A x \in Nat : x <= P + n => x < k
    OBVIOUS
  <2> HIDE DEF O
  <2> QED BY <2>1, <2>2
<1>4. O = Of(t, P, n)
  OBVIOUS
<1>5. old \in O /\ Kind(old) = "value" /\ \A x \in O : x <= old
  BY DEF PlanTold, Slot
<1>6. Sub(old) = t
  BY <1>5 DEF Of
<1> HIDE DEF k, q, r, O, p, old
<1>7. Len(q) \in Nat /\ DOMAIN q = 1..Len(q) /\ p \in Nat
  BY <1>1
<1>8. /\ DOMAIN r = DOMAIN q /\ r[p] = k
      /\ \A i \in DOMAIN q : i # p => r[i] = q[i]
  BY <1>1, PutAt
<1>9. \A i, j \in DOMAIN q : Sub(q[i]) = t /\ Sub(q[j]) = t /\ i < j => q[i] < q[j]
  BY <1>1 DEF PlanTold, Rising
<1>10. \A i \in DOMAIN q : Sub(q[i]) = t /\ i # p => i < p /\ q[i] < old
  <2> SUFFICES ASSUME NEW i \in DOMAIN q, Sub(q[i]) = t, i # p PROVE i < p /\ q[i] < old
    OBVIOUS
  <2>1. q[i] \in O
    <3>1. q[i] \in (P + 1)..(P + n)
      BY <1>1
    <3> QED BY <3>1, <1>4 DEF Of
  <2>2. q[i] <= old
    BY <2>1, <1>5
  <2>3. i < p \/ p < i
    BY <1>7
  <2>4. ~(p < i)
    <3>1. p < i => old < q[i]
      BY <1>1, <1>6, <1>9
    <3> QED BY <3>1, <2>2, <1>1, <1>2
  <2> QED BY <2>3, <2>4, <1>1, <1>6, <1>9
<1>11. \A y : Sub(y) = t => (y \in Elems(r) <=> y = k \/ (y \in Elems(q) /\ y # old))
  <2> SUFFICES ASSUME NEW y, Sub(y) = t PROVE y \in Elems(r) <=> y = k \/ (y \in Elems(q) /\ y # old)
    OBVIOUS
  <2>1. ASSUME y \in Elems(r) PROVE y = k \/ (y \in Elems(q) /\ y # old)
    <3>1. PICK i \in DOMAIN r : y = r[i]
      BY <2>1 DEF Elems
    <3>2. CASE i = p
      BY <3>1, <3>2, <1>8
    <3>3. CASE i # p
      <4>1. i \in DOMAIN q /\ y = q[i]
        BY <3>1, <3>3, <1>8
      <4>2. q[i] < old /\ q[i] \in Nat /\ old \in Nat
        BY <4>1, <3>3, <1>1, <1>2, <1>10
      <4> QED BY <4>1, <4>2 DEF Elems
    <3> QED BY <3>2, <3>3
  <2>2. k \in Elems(r)
    BY <1>1, <1>8 DEF Elems
  <2>3. ASSUME y \in Elems(q), y # old PROVE y \in Elems(r)
    <3>1. PICK i \in DOMAIN q : y = q[i]
      BY <2>3 DEF Elems
    <3>2. i # p
      BY <3>1, <2>3, <1>1
    <3>3. i \in DOMAIN r /\ y = r[i]
      BY <3>1, <3>2, <1>8
    <3> QED BY <3>3 DEF Elems
  <2> QED BY <2>1, <2>2, <2>3
<1>12. old \in Elems(q) /\ old \in Nat /\ old < k
  BY <1>1, <1>2 DEF Elems
<1>13. Rising(r, t)
  <2> SUFFICES ASSUME NEW i \in DOMAIN r, NEW j \in DOMAIN r, Sub(r[i]) = t, Sub(r[j]) = t, i < j
               PROVE  r[i] < r[j]
    BY DEF Rising
  <2>1. i \in DOMAIN q /\ j \in DOMAIN q /\ i \in Nat /\ j \in Nat
    BY <1>7, <1>8
  <2>2. j # p => j < p /\ r[j] = q[j]
    BY <2>1, <1>8, <1>10
  <2>3. i # p
    BY <2>1, <2>2, <1>7
  <2>4. r[i] = q[i]
    BY <2>1, <2>3, <1>8
  <2>5. CASE j = p
    BY <2>1, <2>4, <2>5, <1>2, <1>8
  <2>6. CASE j # p
    BY <2>1, <2>2, <2>4, <2>6, <1>9
  <2> QED BY <2>5, <2>6
<1>14. /\ Gone(r, t, P, n + 1) = Gone(q, t, P, n) \cup {old}
       /\ old \notin Gone(q, t, P, n)
       /\ IsFiniteSet(Gone(q, t, P, n))
  <2>1. \A x \in O \cup {k} : Sub(x) = t
    BY <1>1, <1>4 DEF Of
  <2>2. Gone(r, t, P, n + 1) = (O \cup {k}) \ Elems(r)
    BY <1>3 DEF Gone
  <2>3. Gone(q, t, P, n) = O \ Elems(q)
    BY <1>4 DEF Gone
  <2>4. Gone(r, t, P, n + 1) = Gone(q, t, P, n) \cup {old}
    BY <2>1, <2>2, <2>3, <1>3, <1>5, <1>11
  <2>5. Gone(q, t, P, n) \subseteq O
    BY <2>3
  <2> QED BY <2>3, <2>4, <2>5, <1>3, <1>12, FS_Subset
<1>15. a.drops[t] = Cardinality(Gone(r, t, P, n + 1))
  <2>1. acc.drops[t] = Cardinality(Gone(q, t, P, n))
    BY <1>1 DEF PlanTold
  <2>2. Cardinality(Gone(q, t, P, n) \cup {old}) = Cardinality(Gone(q, t, P, n)) + 1
    BY <1>14, FS_AddElement
  <2> QED BY <2>1, <2>2, <1>14
<1>16. ASSUME NEW x \in Gone(r, t, P, n + 1) PROVE Covered(r, t, P, n + 1, x)
  <2>0. k \in Elems(r) /\ Sub(k) = t /\ x \in O \cup {k} /\ x # k
    <3>1. k \in Elems(r)
      BY <1>1, <1>11
    <3> QED BY <3>1, <1>1, <1>3 DEF Gone
  <2>1. x \in O /\ x \in Nat /\ x < k
    BY <2>0, <1>3
  <2>2. CASE x = old
    <3>1. \A z \in O \cup {k} : x <= z /\ z <= k => Kind(z) = "value"
      <4>1. \A z \in O : x <= z => z = old
        BY <2>2, <1>3, <1>5, <1>12
      <4> QED BY <4>1, <1>1, <1>5
    <3> QED BY <2>0, <2>1, <3>1, <1>3 DEF Covered
  <2>3. CASE x # old
    <3>1. Covered(q, t, P, n, x)
      BY <2>3, <1>1, <1>14 DEF PlanTold
    <3>2. PICK y \in Elems(q) :
            /\ Sub(y) = t /\ x < y /\ t \notin AllUpdates
            /\ \A z \in O : x <= z /\ z <= y => Kind(z) = "value"
      BY <3>1, <1>4 DEF Covered
    <3>3. y \in Nat /\ y < k
      BY <1>2 DEF Elems
    <3>4. CASE y = old
      <4>1. \A z \in O \cup {k} : x <= z /\ z <= k => Kind(z) = "value"
        BY <3>2, <3>4, <1>1, <1>5
      <4> QED BY <2>0, <2>1, <3>2, <4>1, <1>3 DEF Covered
    <3>5. CASE y # old
      <4>1. y \in Elems(r)
        BY <3>2, <3>5, <1>11
      <4>2. \A z \in O \cup {k} : x <= z /\ z <= y => Kind(z) = "value"
        BY <3>2, <3>3, <1>1
      <4> QED BY <3>2, <4>1, <4>2, <1>3 DEF Covered
    <3> QED BY <3>4, <3>5
  <2> QED BY <2>2, <2>3
<1>17. Slot(a, t, P, n + 1)
  <2>1. k \in O \cup {k} /\ \A x \in O \cup {k} : x <= k
    <3>1. ASSUME NEW x \in O PROVE x <= k
      <4>1. x \in Nat /\ x < k
        BY <1>3
      <4> QED BY <4>1, <1>1
    <3>2. k <= k
      BY <1>1
    <3> QED BY <3>1, <3>2
  <2>2. a.out[a.at[t]] = k /\ Kind(k) = "value"
    BY <1>1, <1>8
  <2> QED BY <2>1, <2>2, <1>3 DEF Slot
<1> QED BY <1>1, <1>13, <1>15, <1>16, <1>17 DEF PlanTold

-----------------------------------------------------------------------------
(* An item that has arrived has a subscription and a kind.                 *)
LEMMA ArrivedItem ==
  ASSUME TypeOK, NEW k \in DOMAIN arrived
  PROVE  k \in Nat /\ k \in 1..Len(arrived) /\ Sub(k) \in Subs /\ Kind(k) \in Kinds
<1>1. arrived \in Seq([sub: Subs, kind: Kinds])
  BY DEF TypeOK
<1>2. /\ DOMAIN arrived = 1..Len(arrived) /\ Len(arrived) \in Nat
      /\ \A i \in 1..Len(arrived) : arrived[i] \in [sub: Subs, kind: Kinds]
  <2> DEFINE R == [sub: Subs, kind: Kinds]
  <2> HIDE DEF R
  <2>1. arrived \in Seq(R)
    BY <1>1 DEF R
  <2>2. /\ DOMAIN arrived = 1..Len(arrived) /\ Len(arrived) \in Nat
        /\ \A i \in 1..Len(arrived) : arrived[i] \in R
    BY <2>1
  <2> QED BY <2>2 DEF R
<1> QED BY <1>2 DEF Sub, Kind

(* What plan() does with any batch.                                        *)
LEMMA PlanShaped ==
  ASSUME TypeOK, NEW b \in Seq(Nat), \A i \in DOMAIN b : b[i] \in DOMAIN arrived
  PROVE  PlanShape(Planned(b), Len(b), b)
<1>1. Len(b) \in Nat /\ DOMAIN b = 1..Len(b) /\ subs \subseteq Subs
  BY DEF TypeOK
<1>2. PICK u : /\ u[0] = Nothing
               /\ \A n \in 1..Len(b) : u[n] = PlanItem(u[n - 1], b[n])
               /\ Planned(b) = u[Len(b)]
  BY <1>1, PlannedByRounds
<1> DEFINE T == {n \in Nat : n <= Len(b) => PlanShape(u[n], n, b)}
<1>3. 0 \in T
  <2>1. Nothing \in Plans /\ DOMAIN Nothing.out = {} /\ \A s \in Subs : Nothing.at[s] = 0 /\ Nothing.drops[s] = 0
    BY DEF Nothing, Plans
  <2>2. PlanShape(Nothing, 0, b)
    BY <2>1 DEF PlanShape
  <2> QED BY <1>2, <2>2
<1>4. ASSUME NEW n \in Nat, n \in T PROVE n + 1 \in T
  <2> SUFFICES ASSUME n + 1 <= Len(b) PROVE PlanShape(u[n + 1], n + 1, b)
    OBVIOUS
  <2>1. PlanShape(u[n], n, b) /\ n + 1 \in 1..Len(b) /\ (n + 1) - 1 = n
    BY <1>1, <1>4
  <2>2. b[n + 1] \in DOMAIN arrived
    BY <2>1, <1>1
  <2>3. b[n + 1] \in Nat /\ Sub(b[n + 1]) \in Subs
    BY <2>2, ArrivedItem
  <2>4. u[n + 1] = PlanItem(u[n], b[n + 1])
    BY <2>1, <1>2
  <2>5. PlanShape(PlanItem(u[n], b[n + 1]), n + 1, b)
    BY <2>1, <2>3, <1>1, ShapeStep
  <2> QED BY <2>4, <2>5
<1>5. \A n \in Nat : n \in T
  <2> HIDE DEF T
  <2> QED BY <1>3, <1>4, Climb
<1> QED BY <1>1, <1>2, <1>5

(* One round of plan() in a batch that is in line.                         *)
LEMMA RoundStep ==
  ASSUME TypeOK, NEW P \in Nat, NEW n \in Nat, NEW b, NEW acc, PlanShape(acc, n, b),
         \A j \in 1..n : b[j] = P + j,
         P + n + 1 \in DOMAIN arrived, NEW t \in Subs, \A s \in Subs : PlanTold(acc, s, P, n)
  PROVE  PlanTold(PlanItem(acc, P + n + 1), t, P, n + 1)
<1> DEFINE k == P + n + 1
<1> DEFINE s == Sub(k)
<1> DEFINE a == PlanItem(acc, k)
<1>1. k \in Nat /\ s \in Subs /\ k = P + n + 1 /\ s = Sub(k) /\ subs \subseteq Subs
  BY ArrivedItem DEF TypeOK
<1>2. acc \in Plans
  BY DEF PlanShape
<1>3. Skipped(acc, a, k) \/ Overtook(acc, a, k) \/ Opened(acc, a, k) \/ Passed(acc, a, k)
  BY <1>1, <1>2, ItemCases
<1>4. /\ acc.out \in Seq(Nat) /\ acc.at \in [Subs -> Nat] /\ acc.drops \in [Subs -> Nat]
      /\ \A i \in DOMAIN acc.out : acc.out[i] \in (P + 1)..(P + n)
  BY OutBelow
<1>5. /\ \A i \in DOMAIN acc.out : Sub(acc.out[i]) \in subs
      /\ \A x \in Subs : acc.at[x] # 0 => acc.at[x] \in DOMAIN acc.out
  BY DEF PlanShape
<1>6. t \notin subs => acc.at[t] = 0
  <2> SUFFICES ASSUME acc.at[t] # 0 PROVE t \in subs
    OBVIOUS
  <2>1. Slot(acc, t, P, n) /\ acc.at[t] \in DOMAIN acc.out
    BY <1>5 DEF PlanTold
  <2>2. Sub(acc.out[acc.at[t]]) = t
    BY <2>1 DEF Slot, Of
  <2> QED BY <2>1, <2>2, <1>5
<1>7. t # s => Of(t, P, n + 1) = Of(t, P, n)
  BY <1>1, OfNext
<1> HIDE DEF k, s, a
<1>8. CASE Skipped(acc, a, k)
  <2>1. s \notin subs /\ a = acc
    BY <1>1, <1>8 DEF Skipped
  <2>2. t \in subs => t # s
    BY <2>1
  <2>3. Same(acc.out, acc.out, t)
    BY DEF Same
  <2>4. PlanTold(acc, t, P, n + 1)
    BY <2>2, <2>3, <1>5, <1>6, <1>7, SameTold
  <2> QED BY <2>1, <2>4 DEF k, a
<1>9. CASE ~Skipped(acc, a, k) /\ t # s
  <2>1. s \in subs /\ a.at[t] = acc.at[t] /\ a.drops[t] = acc.drops[t]
    BY <1>1, <1>3, <1>4, <1>9 DEF Overtook, Opened, Passed
  <2>2. Same(acc.out, a.out, t)
    <3>1. CASE Overtook(acc, a, k)
      <4>1. /\ acc.at[s] # 0 /\ a.out = [acc.out EXCEPT ![acc.at[s]] = k]
        BY <3>1, <1>1 DEF Overtook
      <4>2. acc.at[s] \in DOMAIN acc.out
        BY <4>1, <1>1, <1>5
      <4>3. Sub(acc.out[acc.at[s]]) = s
        <5>1. Slot(acc, s, P, n)
          BY <4>1, <1>1 DEF PlanTold
        <5> QED BY <5>1 DEF Slot, Of
      <4> DEFINE q == acc.out
      <4> DEFINE p == acc.at[s]
      <4>4. q \in Seq(Nat) /\ a.out = [q EXCEPT ![p] = k] /\ p \in DOMAIN q /\ Sub(q[p]) = s
        BY <4>1, <4>2, <4>3, <1>4
      <4> HIDE DEF q, p
      <4>5. /\ DOMAIN a.out = DOMAIN q /\ a.out[p] = k
            /\ \A i \in DOMAIN q : i # p => a.out[i] = q[i]
        BY <4>4, <1>1, PutAt
      <4>6. Same(q, a.out, t)
        BY <4>4, <4>5, <1>1, <1>9 DEF Same
      <4> QED BY <4>6 DEF q
    <3>2. CASE Opened(acc, a, k) \/ Passed(acc, a, k)
      <4>1. a.out = Append(acc.out, k)
        BY <3>2 DEF Opened, Passed
      <4> DEFINE q == acc.out
      <4>2. q \in Seq(Nat) /\ a.out = Append(q, k)
        BY <4>1, <1>4
      <4> HIDE DEF q
      <4>3. /\ a.out[Len(q) + 1] = k
            /\ \A i \in DOMAIN q : i \in DOMAIN a.out /\ i # Len(q) + 1 /\ a.out[i] = q[i]
            /\ \A i \in DOMAIN a.out : i = Len(q) + 1 \/ i \in DOMAIN q
        BY <4>2, <1>1, AppendAt
      <4>4. Same(q, a.out, t)
        BY <4>3, <1>1, <1>9 DEF Same
      <4> QED BY <4>4 DEF q
    <3> QED BY <3>1, <3>2, <1>3, <1>9
  <2>3. PlanTold(a, t, P, n + 1)
    BY <2>1, <2>2, <1>5, <1>6, <1>7, <1>9, SameTold
  <2> QED BY <2>3 DEF k, a
<1>10. CASE ~Skipped(acc, a, k) /\ t = s
  <2>0. Sub(P + n + 1) = t /\ PlanTold(acc, t, P, n)
    BY <1>1, <1>10
  <2>1. CASE Overtook(acc, a, k)
    <3>1. /\ t \in subs /\ Kind(P + n + 1) = "value" /\ t \notin AllUpdates /\ acc.at[t] # 0
          /\ a.out = [acc.out EXCEPT ![acc.at[t]] = P + n + 1] /\ a.at[t] = acc.at[t]
          /\ a.drops = [acc.drops EXCEPT ![t] = @ + 1]
      BY <2>1, <1>1, <1>10 DEF Overtook
    <3>2. a.drops[t] = acc.drops[t] + 1
      BY <3>1, <1>4
    <3>3. acc.at[t] \in DOMAIN acc.out
      BY <3>1, <1>5
    <3>4. PlanTold(a, t, P, n + 1)
      BY <2>0, <3>1, <3>2, <3>3, <1>4, OvertakeTold
    <3> QED BY <3>4 DEF k, a
  <2>2. CASE Opened(acc, a, k) \/ Passed(acc, a, k)
    <3>1. /\ t \in subs /\ a.out = Append(acc.out, P + n + 1) /\ a.drops = acc.drops
          /\ \/ a.at = [acc.at EXCEPT ![t] = 0]
             \/ /\ a.at = [acc.at EXCEPT ![t] = Len(acc.out) + 1]
                /\ Kind(P + n + 1) = "value" /\ t \notin AllUpdates
      BY <2>2, <1>1, <1>10 DEF Opened, Passed
    <3>2. a.drops[t] = acc.drops[t]
      BY <3>1
    <3>3. \/ a.at[t] = 0
          \/ a.at[t] = Len(acc.out) + 1 /\ Kind(P + n + 1) = "value" /\ t \notin AllUpdates
      BY <3>1, <1>4
    <3>4. PlanTold(a, t, P, n + 1)
      BY <2>0, <3>1, <3>2, <3>3, <1>4, AppendTold
    <3> QED BY <3>4 DEF k, a
  <2> QED BY <2>1, <2>2, <1>3, <1>10
<1> QED BY <1>8, <1>9, <1>10

(* What plan() promises of a batch that is in line, whatever its length.   *)
LEMMA PlanPromise ==
  ASSUME TypeOK, NEW P \in Nat, NEW b \in Seq(Nat),
         \A i \in DOMAIN b : b[i] = P + i /\ b[i] \in DOMAIN arrived
  PROVE  \A t \in Subs : PlanTold(Planned(b), t, P, Len(b))
<1>1. Len(b) \in Nat /\ DOMAIN b = 1..Len(b) /\ subs \subseteq Subs
  BY DEF TypeOK
<1>2. PICK u : /\ u[0] = Nothing
               /\ \A n \in 1..Len(b) : u[n] = PlanItem(u[n - 1], b[n])
               /\ Planned(b) = u[Len(b)]
  BY <1>1, PlannedByRounds
<1> DEFINE T == {n \in Nat : n <= Len(b) => PlanShape(u[n], n, b) /\ \A t \in Subs : PlanTold(u[n], t, P, n)}
<1>3. 0 \in T
  <2>1. /\ Nothing \in Plans /\ DOMAIN Nothing.out = {} /\ Elems(Nothing.out) = {}
        /\ \A s \in Subs : Nothing.at[s] = 0 /\ Nothing.drops[s] = 0
    BY DEF Nothing, Plans, Elems
  <2>2. PlanShape(Nothing, 0, b)
    BY <2>1 DEF PlanShape
  <2>3. ASSUME NEW t \in Subs PROVE PlanTold(Nothing, t, P, 0)
    <3>1. (P + 1)..(P + 0) = {}
      OBVIOUS
    <3>2. Gone(Nothing.out, t, P, 0) = {}
      BY <3>1 DEF Gone, Of
    <3>3. Rising(Nothing.out, t)
      BY <2>1 DEF Rising
    <3> QED BY <2>1, <3>2, <3>3, FS_EmptySet DEF PlanTold
  <2> QED BY <1>2, <2>2, <2>3
<1>4. ASSUME NEW n \in Nat, n \in T PROVE n + 1 \in T
  <2> SUFFICES ASSUME n + 1 <= Len(b)
               PROVE  PlanShape(u[n + 1], n + 1, b) /\ \A t \in Subs : PlanTold(u[n + 1], t, P, n + 1)
    OBVIOUS
  <2>0. n <= Len(b) /\ n + 1 \in 1..Len(b) /\ (n + 1) - 1 = n /\ 1..n \subseteq 1..Len(b)
    <3> HIDE DEF T
    <3> QED BY <1>1
  <2>1. /\ PlanShape(u[n], n, b) /\ \A t \in Subs : PlanTold(u[n], t, P, n)
        /\ n + 1 \in 1..Len(b) /\ (n + 1) - 1 = n
    BY <2>0, <1>4
  <2> HIDE DEF T
  <2>2. b[n + 1] \in DOMAIN arrived /\ b[n + 1] = P + (n + 1) /\ P + (n + 1) = P + n + 1
    <3>1. n + 1 \in DOMAIN b
      BY <2>1, <1>1
    <3>2. P + (n + 1) = P + n + 1
      OBVIOUS
    <3> QED BY <3>1, <3>2
  <2>3. b[n + 1] \in Nat /\ Sub(b[n + 1]) \in Subs
    BY <2>2, ArrivedItem
  <2>4. u[n + 1] = PlanItem(u[n], b[n + 1])
    BY <2>1, <1>2
  <2>5. PlanShape(PlanItem(u[n], b[n + 1]), n + 1, b)
    BY <2>1, <2>3, <1>1, ShapeStep
  <2>6. \A j \in 1..n : b[j] = P + j
    BY <2>0, <1>1
  <2>7. b[n + 1] = P + n + 1 /\ P + n + 1 \in DOMAIN arrived
    BY <2>2
  <2>8. \A t \in Subs : PlanTold(PlanItem(u[n], P + n + 1), t, P, n + 1)
    BY <2>1, <2>6, <2>7, RoundStep
  <2> QED BY <2>4, <2>5, <2>7, <2>8
<1>5. \A n \in Nat : n \in T
  <2> HIDE DEF T
  <2> QED BY <1>3, <1>4, Climb
<1> QED BY <1>1, <1>2, <1>5

-----------------------------------------------------------------------------
(* The parts of TypeOK.                                                    *)
OwnerOK ==
  /\ maker \in [Subs -> {"new", "cached", "counted", "adding", "added", "started", "made", "refused"}]
  /\ closer \in [Subs -> {"no", "marked", "returned"}]
SubOK ==
  /\ state \in [Subs -> {"opening", "open", "closed"}]
  /\ subs \subseteq Subs
  /\ cached \in BOOLEAN
  /\ count \in Int
  /\ uncounted \subseteq Subs \X Closers
LockOK ==
  /\ lockedBy \in Subs \cup {None}
  /\ \A s \in Subs : lockedBy = s <=> maker[s] = "adding"
HubOK ==
  /\ hubSubs \subseteq Subs
  /\ hubOpen \in BOOLEAN
  /\ queue \in Seq(1..MaxItems)
  /\ arrived \in Seq([sub: Subs, kind: Kinds])
DrainOK ==
  /\ pc \in {"off", "recv", "plan", "dispatch", "noting", "opening", "hook", "marking", "ending",
            "deliver", "callback", "exited", "dead"}
  /\ batch \in Seq(1..MaxItems)
  /\ current \in 0..MaxItems
  /\ pc \in Busy => current # 0
TodoOK ==
  /\ todo \in Seq(1..MaxItems)
  /\ pc = "dispatch" => todo # <<>>
DroppedOK ==
  dropped \in [Subs -> 0..MaxItems]
HistOK ==
  /\ seen \in [Subs -> Seq(1..MaxItems)]
  /\ called \in Seq(1..MaxItems)
  /\ reopened \in Seq(Subs)
StopOK ==
  stopping \in [at: {"no", "marking", "done"}, left: SUBSET Subs, sub: Subs \cup {None}]
Parts == OwnerOK /\ SubOK /\ LockOK /\ HubOK /\ DrainOK /\ TodoOK /\ DroppedOK /\ HistOK /\ StopOK

(* The parts are all of it, ...                                            *)
LEMMA TypeParts == TypeOK <=> Parts
  BY DEF TypeOK, Parts, OwnerOK, SubOK, LockOK, HubOK, DrainOK, Busy, TodoOK, DroppedOK, HistOK, StopOK

(* The items planned have arrived.                                         *)
LEMMA PastWithin ==
  ASSUME TypeOK, Frames
  PROVE  /\ Len(arrived) \in Nat /\ Len(queue) \in Nat /\ Len(batch) \in Nat /\ Past \in Nat
         /\ Past = Len(arrived) - Len(queue) - Len(batch) /\ Past <= Len(arrived)
         /\ DOMAIN arrived = 1..Len(arrived) /\ DOMAIN queue = 1..Len(queue) /\ DOMAIN batch = 1..Len(batch)
         /\ 1..Past \subseteq DOMAIN arrived
<1> DEFINE R == [sub: Subs, kind: Kinds]
<1>1. arrived \in Seq(R) /\ queue \in Seq(1..MaxItems) /\ batch \in Seq(1..MaxItems)
  BY DEF TypeOK
<1> HIDE DEF R
<1>2. /\ Len(arrived) \in Nat /\ Len(queue) \in Nat /\ Len(batch) \in Nat
      /\ DOMAIN arrived = 1..Len(arrived) /\ DOMAIN queue = 1..Len(queue) /\ DOMAIN batch = 1..Len(batch)
  BY <1>1
<1>3. Past >= 0 /\ Past = Len(arrived) - Len(queue) - Len(batch)
  BY DEF Frames, Numbers, PlacesA, PlacesB, PlacesC, Past
<1>4. Past \in Nat /\ Past <= Len(arrived)
  BY <1>2, <1>3
<1> QED BY <1>2, <1>3, <1>4

(* ... also after a step.                                                  *)
LEMMA TypePartsNext == TypeOK' <=> Parts'
  BY DEF TypeOK, Parts, OwnerOK, SubOK, LockOK, HubOK, DrainOK, Busy, TodoOK, DroppedOK, HistOK, StopOK

(* What the drain is at, and the record of a shutdown.                     *)
LEMMA HeadFacts ==
  ASSUME IInv, pc = "dispatch"
  PROVE  /\ todo # <<>> /\ Head(todo) \in 1..MaxItems /\ Head(todo) \in DOMAIN arrived
         /\ Head(todo) \in 1..Past /\ Head(todo) = todo[1] /\ 1 \in DOMAIN todo
         /\ Sub(Head(todo)) \in Subs /\ Tail(todo) \in Seq(1..MaxItems)
<1>1. TypeOK /\ Frames /\ todo \in Seq(1..MaxItems) /\ todo # <<>>
  BY DEF IInv, TypeOK
<1>2. Len(todo) \in Nat /\ DOMAIN todo = 1..Len(todo) /\ Len(todo) # 0
  BY <1>1, EmptySeq
<1>3. 1 \in DOMAIN todo /\ Head(todo) = todo[1] /\ Tail(todo) \in Seq(1..MaxItems)
  BY <1>1, <1>2, HeadTailProperties
<1>4. Head(todo) \in 1..MaxItems
  BY <1>1, <1>3, HeadTailProperties
<1>5. Head(todo) \in 1..Past
  BY <1>1, <1>3 DEF Frames, Numbers, PlacesA, PlacesB, PlacesC
<1>6. Head(todo) \in DOMAIN arrived
  BY <1>1, <1>5, PastWithin
<1> QED BY <1>1, <1>3, <1>4, <1>5, <1>6, ArrivedItem

(* What _event or _deliver is busy with has arrived.                       *)
LEMMA CurrentFacts ==
  ASSUME IInv, pc \in Busy
  PROVE  current \in DOMAIN arrived /\ Sub(current) \in Subs /\ current \in 1..MaxItems
<1>1. TypeOK /\ Frames /\ current \in DOMAIN arrived
  BY DEF IInv, Frames, Numbers, PlacesA, PlacesB, PlacesC
<1>2. current # 0 /\ current \in 0..MaxItems
  BY <1>1 DEF TypeOK, Busy
<1>3. current \in 1..MaxItems
  BY <1>2
<1> QED BY <1>1, <1>3, ArrivedItem

(* The record of a shutdown.                                               *)
LEMMA StopRecord ==
  ASSUME TypeOK
  PROVE  /\ stopping = [at |-> stopping.at, left |-> stopping.left, sub |-> stopping.sub]
         /\ stopping.at \in {"no", "marking", "done"} /\ stopping.left \subseteq Subs
         /\ stopping.sub \in Subs \cup {None}
  BY DEF TypeOK

(* A sequence of these is a sequence of those its elements are in.         *)
LEMMA InSeq ==
  ASSUME NEW q \in Seq(Nat), NEW S, \A i \in DOMAIN q : q[i] \in S PROVE q \in Seq(S)
  OBVIOUS

(* One more in one of several sequences.                                   *)
LEMMA PutHistory ==
  ASSUME NEW f, NEW S, NEW I, f \in [I -> Seq(S)], NEW i \in I, NEW x \in S,
         NEW g, g = [f EXCEPT ![i] = Append(@, x)]
  PROVE  g \in [I -> Seq(S)] /\ g[i] = Append(f[i], x) /\ \A j \in I : j # i => g[j] = f[j]
<1>1. Append(f[i], x) \in Seq(S)
  BY AppendProperties
<1> QED BY <1>1

(* What plan() leaves, whatever was queued.                                *)
LEMMA PlanStep ==
  ASSUME IInv, Plan
  PROVE  /\ todo' \in Seq(1..MaxItems) /\ (pc' = "dispatch" => todo' # <<>>)
         /\ dropped' \in [Subs -> 0..MaxItems]
         /\ Past' \in Nat /\ Past' = Past + Len(batch) /\ batch' = <<>> /\ Past' <= Len(arrived)
         /\ \A i \in DOMAIN todo' : todo'[i] \in 1..Past'
         /\ \A s \in Subs : dropped'[s] <= Past'
         /\ PlanShape(Planned(batch), Len(batch), batch)
<1>1. TypeOK /\ Frames /\ InLine /\ MaxItems \in Nat
  BY DispatcherAssumption DEF IInv
<1>2. /\ todo' = Planned(batch).out
      /\ dropped' = [s \in Subs |-> dropped[s] + Planned(batch).drops[s]]
      /\ batch' = <<>> /\ arrived' = arrived /\ queue' = queue
      /\ pc' = IF Planned(batch).out = <<>> THEN "recv" ELSE "dispatch"
  BY DEF Plan, hubVars
<1>3. /\ Len(arrived) \in Nat /\ Len(queue) \in Nat /\ Len(batch) \in Nat /\ Past \in Nat
      /\ Past = Len(arrived) - Len(queue) - Len(batch) /\ Past <= Len(arrived) /\ Len(arrived) <= MaxItems
      /\ DOMAIN arrived = 1..Len(arrived) /\ DOMAIN batch = 1..Len(batch)
  BY <1>1, PastWithin DEF Frames, Numbers, PlacesA, PlacesB, PlacesC
<1>4. Len(<<>>) = 0
  OBVIOUS
<1>5. Past' = Len(arrived') - Len(queue') - Len(batch')
  BY DEF Past
<1>6. Past' = Past + Len(batch) /\ Past' \in Nat /\ Past' <= Len(arrived)
  BY <1>2, <1>3, <1>4, <1>5
<1>7. batch \in Seq(Nat) /\ \A i \in DOMAIN batch : batch[i] \in DOMAIN arrived
  <2>1. batch \in Seq(1..MaxItems)
    BY <1>1 DEF TypeOK
  <2> QED BY <2>1, <1>1 DEF Frames, Numbers, PlacesA, PlacesB, PlacesC
<1>8. PlanShape(Planned(batch), Len(batch), batch)
  BY <1>1, <1>7, PlanShaped
<1> DEFINE q == Planned(batch).out
<1> DEFINE d == Planned(batch).drops
<1>9. /\ q \in Seq(Nat) /\ d \in [Subs -> Nat]
      /\ \A i \in DOMAIN q : \E j \in 1..Len(batch) : q[i] = batch[j]
      /\ \A s \in Subs : d[s] <= Len(batch)
  BY <1>8 DEF PlanShape, Plans
<1>10. todo' = q /\ dropped' = [s \in Subs |-> dropped[s] + d[s]] /\ (pc' = "dispatch" => q # <<>>)
  BY <1>2
<1> HIDE DEF q, d
<1>11. ASSUME NEW i \in DOMAIN q PROVE q[i] \in 1..MaxItems /\ q[i] \in 1..Past'
  <2>1. PICK j \in DOMAIN batch : q[i] = batch[j]
    BY <1>3, <1>9
  <2>2. q[i] \in 1..Len(arrived)
    BY <2>1, <1>3, <1>7
  <2>3. q[i] \in 1..MaxItems
    BY <2>2, <1>1, <1>3
  <2>4. q[i] \in 1..Past'
    <3>1. CASE stopping.at # "done"
      <4>1. q[i] = Past + j
        BY <3>1, <2>1, <1>1 DEF InLine
      <4> QED BY <4>1, <2>1, <1>3, <1>6
    <3>2. CASE stopping.at = "done"
      <4>1. Len(queue) = 0
        BY <3>2, <1>1, <1>4 DEF Frames, Numbers, PlacesA, PlacesB, PlacesC
      <4> QED BY <4>1, <2>2, <1>3, <1>6
    <3> QED BY <3>1, <3>2
  <2> QED BY <2>3, <2>4
<1>12. q \in Seq(1..MaxItems)
  BY <1>9, <1>11, InSeq
<1>13. ASSUME NEW s \in Subs PROVE dropped'[s] \in 0..MaxItems /\ dropped'[s] <= Past'
  <2>1. dropped[s] \in Nat /\ dropped[s] <= Past
    BY <1>1 DEF TypeOK, Frames, Numbers, PlacesA, PlacesB, PlacesC
  <2>2. d[s] \in Nat /\ d[s] <= Len(batch) /\ dropped'[s] = dropped[s] + d[s]
    BY <1>9, <1>10
  <2> QED BY <2>1, <2>2, <1>1, <1>3, <1>6
<1>14. dropped' \in [Subs -> 0..MaxItems]
  BY <1>10, <1>13
<1> QED BY <1>2, <1>6, <1>8, <1>10, <1>11, <1>12, <1>13, <1>14

(* A flip leaves a state and closes to count.                              *)
LEMMA FlipOK ==
  ASSUME SubOK, NEW x \in Subs, NEW who \in Closers, Flip(x, who), UNCHANGED <<subs, cached, count>>
  PROVE  SubOK'
<1>1. uncounted' \subseteq Subs \X Closers
  <2>1. <<x, who>> \in Subs \X Closers
    OBVIOUS
  <2>2. uncounted' = uncounted \/ uncounted' = uncounted \cup {<<x, who>>}
    BY DEF Flip
  <2>3. uncounted \subseteq Subs \X Closers
    BY DEF SubOK
  <2> QED BY <2>1, <2>2, <2>3
<1>2. state' \in [Subs -> {"opening", "open", "closed"}]
  BY DEF Flip, SubOK
<1> QED BY <1>1, <1>2 DEF SubOK

(* Every step keeps the types.                                             *)
LEMMA TypeStep ==
  ASSUME IInv, Next PROVE TypeOK'
<1> USE DEF ownerVars, subVars, hubVars, drainVars, histVars
<1>0. TypeOK /\ Frames /\ Owned /\ Parts
  BY TypeParts DEF IInv
<1>a. MaxItems \in Nat /\ 0 \in 0..MaxItems /\ <<>> \in Seq(1..MaxItems) /\ None \notin Subs
  BY DispatcherAssumption
<1>b. /\ stopping = [at |-> stopping.at, left |-> stopping.left, sub |-> stopping.sub]
      /\ stopping.at \in {"no", "marking", "done"} /\ stopping.left \subseteq Subs
      /\ stopping.sub \in Subs \cup {None}
  BY <1>0, StopRecord
<1>c. /\ Len(arrived) \in Nat /\ Len(arrived) <= MaxItems
  BY <1>0, PastWithin DEF Frames, Numbers, PlacesA, PlacesB, PlacesC
<1> SUFFICES Parts'
  BY TypePartsNext
<1>1. ASSUME NEW s \in Subs, GetChannel(s) PROVE Parts'
  <2>1. HubOK' /\ DrainOK' /\ TodoOK' /\ DroppedOK' /\ HistOK' /\ StopOK'
    BY <1>0, <1>1 DEF GetChannel, Parts, HubOK, DrainOK, TodoOK, DroppedOK, HistOK, StopOK
  <2>2. OwnerOK'
    BY <1>0, <1>1 DEF GetChannel, Parts, OwnerOK
  <2>3. SubOK'
    BY <1>0, <1>1 DEF GetChannel, Parts, SubOK
  <2>4. LockOK'
    BY <1>0, <1>1, <1>a DEF GetChannel, Parts, LockOK
  <2> QED BY <2>1, <2>2, <2>3, <2>4 DEF Parts
<1>2. ASSUME NEW s \in Subs, CountUp(s) PROVE Parts'
  <2>1. HubOK' /\ DrainOK' /\ TodoOK' /\ DroppedOK' /\ HistOK' /\ StopOK'
    BY <1>0, <1>2 DEF CountUp, Counted, Parts, HubOK, DrainOK, TodoOK, DroppedOK, HistOK, StopOK
  <2>2. OwnerOK'
    BY <1>0, <1>2 DEF CountUp, Counted, Parts, OwnerOK
  <2>3. SubOK'
    BY <1>0, <1>2 DEF CountUp, Counted, Parts, SubOK
  <2>4. LockOK'
    BY <1>0, <1>2, <1>a DEF CountUp, Counted, Parts, LockOK
  <2> QED BY <2>1, <2>2, <2>3, <2>4 DEF Parts
<1>3. ASSUME NEW s \in Subs, HubSubscribe(s) PROVE Parts'
  <2>1. SubOK' /\ DrainOK' /\ TodoOK' /\ DroppedOK' /\ HistOK' /\ StopOK'
    BY <1>0, <1>3 DEF HubSubscribe, Parts, SubOK, DrainOK, TodoOK, DroppedOK, HistOK, StopOK
  <2>2. OwnerOK'
    BY <1>0, <1>3 DEF HubSubscribe, Parts, OwnerOK
  <2>3. LockOK'
    <3>1. /\ lockedBy = None /\ lockedBy' = s /\ maker' = [maker EXCEPT ![s] = "adding"]
      BY <1>3 DEF HubSubscribe
    <3>2. ASSUME NEW t \in Subs PROVE lockedBy' = t <=> maker'[t] = "adding"
      BY <1>0, <1>a, <3>1, <1>3 DEF Parts, LockOK, OwnerOK
    <3> QED BY <3>1, <3>2, <1>3 DEF LockOK
  <2>4. HubOK'
    BY <1>0, <1>3 DEF HubSubscribe, Parts, HubOK
  <2> QED BY <2>1, <2>2, <2>3, <2>4 DEF Parts
<1>4. ASSUME NEW s \in Subs, Register(s) PROVE Parts'
  <2>1. HubOK' /\ DrainOK' /\ TodoOK' /\ DroppedOK' /\ HistOK' /\ StopOK'
    BY <1>0, <1>4 DEF Register, Parts, HubOK, DrainOK, TodoOK, DroppedOK, HistOK, StopOK
  <2>2. OwnerOK'
    BY <1>0, <1>4 DEF Register, Parts, OwnerOK
  <2>3. SubOK'
    BY <1>0, <1>4 DEF Register, Parts, SubOK
  <2>4. LockOK'
    <3>1. /\ maker[s] = "adding" /\ lockedBy' = None /\ maker' = [maker EXCEPT ![s] = "added"]
      BY <1>4 DEF Register
    <3>2. lockedBy = s
      BY <1>0, <3>1, <1>4 DEF Parts, LockOK
    <3>3. ASSUME NEW t \in Subs PROVE lockedBy' = t <=> maker'[t] = "adding"
      BY <1>0, <1>a, <3>1, <3>2, <1>4 DEF Parts, LockOK, OwnerOK
    <3> QED BY <3>1, <3>3 DEF LockOK
  <2> QED BY <2>1, <2>2, <2>3, <2>4 DEF Parts
<1>5. ASSUME NEW s \in Subs, Started(s) PROVE Parts'
  <2>1. SubOK' /\ HubOK' /\ DroppedOK' /\ HistOK' /\ StopOK'
    BY <1>0, <1>5 DEF Started, Parts, SubOK, HubOK, DroppedOK, HistOK, StopOK
  <2>2. OwnerOK'
    BY <1>0, <1>5 DEF Started, Parts, OwnerOK
  <2>3. LockOK'
    BY <1>0, <1>5, <1>a DEF Started, Parts, LockOK
  <2>4. DrainOK'
    BY <1>0, <1>5, <1>a DEF Busy, Started, Parts, DrainOK
  <2>5. TodoOK'
    BY <1>0, <1>5, <1>a DEF Started, Parts, TodoOK
  <2> QED BY <2>1, <2>2, <2>3, <2>4, <2>5 DEF Parts
<1>6. ASSUME NEW s \in Subs, SetId(s) PROVE Parts'
  <2>1. SubOK' /\ HubOK' /\ DrainOK' /\ TodoOK' /\ DroppedOK' /\ HistOK' /\ StopOK'
    BY <1>0, <1>6 DEF SetId, Parts, SubOK, HubOK, DrainOK, TodoOK, DroppedOK, HistOK, StopOK
  <2>2. OwnerOK'
    BY <1>0, <1>6 DEF SetId, Parts, OwnerOK
  <2>3. LockOK'
    BY <1>0, <1>6, <1>a DEF SetId, Parts, LockOK
  <2> QED BY <2>1, <2>2, <2>3 DEF Parts
<1>7. ASSUME NEW s \in Subs, CloseMark(s) PROVE Parts'
  <2>1. LockOK' /\ HubOK' /\ DrainOK' /\ TodoOK' /\ DroppedOK' /\ HistOK' /\ StopOK'
    BY <1>0, <1>7 DEF CloseMark, Flip, HasId, Parts, LockOK, HubOK, DrainOK, TodoOK, DroppedOK, HistOK, StopOK
  <2>2. OwnerOK'
    BY <1>0, <1>7 DEF CloseMark, Flip, HasId, Parts, OwnerOK
  <2>3. SubOK'
    BY <1>0, <1>7 DEF CloseMark, Flip, HasId, Parts, SubOK, Closers
  <2> QED BY <2>1, <2>2, <2>3 DEF Parts
<1>8. ASSUME NEW s \in Subs, CloseRemove(s) PROVE Parts'
  <2>1. LockOK' /\ DrainOK' /\ TodoOK' /\ DroppedOK' /\ HistOK' /\ StopOK'
    BY <1>0, <1>8 DEF CloseRemove, RemoveSub, Parts, LockOK, DrainOK, TodoOK, DroppedOK, HistOK, StopOK
  <2>2. OwnerOK'
    BY <1>0, <1>8 DEF CloseRemove, RemoveSub, Parts, OwnerOK
  <2>3. SubOK'
    BY <1>0, <1>8 DEF CloseRemove, RemoveSub, Parts, SubOK
  <2>4. HubOK'
    BY <1>0, <1>8 DEF CloseRemove, RemoveSub, Parts, HubOK
  <2> QED BY <2>1, <2>2, <2>3, <2>4 DEF Parts
<1>9. ASSUME NEW s \in Subs, NEW who \in Closers, CountDown(s, who) PROVE Parts'
  <2>1. OwnerOK' /\ LockOK' /\ HubOK' /\ DrainOK' /\ TodoOK' /\ DroppedOK' /\ HistOK' /\ StopOK'
    BY <1>0, <1>9
      DEF CountDown, Counted, Parts, OwnerOK, LockOK, HubOK, DrainOK, TodoOK, DroppedOK, HistOK, StopOK
  <2>2. SubOK'
    BY <1>0, <1>9 DEF CountDown, Counted, Parts, SubOK
  <2> QED BY <2>1, <2>2 DEF Parts
<1>10. ASSUME NEW s \in Subs, NEW kind \in HubKinds, Arrive(s, kind) PROVE Parts'
  <2>1. OwnerOK' /\ SubOK' /\ LockOK' /\ DrainOK' /\ TodoOK' /\ DroppedOK' /\ HistOK' /\ StopOK'
    BY <1>0, <1>10 DEF Arrive, Parts, OwnerOK, SubOK, LockOK, DrainOK, TodoOK, DroppedOK, HistOK, StopOK
  <2>2. HubOK'
    BY <1>0, <1>10, DispatcherAssumption DEF Arrive, Parts, HubOK
  <2> QED BY <2>1, <2>2 DEF Parts
<1>11. CASE Purge
  <2>1. OwnerOK' /\ LockOK' /\ HubOK' /\ DrainOK' /\ TodoOK' /\ DroppedOK' /\ HistOK' /\ StopOK'
    BY <1>0, <1>11 DEF Purge, Parts, OwnerOK, LockOK, HubOK, DrainOK, TodoOK, DroppedOK, HistOK, StopOK
  <2>2. SubOK'
    BY <1>0, <1>11 DEF Purge, Parts, SubOK
  <2> QED BY <2>1, <2>2 DEF Parts
<1>12. CASE Recv
  <2>1. OwnerOK' /\ SubOK' /\ LockOK' /\ DroppedOK' /\ HistOK' /\ StopOK'
    BY <1>0, <1>12 DEF Recv, Parts, OwnerOK, SubOK, LockOK, DroppedOK, HistOK, StopOK
  <2>2. HubOK'
    BY <1>0, <1>12, <1>a DEF Recv, Parts, HubOK
  <2>3. DrainOK'
    <3>1. CASE hubOpen
      BY <1>0, <1>12, <1>a, <3>1 DEF Recv, Parts, DrainOK, HubOK, Busy
    <3>2. CASE ~hubOpen
      BY <1>0, <1>12, <1>a, <3>2 DEF Recv, Parts, DrainOK, HubOK, Busy
    <3> QED BY <3>1, <3>2
  <2>4. TodoOK'
    BY <1>0, <1>12, <1>a DEF Recv, Parts, TodoOK
  <2> QED BY <2>1, <2>2, <2>3, <2>4 DEF Parts
<1>13. CASE Plan
  <2>1. OwnerOK' /\ SubOK' /\ LockOK' /\ HubOK' /\ HistOK' /\ StopOK'
    BY <1>0, <1>13 DEF Plan, LockFree, Parts, OwnerOK, SubOK, LockOK, HubOK, HistOK, StopOK
  <2>2. DrainOK'
    BY <1>0, <1>13, <1>a DEF Busy, Plan, LockFree, Parts, DrainOK
  <2>3. TodoOK'
    BY <1>0, <1>13, PlanStep DEF TodoOK, Parts, DrainOK
  <2>4. DroppedOK'
    BY <1>0, <1>13, PlanStep DEF DroppedOK
  <2> QED BY <2>1, <2>2, <2>3, <2>4 DEF Parts
<1>14. CASE EventClosed
  <2>1. OwnerOK' /\ SubOK' /\ LockOK' /\ HubOK' /\ DroppedOK' /\ HistOK' /\ StopOK'
    BY <1>0, <1>14 DEF EventClosed, Resume, Parts, OwnerOK, SubOK, LockOK, HubOK, DroppedOK, HistOK, StopOK
  <2>2. DrainOK'
    BY <1>0, <1>14, <1>a, HeadFacts DEF Busy, EventClosed, Resume, Parts, DrainOK
  <2>3. TodoOK'
    BY <1>0, <1>14, <1>a, HeadFacts DEF EventClosed, Resume, Parts, TodoOK
  <2> QED BY <2>1, <2>2, <2>3 DEF Parts
<1>15. CASE EventDelivered
  <2>1. OwnerOK' /\ SubOK' /\ LockOK' /\ HubOK' /\ DroppedOK' /\ StopOK'
    BY <1>0, <1>15 DEF EventDelivered, Applied, Parts, OwnerOK, SubOK, LockOK, HubOK, DroppedOK, StopOK
  <2>2. DrainOK'
    BY <1>0, <1>15, <1>a, HeadFacts DEF Busy, EventDelivered, Applied, Parts, DrainOK
  <2>3. TodoOK'
    BY <1>0, <1>15, <1>a, HeadFacts DEF EventDelivered, Applied, Parts, TodoOK
  <2>4. HistOK'
    <3>1. /\ called' = called \/ called' = Append(called, Head(todo))
          /\ seen' = [seen EXCEPT ![Sub(Head(todo))] = Append(@, Head(todo))]
          /\ pc = "dispatch" /\ reopened' = reopened
      BY <1>15 DEF EventDelivered, Applied
    <3>2. called' \in Seq(1..MaxItems)
      <4>1. called \in Seq(1..MaxItems) /\ Head(todo) \in 1..MaxItems
        BY <1>0, <3>1, HeadFacts DEF Parts, HistOK
      <4>2. Append(called, Head(todo)) \in Seq(1..MaxItems)
        BY <4>1, AppendProperties
      <4>3. called' = called \/ called' = Append(called, Head(todo))
        BY <3>1
      <4> QED BY <4>1, <4>2, <4>3
    <3>3. seen' \in [Subs -> Seq(1..MaxItems)]
      <4>1. seen \in [Subs -> Seq(1..MaxItems)] /\ Sub(Head(todo)) \in Subs /\ Head(todo) \in 1..MaxItems
        BY <1>0, <3>1, HeadFacts DEF Parts, HistOK
      <4> QED BY <3>1, <4>1, PutHistory
    <3> QED BY <1>0, <3>1, <3>2, <3>3 DEF Parts, HistOK
  <2> QED BY <2>1, <2>2, <2>3, <2>4 DEF Parts
<1>16. CASE EventChecked
  <2>1. OwnerOK' /\ SubOK' /\ LockOK' /\ HubOK' /\ DroppedOK' /\ StopOK'
    BY <1>0, <1>16 DEF EventChecked, Applied, Parts, OwnerOK, SubOK, LockOK, HubOK, DroppedOK, StopOK
  <2>2. DrainOK'
    <3>1. /\ pc = "dispatch" /\ current' = Head(todo) /\ batch' = batch
          /\ pc' = Handled(Kind(Head(todo))) /\ Kind(Head(todo)) \in {"connected", "disconnected", "end"}
      BY <1>16 DEF EventChecked
    <3>2. pc' \in {"noting", "hook", "marking"}
      BY <3>1 DEF Handled
    <3>3. current' \in 1..MaxItems
      BY <3>1, HeadFacts
    <3> QED BY <1>0, <1>a, <3>1, <3>2, <3>3 DEF Parts, DrainOK
  <2>3. TodoOK'
    <3>1. pc = "dispatch" /\ todo' = Tail(todo) /\ pc' = Handled(Kind(Head(todo)))
          /\ Kind(Head(todo)) \in {"connected", "disconnected", "end"}
      BY <1>16 DEF EventChecked
    <3>2. pc' # "dispatch"
      BY <3>1 DEF Handled
    <3> QED BY <3>1, <3>2, HeadFacts DEF TodoOK
  <2>4. HistOK'
    <3>1. /\ called' = called /\ reopened' = reopened /\ pc = "dispatch"
          /\ seen' = [seen EXCEPT ![Sub(Head(todo))] = Append(@, Head(todo))]
      BY <1>16 DEF EventChecked, Applied
    <3>2. seen \in [Subs -> Seq(1..MaxItems)] /\ Sub(Head(todo)) \in Subs /\ Head(todo) \in 1..MaxItems
      BY <1>0, <3>1, HeadFacts DEF Parts, HistOK
    <3>3. seen' \in [Subs -> Seq(1..MaxItems)]
      BY <3>1, <3>2, PutHistory
    <3> QED BY <1>0, <3>1, <3>3 DEF Parts, HistOK
  <2> QED BY <2>1, <2>2, <2>3, <2>4 DEF Parts
<1>17. CASE EndMark
  <2>1. OwnerOK' /\ LockOK' /\ HubOK' /\ TodoOK' /\ DroppedOK' /\ HistOK' /\ StopOK'
    BY <1>0, <1>17 DEF EndMark, Flip, Parts, OwnerOK, LockOK, HubOK, TodoOK, DroppedOK, HistOK, StopOK
  <2>2. SubOK'
    <3>1. pc \in Busy /\ Flip(Sub(current), "drain") /\ UNCHANGED <<subs, cached, count>>
      BY <1>17 DEF EndMark, Busy
    <3> QED BY <1>0, <3>1, CurrentFacts, FlipOK DEF Parts, Closers
  <2>3. DrainOK'
    BY <1>0, <1>17 DEF Busy, EndMark, Parts, DrainOK
  <2> QED BY <2>1, <2>2, <2>3 DEF Parts
<1>18. CASE HookReturns
  <2>1. OwnerOK' /\ SubOK' /\ LockOK' /\ HubOK' /\ DroppedOK' /\ HistOK' /\ StopOK'
    BY <1>0, <1>18 DEF HookReturns, Resume, Parts, OwnerOK, SubOK, LockOK, HubOK, DroppedOK, HistOK, StopOK
  <2>2. DrainOK'
    BY <1>0, <1>18, <1>a DEF Busy, HookReturns, Resume, Parts, DrainOK
  <2>3. TodoOK'
    BY <1>0, <1>18, <1>a DEF HookReturns, Resume, Parts, TodoOK
  <2> QED BY <2>1, <2>2, <2>3 DEF Parts
<1>19. CASE HookRaises
  <2>1. OwnerOK' /\ LockOK' /\ HubOK' /\ DroppedOK' /\ HistOK'
    BY <1>0, <1>19 DEF HookRaises, Die, Parts, OwnerOK, LockOK, HubOK, DroppedOK, HistOK
  <2>2. SubOK'
    BY <1>0, <1>19 DEF HookRaises, Die, Parts, SubOK
  <2>3. DrainOK'
    BY <1>0, <1>19, <1>a DEF Busy, HookRaises, Die, Parts, DrainOK
  <2>4. TodoOK'
    BY <1>0, <1>19, <1>a DEF HookRaises, Die, Parts, TodoOK
  <2>5. StopOK'
    <3>1. stopping' = stopping \/ stopping' = [stopping EXCEPT !.at = "marking", !.left = subs]
      BY <1>19 DEF HookRaises, Die
    <3>2. ASSUME stopping' = [stopping EXCEPT !.at = "marking", !.left = subs] PROVE StopOK'
      <4>1. stopping' = [at |-> "marking", left |-> subs, sub |-> stopping.sub]
        BY <3>2, <1>b
      <4> QED BY <4>1, <1>0, <1>b DEF StopOK, Parts, SubOK
    <3> QED BY <1>0, <3>1, <3>2 DEF Parts, StopOK
  <2> QED BY <2>1, <2>2, <2>3, <2>4, <2>5 DEF Parts
<1>20. CASE Deliver
  <2>1. OwnerOK' /\ SubOK' /\ LockOK' /\ HubOK' /\ DroppedOK' /\ StopOK'
    BY <1>0, <1>20 DEF Deliver, Parts, OwnerOK, SubOK, LockOK, HubOK, DroppedOK, StopOK
  <2>2. DrainOK'
    BY <1>0, <1>20, <1>a, CurrentFacts DEF Busy, Deliver, Parts, DrainOK
  <2>3. TodoOK'
    BY <1>0, <1>20, <1>a DEF Deliver, Parts, TodoOK
  <2>4. HistOK'
    <3>1. pc \in Busy /\ called' = Append(called, current) /\ seen' = seen /\ reopened' = reopened
      BY <1>20 DEF Deliver, Busy
    <3>2. called \in Seq(1..MaxItems) /\ current \in 1..MaxItems
      BY <1>0, <3>1, CurrentFacts DEF Parts, HistOK
    <3>3. called' \in Seq(1..MaxItems)
      BY <3>1, <3>2, AppendProperties
    <3> QED BY <1>0, <3>1, <3>3 DEF Parts, HistOK
  <2> QED BY <2>1, <2>2, <2>3, <2>4 DEF Parts
<1>21. CASE CallbackReturns
  <2>1. OwnerOK' /\ SubOK' /\ LockOK' /\ HubOK' /\ DroppedOK' /\ HistOK' /\ StopOK'
    BY <1>0, <1>21
      DEF CallbackReturns, Resume, Parts, OwnerOK, SubOK, LockOK, HubOK, DroppedOK, HistOK, StopOK
  <2>2. DrainOK'
    BY <1>0, <1>21, <1>a, CurrentFacts DEF Busy, CallbackReturns, Resume, Parts, DrainOK
  <2>3. TodoOK'
    BY <1>0, <1>21, <1>a DEF CallbackReturns, Resume, Parts, TodoOK
  <2> QED BY <2>1, <2>2, <2>3 DEF Parts
<1>22. CASE CallbackRaises
  <2>1. OwnerOK' /\ LockOK' /\ HubOK' /\ DroppedOK' /\ HistOK' /\ StopOK'
    BY <1>0, <1>22
      DEF CallbackRaises, Flip, Live, Resume, Parts, OwnerOK, LockOK, HubOK, DroppedOK, HistOK, StopOK
  <2>2. SubOK'
    <3>1. pc \in Busy /\ Flip(Sub(current), "drain") /\ UNCHANGED <<subs, cached, count>>
      BY <1>22 DEF CallbackRaises, Busy
    <3> QED BY <1>0, <3>1, CurrentFacts, FlipOK DEF Parts, Closers
  <2>3. DrainOK'
    BY <1>0, <1>22, <1>a DEF Busy, CallbackRaises, Flip, Live, Resume, Parts, DrainOK
  <2>4. TodoOK'
    BY <1>0, <1>22, <1>a DEF CallbackRaises, Flip, Live, Resume, Parts, TodoOK
  <2> QED BY <2>1, <2>2, <2>3, <2>4 DEF Parts
<1>23. CASE EndRemove
  <2>1. OwnerOK' /\ LockOK' /\ DroppedOK' /\ HistOK' /\ StopOK'
    BY <1>0, <1>23 DEF EndRemove, RemoveSub, Resume, Parts, OwnerOK, LockOK, DroppedOK, HistOK, StopOK
  <2>2. SubOK'
    BY <1>0, <1>23, CurrentFacts
      DEF EndRemove, RemoveSub, Resume, Parts, SubOK
  <2>3. HubOK'
    BY <1>0, <1>23 DEF EndRemove, RemoveSub, Resume, Parts, HubOK
  <2>4. DrainOK'
    BY <1>0, <1>23, <1>a, CurrentFacts DEF Busy, EndRemove, RemoveSub, Resume, Parts, DrainOK
  <2>5. TodoOK'
    BY <1>0, <1>23, <1>a DEF EndRemove, RemoveSub, Resume, Parts, TodoOK
  <2> QED BY <2>1, <2>2, <2>3, <2>4, <2>5 DEF Parts
<1>24. CASE EndRaises
  <2>1. OwnerOK' /\ LockOK' /\ HubOK' /\ DroppedOK' /\ HistOK'
    BY <1>0, <1>24 DEF EndRaises, Die, Parts, OwnerOK, LockOK, HubOK, DroppedOK, HistOK
  <2>2. SubOK'
    BY <1>0, <1>24, CurrentFacts DEF EndRaises, Die, Parts, SubOK
  <2>3. DrainOK'
    BY <1>0, <1>24, <1>a, CurrentFacts DEF Busy, EndRaises, Die, Parts, DrainOK
  <2>4. TodoOK'
    BY <1>0, <1>24, <1>a DEF EndRaises, Die, Parts, TodoOK
  <2>5. StopOK'
    <3>1. stopping' = stopping \/ stopping' = [stopping EXCEPT !.at = "marking", !.left = subs]
      BY <1>24 DEF EndRaises, Die
    <3>2. ASSUME stopping' = [stopping EXCEPT !.at = "marking", !.left = subs] PROVE StopOK'
      <4>1. stopping' = [at |-> "marking", left |-> subs, sub |-> stopping.sub]
        BY <3>2, <1>b
      <4> QED BY <4>1, <1>0, <1>b DEF StopOK, Parts, SubOK
    <3> QED BY <1>0, <3>1, <3>2 DEF Parts, StopOK
  <2> QED BY <2>1, <2>2, <2>3, <2>4, <2>5 DEF Parts
<1>25. CASE ShutdownClear
  <2>1. OwnerOK' /\ LockOK' /\ HubOK' /\ DroppedOK' /\ HistOK'
    BY <1>0, <1>25 DEF ShutdownClear, Parts, OwnerOK, LockOK, HubOK, DroppedOK, HistOK
  <2>2. SubOK'
    BY <1>0, <1>25 DEF ShutdownClear, Parts, SubOK
  <2>3. DrainOK'
    BY <1>0, <1>25, <1>a DEF Busy, ShutdownClear, Parts, DrainOK
  <2>4. TodoOK'
    BY <1>0, <1>25, <1>a DEF ShutdownClear, Parts, TodoOK
  <2>5. StopOK'
    <3>1. stopping' = stopping \/ stopping' = [stopping EXCEPT !.at = "marking", !.left = subs]
      BY <1>25 DEF ShutdownClear
    <3>2. ASSUME stopping' = [stopping EXCEPT !.at = "marking", !.left = subs] PROVE StopOK'
      <4>1. stopping' = [at |-> "marking", left |-> subs, sub |-> stopping.sub]
        BY <3>2, <1>b
      <4> QED BY <4>1, <1>0, <1>b DEF StopOK, Parts, SubOK
    <3> QED BY <1>0, <3>1, <3>2 DEF Parts, StopOK
  <2> QED BY <2>1, <2>2, <2>3, <2>4, <2>5 DEF Parts
<1>26. CASE ShutdownMark
  <2>1. OwnerOK' /\ LockOK' /\ HubOK' /\ DrainOK' /\ TodoOK' /\ DroppedOK' /\ HistOK'
    BY <1>0, <1>26 DEF ShutdownMark, Flip, Parts, OwnerOK, LockOK, HubOK, DrainOK, TodoOK, DroppedOK, HistOK
  <2>2. SubOK'
    BY <1>0, <1>26, <1>b DEF ShutdownMark, Flip, Parts, SubOK, Closers
  <2>3. StopOK'
    BY <1>0, <1>26, <1>b DEF ShutdownMark, Flip, Parts, StopOK
  <2> QED BY <2>1, <2>2, <2>3 DEF Parts
<1>27. CASE ShutdownHub
  <2>1. OwnerOK' /\ SubOK' /\ LockOK' /\ DrainOK' /\ TodoOK' /\ DroppedOK' /\ HistOK'
    BY <1>0, <1>27 DEF ShutdownHub, Parts, OwnerOK, SubOK, LockOK, DrainOK, TodoOK, DroppedOK, HistOK
  <2>2. HubOK'
    BY <1>0, <1>27, <1>a DEF ShutdownHub, Parts, HubOK
  <2>3. StopOK'
    BY <1>0, <1>27, <1>b DEF ShutdownHub, Parts, StopOK
  <2> QED BY <2>1, <2>2, <2>3 DEF Parts
<1>28. CASE NoteConnected
  <2>1. OwnerOK' /\ LockOK' /\ HubOK' /\ TodoOK' /\ DroppedOK' /\ HistOK' /\ StopOK'
    BY <1>0, <1>28 DEF NoteConnected, Parts, OwnerOK, LockOK, HubOK, TodoOK, DroppedOK, HistOK, StopOK
  <2>2. SubOK'
    BY <1>0, <1>28 DEF NoteConnected, Parts, SubOK
  <2>3. DrainOK'
    BY <1>0, <1>28 DEF Busy, NoteConnected, Parts, DrainOK
  <2> QED BY <2>1, <2>2, <2>3 DEF Parts
<1>29. CASE SetOpen
  <2>1. OwnerOK' /\ LockOK' /\ HubOK' /\ TodoOK' /\ DroppedOK' /\ StopOK'
    BY <1>0, <1>29 DEF SetOpen, Parts, OwnerOK, LockOK, HubOK, TodoOK, DroppedOK, StopOK
  <2>2. SubOK'
    BY <1>0, <1>29 DEF SetOpen, Parts, SubOK
  <2>3. DrainOK'
    BY <1>0, <1>29 DEF Busy, SetOpen, Parts, DrainOK
  <2>4. HistOK'
    <3>1. pc \in Busy /\ seen' = seen /\ called' = called
      BY <1>29 DEF SetOpen, Busy
    <3>2. reopened' = reopened \/ reopened' = Append(reopened, Sub(current))
      BY <1>29 DEF SetOpen
    <3>3. Sub(current) \in Subs /\ reopened \in Seq(Subs)
      BY <1>0, <3>1, CurrentFacts DEF Parts, HistOK
    <3>4. reopened' \in Seq(Subs)
      BY <3>2, <3>3, AppendProperties
    <3> QED BY <1>0, <3>1, <3>4 DEF Parts, HistOK
  <2> QED BY <2>1, <2>2, <2>3, <2>4 DEF Parts
<1>30. ASSUME NEW s \in Subs, HubRefuses(s) PROVE Parts'
  <2>1. SubOK' /\ HubOK' /\ DrainOK' /\ TodoOK' /\ DroppedOK' /\ HistOK' /\ StopOK'
    BY <1>0, <1>30 DEF HubRefuses, Parts, SubOK, HubOK, DrainOK, TodoOK, DroppedOK, HistOK, StopOK
  <2>2. OwnerOK'
    BY <1>0, <1>30 DEF HubRefuses, Parts, OwnerOK
  <2>3. LockOK'
    BY <1>0, <1>30, <1>a DEF HubRefuses, Parts, LockOK, OwnerOK
  <2> QED BY <2>1, <2>2, <2>3 DEF Parts
<1>31. CASE CallbackEscapes
  <2>1. OwnerOK' /\ LockOK' /\ HubOK' /\ DroppedOK' /\ HistOK'
    BY <1>0, <1>31 DEF CallbackEscapes, Die, Parts, OwnerOK, LockOK, HubOK, DroppedOK, HistOK
  <2>2. SubOK'
    BY <1>0, <1>31, CurrentFacts DEF CallbackEscapes, Die, Parts, SubOK
  <2>3. DrainOK'
    BY <1>0, <1>31, <1>a, CurrentFacts DEF Busy, CallbackEscapes, Die, Parts, DrainOK
  <2>4. TodoOK'
    BY <1>0, <1>31, <1>a DEF CallbackEscapes, Die, Parts, TodoOK
  <2>5. StopOK'
    <3>1. stopping' = stopping \/ stopping' = [stopping EXCEPT !.at = "marking", !.left = subs]
      BY <1>31 DEF CallbackEscapes, Die
    <3>2. ASSUME stopping' = [stopping EXCEPT !.at = "marking", !.left = subs] PROVE StopOK'
      <4>1. stopping' = [at |-> "marking", left |-> subs, sub |-> stopping.sub]
        BY <3>2, <1>b
      <4> QED BY <4>1, <1>0, <1>b DEF StopOK, Parts, SubOK
    <3> QED BY <1>0, <3>1, <3>2 DEF Parts, StopOK
  <2> QED BY <2>1, <2>2, <2>3, <2>4, <2>5 DEF Parts
<1> QED
  BY <1>1, <1>2, <1>3, <1>4, <1>5, <1>6, <1>7, <1>8, <1>9, <1>10, <1>11, <1>12, <1>13, <1>14,
    <1>15, <1>16, <1>17, <1>18, <1>19, <1>20, <1>21, <1>22, <1>23, <1>24, <1>25, <1>26, <1>27,
    <1>28, <1>29, <1>30, <1>31
  DEF Next, Construct, Drain, Event, Callback, Shutdown

-----------------------------------------------------------------------------
(* A step that moves no item but out of what is planned.                   *)
Quiet ==
  /\ UNCHANGED <<arrived, queue, batch, dropped>>
  /\ todo' = todo \/ (pc = "dispatch" /\ todo' = Tail(todo))
  /\ stopping'.at # "done" => stopping.at # "done"

(* Four kinds of steps move other items.                                   *)
LEMMA QuietOrNot ==
  ASSUME IInv, Next
  PROVE  Quiet \/ (\E s \in Subs, kind \in HubKinds : Arrive(s, kind)) \/ Recv \/ Plan \/ ShutdownHub
<1> USE DEF ownerVars, subVars, hubVars, drainVars, histVars
<1>0. /\ stopping = [at |-> stopping.at, left |-> stopping.left, sub |-> stopping.sub]
      /\ Flavour = "loop" => (stopping.at # "no" => pc \in {"exited", "dead"})
  BY StopRecord DEF IInv, OneThread, OneAt
<1>1. ASSUME NEW s \in Subs, GetChannel(s) PROVE Quiet
  BY <1>0, <1>1 DEF Quiet, GetChannel
<1>2. ASSUME NEW s \in Subs, CountUp(s) PROVE Quiet
  BY <1>0, <1>2 DEF Quiet, CountUp, Counted
<1>3. ASSUME NEW s \in Subs, HubSubscribe(s) PROVE Quiet
  BY <1>0, <1>3 DEF Quiet, HubSubscribe
<1>4. ASSUME NEW s \in Subs, Register(s) PROVE Quiet
  BY <1>0, <1>4 DEF Quiet, Register
<1>5. ASSUME NEW s \in Subs, Started(s) PROVE Quiet
  BY <1>0, <1>5 DEF Quiet, Started
<1>6. ASSUME NEW s \in Subs, SetId(s) PROVE Quiet
  BY <1>0, <1>6 DEF Quiet, SetId
<1>7. ASSUME NEW s \in Subs, CloseMark(s) PROVE Quiet
  BY <1>0, <1>7 DEF Quiet, CloseMark, Flip, HasId
<1>8. ASSUME NEW s \in Subs, CloseRemove(s) PROVE Quiet
  BY <1>0, <1>8 DEF Quiet, CloseRemove, RemoveSub
<1>9. ASSUME NEW s \in Subs, NEW who \in Closers, CountDown(s, who) PROVE Quiet
  BY <1>0, <1>9 DEF Quiet, CountDown, Counted
<1>10. CASE Purge
  BY <1>0, <1>10 DEF Quiet, Purge
<1>11. CASE EventClosed
  BY <1>0, <1>11 DEF Quiet, EventClosed, Resume, Live
<1>12. CASE EventDelivered
  BY <1>0, <1>12 DEF Quiet, EventDelivered, Applied, Live
<1>13. CASE EventChecked
  BY <1>0, <1>13 DEF Quiet, EventChecked, Applied, Live
<1>14. CASE EndMark
  BY <1>0, <1>14 DEF Quiet, EndMark, Flip
<1>15. CASE HookReturns
  BY <1>0, <1>15 DEF Quiet, HookReturns, Resume
<1>16. CASE HookRaises
  BY <1>0, <1>16 DEF Quiet, HookRaises, Die
<1>17. CASE Deliver
  BY <1>0, <1>17 DEF Quiet, Deliver
<1>18. CASE CallbackReturns
  BY <1>0, <1>18 DEF Quiet, CallbackReturns, Resume
<1>19. CASE CallbackRaises
  BY <1>0, <1>19 DEF Quiet, CallbackRaises, Flip, Live, Resume
<1>20. CASE EndRemove
  BY <1>0, <1>20 DEF Quiet, EndRemove, RemoveSub, Resume
<1>21. CASE EndRaises
  BY <1>0, <1>21 DEF Quiet, EndRaises, Die
<1>22. CASE ShutdownClear
  BY <1>0, <1>22 DEF Quiet, ShutdownClear
<1>23. CASE ShutdownMark
  BY <1>0, <1>23 DEF Quiet, ShutdownMark, Flip, MarkedCounted
<1>24. CASE NoteConnected
  BY <1>0, <1>24 DEF Quiet, NoteConnected
<1>25. CASE SetOpen
  BY <1>0, <1>25 DEF Quiet, SetOpen
<1>26. CASE CallbackEscapes
  BY <1>0, <1>26 DEF Quiet, CallbackEscapes, Die
<1>27. ASSUME NEW s \in Subs, HubRefuses(s) PROVE Quiet
  BY <1>0, <1>27 DEF Quiet, HubRefuses
<1> QED
  BY <1>1, <1>2, <1>3, <1>4, <1>5, <1>6, <1>7, <1>8, <1>9, <1>10, <1>11, <1>12, <1>13, <1>14,
    <1>15, <1>16, <1>17, <1>18, <1>19, <1>20, <1>21, <1>22, <1>23, <1>24, <1>25, <1>26, <1>27
  DEF Next, Construct, Drain, Event, Callback, Shutdown

(* What is left when the first is taken.                                   *)
LEMMA TailAt ==
  ASSUME NEW S, NEW q \in Seq(S), q # <<>>
  PROVE  /\ Len(q) \in Nat /\ DOMAIN q = 1..Len(q) /\ Len(Tail(q)) = Len(q) - 1
         /\ \A i \in DOMAIN Tail(q) : i \in Nat /\ i + 1 \in DOMAIN q /\ Tail(q)[i] = q[i + 1]
<1>1. Len(q) \in Nat /\ DOMAIN q = 1..Len(q) /\ Len(q) # 0
  BY EmptySeq
<1>2. Tail(q) \in Seq(S) /\ Len(Tail(q)) = Len(q) - 1 /\ \A i \in 1..Len(Tail(q)) : Tail(q)[i] = q[i + 1]
  BY HeadTailProperties
<1>3. DOMAIN Tail(q) = 1..Len(Tail(q))
  BY <1>2
<1> QED BY <1>1, <1>2, <1>3

(* The items stay in line.                                                 *)
LEMMA NumbersStep ==
  ASSUME IInv, Next, TypeOK' PROVE Numbers' /\ InLine'
<1>0. TypeOK /\ Frames /\ InLine /\ Numbers
  BY DEF IInv, Frames, Numbers, PlacesA, PlacesB, PlacesC
<1>1. /\ Len(arrived) \in Nat /\ Len(queue) \in Nat /\ Len(batch) \in Nat /\ Past \in Nat
      /\ Past = Len(arrived) - Len(queue) - Len(batch) /\ Past <= Len(arrived)
      /\ DOMAIN arrived = 1..Len(arrived) /\ DOMAIN queue = 1..Len(queue) /\ DOMAIN batch = 1..Len(batch)
  BY <1>0, PastWithin
<1>2. Past' = Len(arrived') - Len(queue') - Len(batch')
  BY DEF Past
<1>3. /\ todo \in Seq(1..MaxItems) /\ queue \in Seq(1..MaxItems) /\ batch \in Seq(1..MaxItems)
      /\ dropped \in [Subs -> 0..MaxItems] /\ MaxItems \in Nat /\ Len(<<>>) = 0 /\ DOMAIN <<>> = {}
  BY <1>0, DispatcherAssumption DEF TypeOK
<1>4. CASE Quiet
  <2>1. arrived' = arrived /\ queue' = queue /\ batch' = batch /\ dropped' = dropped
    BY <1>4 DEF Quiet
  <2>2. Past' = Past
    BY <2>1, <1>1, <1>2
  <2>3. \A i \in DOMAIN todo' : todo'[i] \in 1..Past
    <3>1. CASE todo' = todo
      BY <3>1, <1>0 DEF Numbers
    <3>2. CASE pc = "dispatch" /\ todo' = Tail(todo)
      <4>1. todo # <<>>
        BY <3>2, <1>0 DEF TypeOK
      <4>2. \A i \in DOMAIN Tail(todo) : i + 1 \in DOMAIN todo /\ Tail(todo)[i] = todo[i + 1]
        BY <4>1, <1>3, TailAt
      <4> QED BY <3>2, <4>2, <1>0 DEF Numbers
    <3> QED BY <3>1, <3>2, <1>4 DEF Quiet
  <2>4. Numbers'
    BY <2>1, <2>2, <2>3, <1>0 DEF Numbers
  <2>5. InLine'
    BY <2>1, <2>2, <1>0, <1>4 DEF InLine, Quiet
  <2> QED BY <2>4, <2>5
<1>5. ASSUME NEW s \in Subs, NEW kind \in HubKinds, Arrive(s, kind) PROVE Numbers' /\ InLine'
  <2> DEFINE e == [sub |-> s, kind |-> kind]
  <2>1. /\ arrived' = Append(arrived, e) /\ queue' = Append(queue, Len(arrived) + 1)
        /\ batch' = batch /\ todo' = todo /\ dropped' = dropped /\ stopping' = stopping
        /\ Len(arrived) < MaxItems
    BY <1>5 DEF Arrive, drainVars
  <2> HIDE DEF e
  <2>2. Len(arrived') = Len(arrived) + 1 /\ DOMAIN arrived' = 1..(Len(arrived) + 1)
    <3> DEFINE R == [sub: Subs, kind: Kinds]
    <3>1. arrived \in Seq(R) /\ e \in R
      BY <1>0, DispatcherAssumption DEF TypeOK, e
    <3> HIDE DEF R
    <3> QED BY <2>1, <3>1, AppendProperties
  <2>3. /\ Len(queue') = Len(queue) + 1 /\ DOMAIN queue' = 1..(Len(queue) + 1)
        /\ queue'[Len(queue) + 1] = Len(arrived) + 1 /\ \A i \in 1..Len(queue) : queue'[i] = queue[i]
    BY <2>1, <1>1, <1>3, AppendProperties
  <2>4. Past' = Past
    BY <2>1, <2>2, <2>3, <1>1, <1>2
  <2>5. DOMAIN arrived \subseteq DOMAIN arrived' /\ Len(arrived) + 1 \in DOMAIN arrived'
    BY <2>2, <1>1
  <2>6. \A i \in DOMAIN queue' : i \in DOMAIN queue \/ i = Len(queue) + 1
    BY <2>3, <1>1
  <2>7. \A i \in DOMAIN queue' : queue'[i] \in DOMAIN arrived'
    BY <2>3, <2>5, <2>6, <1>0, <1>1 DEF Numbers
  <2>8. Len(arrived') <= MaxItems
    BY <2>1, <2>2, <1>1, <1>3
  <2>9. Numbers'
    BY <2>1, <2>4, <2>5, <2>7, <2>8, <1>0 DEF Numbers
  <2>10. stopping.at # "done" => \A i \in DOMAIN queue' : queue'[i] = Past + Len(batch) + i
    <3>1. Past + Len(batch) + (Len(queue) + 1) = Len(arrived) + 1
      BY <1>1
    <3> QED BY <3>1, <2>3, <2>6, <1>0, <1>1 DEF InLine
  <2>11. InLine'
    BY <2>1, <2>4, <2>10, <1>0 DEF InLine
  <2> QED BY <2>9, <2>11
<1>6. CASE Recv
  <2>1. arrived' = arrived /\ todo' = todo /\ dropped' = dropped /\ stopping' = stopping /\ batch = <<>>
    BY <1>0, <1>6 DEF Recv, Frames, Numbers, PlacesA, PlacesB, PlacesC, histVars
  <2>2. CASE hubOpen
    <3>1. batch' = queue /\ queue' = <<>>
      BY <1>6, <2>2 DEF Recv
    <3>2. Past' = Past
      BY <2>1, <3>1, <1>1, <1>2, <1>3
    <3>3. Numbers'
      BY <2>1, <3>1, <3>2, <1>0, <1>3 DEF Numbers
    <3>4. Len(batch) = 0
      BY <2>1, <1>3
    <3>5. stopping.at # "done" => \A i \in DOMAIN queue : queue[i] = Past + i
      BY <3>4, <1>0, <1>1 DEF InLine
    <3>6. InLine'
      BY <2>1, <3>1, <3>2, <3>5, <1>3 DEF InLine
    <3> QED BY <3>3, <3>6
  <2>3. CASE ~hubOpen
    <3>1. batch' = batch /\ queue' = queue
      BY <1>6, <2>3 DEF Recv
    <3>2. Past' = Past
      BY <2>1, <3>1, <1>1, <1>2
    <3> QED BY <2>1, <3>1, <3>2, <1>0 DEF Numbers, InLine
  <2> QED BY <2>2, <2>3
<1>7. CASE Plan
  <2>1. arrived' = arrived /\ queue' = queue /\ batch' = <<>> /\ stopping' = stopping
    BY <1>7 DEF Plan, hubVars
  <2>2. /\ Past' \in Nat /\ Past' = Past + Len(batch)
        /\ \A i \in DOMAIN todo' : todo'[i] \in 1..Past'
        /\ \A s \in Subs : dropped'[s] <= Past'
    BY <1>7, PlanStep
  <2>3. Past' >= 0
    BY <2>2
  <2>4. Numbers'
    BY <2>1, <2>2, <2>3, <1>0, <1>3 DEF Numbers
  <2>5. stopping.at # "done" => \A i \in DOMAIN queue : queue[i] = Past + Len(batch) + 0 + i
    BY <1>0, <1>1 DEF InLine
  <2>6. InLine'
    BY <2>1, <2>2, <2>5, <1>1, <1>3 DEF InLine
  <2> QED BY <2>4, <2>6
<1>8. CASE ShutdownHub
  <2>1. /\ arrived' = arrived /\ queue' = <<>> /\ batch' = batch /\ todo' = todo /\ dropped' = dropped
        /\ stopping' = [stopping EXCEPT !.at = "done"]
    BY <1>8 DEF ShutdownHub, drainVars
  <2>2. Past' = Past + Len(queue) /\ Past' \in Nat /\ Past' >= 0 /\ Past <= Past'
    BY <2>1, <1>1, <1>2, <1>3
  <2>3. \A s \in Subs : dropped[s] <= Past'
    <3> SUFFICES ASSUME NEW s \in Subs PROVE dropped[s] <= Past'
      OBVIOUS
    <3>1. dropped[s] \in Nat /\ dropped[s] <= Past
      BY <1>0, <1>3 DEF Numbers
    <3> QED BY <3>1, <2>2, <1>1
  <2>4. \A i \in DOMAIN todo : todo[i] \in 1..Past'
    <3> SUFFICES ASSUME NEW i \in DOMAIN todo PROVE todo[i] \in 1..Past'
      OBVIOUS
    <3>1. todo[i] \in 1..Past
      BY <1>0 DEF Numbers
    <3> QED BY <3>1, <2>2, <1>1
  <2>5. Numbers'
    BY <2>1, <2>2, <2>3, <2>4, <1>0, <1>3 DEF Numbers
  <2>6. stopping'.at = "done"
    BY <2>1, <1>0, StopRecord
  <2>7. InLine'
    BY <2>6 DEF InLine
  <2> QED BY <2>5, <2>7
<1> QED BY <1>4, <1>5, <1>6, <1>7, <1>8, QuietOrNot

-----------------------------------------------------------------------------
(* A constructor never goes back.                                          *)
LEMMA Onward ==
  ASSUME IInv, Next
  PROVE  \A s \in Subs : /\ Entered(s) => Entered(s)'
                         /\ Added(s) => Added(s)'
                         /\ HasId(s) => HasId(s)'
<1> USE DEF ownerVars, subVars, hubVars, drainVars, histVars
<1>0. maker \in [Subs -> {"new", "cached", "counted", "adding", "added", "started", "made", "refused"}]
  BY DEF IInv, TypeOK
<1>1. ASSUME NEW s \in Subs, GetChannel(s)
      PROVE  \A t \in Subs : (Entered(t) => Entered(t)') /\ (Added(t) => Added(t)') /\ (HasId(t) => HasId(t)')
  BY <1>0, <1>1 DEF GetChannel, Entered, Added, HasId
<1>2. ASSUME NEW s \in Subs, CountUp(s)
      PROVE  \A t \in Subs : (Entered(t) => Entered(t)') /\ (Added(t) => Added(t)') /\ (HasId(t) => HasId(t)')
  BY <1>0, <1>2 DEF CountUp, Entered, Added, HasId
<1>3. ASSUME NEW s \in Subs, HubSubscribe(s)
      PROVE  \A t \in Subs : (Entered(t) => Entered(t)') /\ (Added(t) => Added(t)') /\ (HasId(t) => HasId(t)')
  BY <1>0, <1>3 DEF HubSubscribe, Entered, Added, HasId
<1>4. ASSUME NEW s \in Subs, Register(s)
      PROVE  \A t \in Subs : (Entered(t) => Entered(t)') /\ (Added(t) => Added(t)') /\ (HasId(t) => HasId(t)')
  BY <1>0, <1>4 DEF Register, Entered, Added, HasId
<1>5. ASSUME NEW s \in Subs, Started(s)
      PROVE  \A t \in Subs : (Entered(t) => Entered(t)') /\ (Added(t) => Added(t)') /\ (HasId(t) => HasId(t)')
  BY <1>0, <1>5 DEF Started, Entered, Added, HasId
<1>6. ASSUME NEW s \in Subs, SetId(s)
      PROVE  \A t \in Subs : (Entered(t) => Entered(t)') /\ (Added(t) => Added(t)') /\ (HasId(t) => HasId(t)')
  BY <1>0, <1>6 DEF SetId, Entered, Added, HasId
<1>9. ASSUME NEW s \in Subs, HubRefuses(s)
      PROVE  \A t \in Subs : (Entered(t) => Entered(t)') /\ (Added(t) => Added(t)') /\ (HasId(t) => HasId(t)')
  BY <1>0, <1>9 DEF HubRefuses, Entered, Added, HasId
<1>7. ASSUME maker' = maker
      PROVE  \A t \in Subs : (Entered(t) => Entered(t)') /\ (Added(t) => Added(t)') /\ (HasId(t) => HasId(t)')
  BY <1>7 DEF Entered, Added, HasId
<1>8. (\E s \in Subs : Construct(s)) \/ maker' = maker
  BY
    DEF Next, Drain, Event, Shutdown, CloseMark, CloseRemove, CountDown, Arrive, Purge, Recv, Plan,
    EventClosed, EventDelivered, EventChecked, NoteConnected, SetOpen, EndMark, HookReturns, HookRaises,
    Callback, Deliver, CallbackReturns, CallbackRaises, CallbackEscapes, EndRemove, EndRaises, ShutdownClear, ShutdownMark, ShutdownHub
<1> QED BY <1>1, <1>2, <1>3, <1>4, <1>5, <1>6, <1>7, <1>8, <1>9 DEF Construct

(* What has arrived stays.                                                 *)
LEMMA SameArrived ==
  ASSUME IInv, Next
  PROVE  \A k \in DOMAIN arrived : k \in DOMAIN arrived' /\ arrived'[k] = arrived[k]
<1> USE DEF ownerVars, subVars, hubVars, drainVars, histVars
<1>1. arrived' = arrived \/ \E s \in Subs, kind \in HubKinds : Arrive(s, kind)
  BY QuietOrNot DEF Quiet, Recv, Plan, ShutdownHub
<1>2. ASSUME NEW s \in Subs, NEW kind \in HubKinds, Arrive(s, kind)
      PROVE  \A k \in DOMAIN arrived : k \in DOMAIN arrived' /\ arrived'[k] = arrived[k]
  <2> DEFINE R == [sub: Subs, kind: Kinds]
  <2> DEFINE e == [sub |-> s, kind |-> kind]
  <2>1. arrived' = Append(arrived, e)
    BY <1>2 DEF Arrive
  <2>2. arrived \in Seq(R) /\ e \in R
    BY DispatcherAssumption DEF IInv, TypeOK
  <2> HIDE DEF R, e
  <2> QED BY <2>1, <2>2, AppendProperties
<1> QED BY <1>1, <1>2

(* What is closed stays closed until the drain opens it again, and is      *)
(* known for that ever after.                                              *)
LEMMA ClosedStays ==
  ASSUME IInv, Next
  PROVE  /\ \A s \in Subs : state[s] = "closed" => state'[s] = "closed" \/ (SetOpen /\ Reopened(s)')
         /\ \A s \in Subs : Reopened(s) => Reopened(s)'
<1> USE DEF ownerVars, subVars, hubVars, drainVars, histVars
<1>0. state \in [Subs -> {"opening", "open", "closed"}] /\ reopened \in Seq(Subs)
  BY DEF IInv, TypeOK
<1> DEFINE Keeps == \A t \in Subs : state[t] = "closed" => state'[t] = "closed"
<1>1. ASSUME NEW s \in Subs, CloseMark(s) PROVE Keeps
  BY <1>0, <1>1 DEF CloseMark, Flip
<1>2. ASSUME SetOpen
      PROVE  /\ \A t \in Subs : state[t] = "closed" => state'[t] = "closed" \/ Reopened(t)'
             /\ \A t \in Subs : Reopened(t) => Reopened(t)'
  <2>1. pc \in Busy /\ Sub(current) \in Subs
    BY <1>2, CurrentFacts DEF SetOpen, Busy
  <2>2. /\ state' = [state EXCEPT ![Sub(current)] = "open"]
        /\ reopened' = IF state[Sub(current)] = "closed" THEN Append(reopened, Sub(current)) ELSE reopened
    BY <1>2 DEF SetOpen
  <2>3. \A t \in Elems(reopened) \cup {Sub(current)} : t \in Elems(Append(reopened, Sub(current)))
    <3>1. /\ Len(reopened) \in Nat /\ DOMAIN reopened = 1..Len(reopened)
          /\ DOMAIN Append(reopened, Sub(current)) = 1..(Len(reopened) + 1)
          /\ Append(reopened, Sub(current))[Len(reopened) + 1] = Sub(current)
          /\ \A n \in 1..Len(reopened) : Append(reopened, Sub(current))[n] = reopened[n]
      BY <1>0, <2>1, AppendProperties
    <3>2. Len(reopened) + 1 \in 1..(Len(reopened) + 1) /\ \A n \in 1..Len(reopened) : n \in 1..(Len(reopened) + 1)
      BY <3>1
    <3> QED BY <3>1, <3>2 DEF Elems
  <2> QED BY <1>0, <2>1, <2>2, <2>3 DEF Reopened
<1>3. ASSUME EndMark PROVE Keeps
  BY <1>0, <1>3 DEF EndMark, Flip
<1>4. ASSUME CallbackRaises PROVE Keeps
  BY <1>0, <1>4 DEF CallbackRaises, Flip
<1>5. ASSUME ShutdownMark PROVE Keeps
  BY <1>0, <1>5 DEF ShutdownMark, Flip
<1>6. ASSUME state' = state PROVE Keeps
  BY <1>6
<1>7. \/ (\E s \in Subs : CloseMark(s)) \/ SetOpen \/ EndMark \/ CallbackRaises \/ ShutdownMark
      \/ state' = state
  BY
    DEF Next, Construct, Drain, Event, Callback, Shutdown, Die, RemoveSub, GetChannel, CountUp, HubSubscribe,
    HubRefuses, Register, Started, SetId, CloseRemove, CountDown, Arrive, Purge, Recv, Plan, EventClosed,
    EventDelivered, EventChecked, NoteConnected, HookReturns, HookRaises, Deliver, CallbackReturns,
    CallbackEscapes, EndRemove, EndRaises, ShutdownClear, ShutdownHub
<1>8. SetOpen \/ reopened' = reopened
  BY
    DEF Next, Construct, Drain, Event, Callback, Shutdown, Die, RemoveSub, GetChannel, CountUp, HubSubscribe,
    HubRefuses, Register, Started, SetId, CloseMark, CloseRemove, CountDown, Arrive, Purge, Recv, Plan,
    EventClosed, EventDelivered, EventChecked, NoteConnected, HookReturns, HookRaises, EndMark, Deliver,
    CallbackReturns, CallbackRaises, CallbackEscapes, EndRemove, EndRaises, ShutdownClear, ShutdownMark,
    ShutdownHub
<1>9. CASE SetOpen
  BY <1>2, <1>9
<1>10. CASE ~SetOpen
  <2>1. Keeps
    BY <1>1, <1>3, <1>4, <1>5, <1>6, <1>7, <1>10
  <2> QED BY <2>1, <1>8, <1>10 DEF Reopened
<1> QED BY <1>9, <1>10

(* The drain holds what it should.                                         *)
LEMMA PlacesStep ==
  ASSUME IInv, Next, TypeOK' PROVE PlacesA' /\ PlacesB' /\ PlacesC'
<1> USE DEF ownerVars, subVars, hubVars, drainVars, histVars
<1>0. TypeOK /\ PlacesA /\ PlacesB /\ PlacesC /\ OneThread
  BY DEF IInv, Frames, Numbers, PlacesA, PlacesB, PlacesC
<1>0b. \A k \in DOMAIN arrived : k \in DOMAIN arrived' /\ arrived'[k] = arrived[k] /\ Sub(k) \in Subs
  BY <1>0, SameArrived, ArrivedItem
<1>0c. pc = "ending" => \A s \in Subs : state[s] = "closed" => state'[s] = "closed"
  BY ClosedStays DEF SetOpen
<1>0d. stopping = [at |-> stopping.at, left |-> stopping.left, sub |-> stopping.sub]
  BY <1>0, StopRecord
<1>1. ASSUME NEW s \in Subs, GetChannel(s) PROVE PlacesA' /\ PlacesB' /\ PlacesC'
  <2>1. PlacesA'
    BY <1>0, <1>1 DEF GetChannel, PlacesA
  <2>2. PlacesB'
    BY <1>0, <1>1, <1>0b DEF GetChannel, PlacesB, Busy
  <2>3. PlacesC'
    BY <1>0, <1>1, <1>0b, <1>0c DEF GetChannel, PlacesC, Sub
  <2> QED BY <2>1, <2>2, <2>3
<1>2. ASSUME NEW s \in Subs, CountUp(s) PROVE PlacesA' /\ PlacesB' /\ PlacesC'
  <2>1. PlacesA'
    BY <1>0, <1>2 DEF CountUp, Counted, PlacesA
  <2>2. PlacesB'
    BY <1>0, <1>2, <1>0b DEF CountUp, Counted, PlacesB, Busy
  <2>3. PlacesC'
    BY <1>0, <1>2, <1>0b, <1>0c DEF CountUp, Counted, PlacesC, Sub
  <2> QED BY <2>1, <2>2, <2>3
<1>3. ASSUME NEW s \in Subs, HubSubscribe(s) PROVE PlacesA' /\ PlacesB' /\ PlacesC'
  <2>1. PlacesA'
    BY <1>0, <1>3 DEF HubSubscribe, PlacesA
  <2>2. PlacesB'
    BY <1>0, <1>3, <1>0b DEF HubSubscribe, PlacesB, Busy
  <2>3. PlacesC'
    BY <1>0, <1>3, <1>0b, <1>0c DEF HubSubscribe, PlacesC, Sub
  <2> QED BY <2>1, <2>2, <2>3
<1>4. ASSUME NEW s \in Subs, Register(s) PROVE PlacesA' /\ PlacesB' /\ PlacesC'
  <2>1. PlacesA'
    BY <1>0, <1>4 DEF Register, PlacesA
  <2>2. PlacesB'
    BY <1>0, <1>4, <1>0b DEF Register, PlacesB, Busy
  <2>3. PlacesC'
    BY <1>0, <1>4, <1>0b, <1>0c DEF Register, PlacesC, Sub
  <2> QED BY <2>1, <2>2, <2>3
<1>5. ASSUME NEW s \in Subs, Started(s) PROVE PlacesA' /\ PlacesB' /\ PlacesC'
  <2>1. PlacesA'
    BY <1>0, <1>5 DEF Started, PlacesA
  <2>2. PlacesB'
    BY <1>0, <1>5, <1>0b DEF Started, PlacesB, Busy
  <2>3. PlacesC'
    BY <1>0, <1>5, <1>0b, <1>0c DEF Started, PlacesC, Sub
  <2> QED BY <2>1, <2>2, <2>3
<1>6. ASSUME NEW s \in Subs, SetId(s) PROVE PlacesA' /\ PlacesB' /\ PlacesC'
  <2>1. PlacesA'
    BY <1>0, <1>6 DEF SetId, PlacesA
  <2>2. PlacesB'
    BY <1>0, <1>6, <1>0b DEF SetId, PlacesB, Busy
  <2>3. PlacesC'
    BY <1>0, <1>6, <1>0b, <1>0c DEF SetId, PlacesC, Sub
  <2> QED BY <2>1, <2>2, <2>3
<1>7. ASSUME NEW s \in Subs, CloseMark(s) PROVE PlacesA' /\ PlacesB' /\ PlacesC'
  <2>1. PlacesA'
    BY <1>0, <1>7 DEF CloseMark, Flip, HasId, PlacesA
  <2>2. PlacesB'
    BY <1>0, <1>7, <1>0b DEF CloseMark, Flip, HasId, PlacesB, Busy
  <2>3. PlacesC'
    BY <1>0, <1>7, <1>0b, <1>0c DEF CloseMark, Flip, HasId, PlacesC, Sub
  <2> QED BY <2>1, <2>2, <2>3
<1>8. ASSUME NEW s \in Subs, CloseRemove(s) PROVE PlacesA' /\ PlacesB' /\ PlacesC'
  <2>1. PlacesA'
    BY <1>0, <1>8 DEF CloseRemove, RemoveSub, PlacesA
  <2>2. PlacesB'
    BY <1>0, <1>8, <1>0b DEF CloseRemove, RemoveSub, PlacesB, Busy
  <2>3. PlacesC'
    BY <1>0, <1>8, <1>0b, <1>0c DEF CloseRemove, RemoveSub, PlacesC, Sub
  <2> QED BY <2>1, <2>2, <2>3
<1>9. ASSUME NEW s \in Subs, NEW who \in Closers, CountDown(s, who) PROVE PlacesA' /\ PlacesB' /\ PlacesC'
  <2>1. PlacesA'
    BY <1>0, <1>9 DEF CountDown, Counted, PlacesA
  <2>2. PlacesB'
    BY <1>0, <1>9, <1>0b DEF CountDown, Counted, PlacesB, Busy
  <2>3. PlacesC'
    BY <1>0, <1>9, <1>0b, <1>0c DEF CountDown, Counted, PlacesC, Sub
  <2> QED BY <2>1, <2>2, <2>3
<1>10. ASSUME NEW s \in Subs, NEW kind \in HubKinds, Arrive(s, kind) PROVE PlacesA' /\ PlacesB' /\ PlacesC'
  <2>1. PlacesA'
    BY <1>0, <1>10 DEF Arrive, PlacesA
  <2>2. PlacesB'
    BY <1>0, <1>10, <1>0b DEF Arrive, PlacesB, Busy
  <2>3. PlacesC'
    <3> SUFFICES ASSUME pc = "ending" PROVE state[Sub(current)'] = "closed"
      BY <1>10 DEF Arrive, PlacesC
    <3>1. current \in DOMAIN arrived /\ current' = current
      BY <1>0, <1>10 DEF Arrive, PlacesB, Busy
    <3>2. Sub(current)' = Sub(current)
      BY <1>0b, <3>1 DEF Sub
    <3> QED BY <1>0, <3>2 DEF PlacesC
  <2> QED BY <2>1, <2>2, <2>3
<1>11. CASE Purge
  <2>1. PlacesA'
    BY <1>0, <1>11 DEF Purge, PlacesA
  <2>2. PlacesB'
    BY <1>0, <1>11, <1>0b DEF Purge, PlacesB, Busy
  <2>3. PlacesC'
    BY <1>0, <1>11, <1>0b, <1>0c DEF Purge, PlacesC, Sub
  <2> QED BY <2>1, <2>2, <2>3
<1>12. CASE Recv
  <2>1. PlacesA'
    BY <1>0, <1>12 DEF Recv, PlacesA
  <2>2. PlacesB'
    BY <1>0, <1>12, <1>0b DEF Recv, PlacesB, Busy
  <2>3. PlacesC'
    BY <1>0, <1>12, <1>0b, <1>0c DEF Recv, PlacesC, Sub
  <2> QED BY <2>1, <2>2, <2>3
<1>13. CASE Plan
  <2>1. PlacesA'
    BY <1>0, <1>13 DEF Plan, LockFree, PlacesA
  <2>2. PlacesB'
    BY <1>0, <1>13, <1>0b DEF Plan, LockFree, PlacesB, Busy
  <2>3. PlacesC'
    BY <1>0, <1>13, <1>0b, <1>0c DEF Plan, LockFree, PlacesC, Sub
  <2> QED BY <2>1, <2>2, <2>3
<1>14. CASE EventClosed
  <2>1. PlacesA'
    BY <1>0, <1>14 DEF EventClosed, Resume, Live, PlacesA
  <2>2. PlacesB'
    BY <1>0, <1>14, <1>0b DEF EventClosed, Resume, Live, PlacesB, Busy
  <2>3. PlacesC'
    BY <1>0, <1>14, <1>0b, <1>0c DEF EventClosed, Resume, Live, PlacesC, Sub
  <2> QED BY <2>1, <2>2, <2>3
<1>15. CASE EventDelivered
  <2>1. PlacesA'
    BY <1>0, <1>15 DEF EventDelivered, Applied, Live, PlacesA
  <2>2. PlacesB'
    BY <1>0, <1>15, <1>0b, HeadFacts DEF EventDelivered, Applied, Live, PlacesB, Busy
  <2>3. PlacesC'
    BY <1>0, <1>15, <1>0b, <1>0c DEF EventDelivered, Applied, Live, PlacesC, Sub
  <2> QED BY <2>1, <2>2, <2>3
<1>16. CASE EventChecked
  <2>1. PlacesA'
    BY <1>0, <1>16, HeadFacts DEF EventChecked, Applied, Live, Handled, PlacesA
  <2>2. PlacesB'
    BY <1>0, <1>16, <1>0b, HeadFacts DEF EventChecked, Applied, Live, Handled, PlacesB, Busy
  <2>3. PlacesC'
    BY <1>0, <1>16, <1>0b, <1>0c, HeadFacts DEF EventChecked, Applied, Live, Handled, PlacesC, Sub
  <2> QED BY <2>1, <2>2, <2>3
<1>17. CASE EndMark
  <2>1. PlacesA'
    BY <1>0, <1>17 DEF EndMark, Flip, PlacesA
  <2>2. PlacesB'
    BY <1>0, <1>17, <1>0b DEF EndMark, Flip, PlacesB, Busy
  <2>3. PlacesC'
    <3>1. state' = [state EXCEPT ![Sub(current)] = "closed"] /\ current' = current /\ arrived' = arrived /\ pc \in Busy
      BY <1>17 DEF EndMark, Flip, Busy
    <3>2. Sub(current)' = Sub(current) /\ Sub(current) \in Subs
      BY <3>1, CurrentFacts DEF Sub
    <3> QED BY <1>0, <3>1, <3>2 DEF TypeOK, PlacesC
  <2> QED BY <2>1, <2>2, <2>3
<1>18. CASE HookReturns
  <2>1. PlacesA'
    BY <1>0, <1>18 DEF HookReturns, Resume, PlacesA
  <2>2. PlacesB'
    BY <1>0, <1>18, <1>0b DEF HookReturns, Resume, PlacesB, Busy
  <2>3. PlacesC'
    BY <1>0, <1>18, <1>0b, <1>0c DEF HookReturns, Resume, PlacesC, Sub
  <2> QED BY <2>1, <2>2, <2>3
<1>19. CASE HookRaises
  <2>1. PlacesA'
    BY <1>0, <1>19, <1>0d DEF HookRaises, Die, PlacesA
  <2>2. PlacesB'
    BY <1>0, <1>19, <1>0b DEF HookRaises, Die, PlacesB, Busy
  <2>3. PlacesC'
    BY <1>0, <1>19, <1>0b, <1>0c DEF HookRaises, Die, PlacesC, Sub
  <2> QED BY <2>1, <2>2, <2>3
<1>20. CASE Deliver
  <2>1. PlacesA'
    BY <1>0, <1>20 DEF Deliver, PlacesA
  <2>2. PlacesB'
    BY <1>0, <1>20, <1>0b DEF Deliver, PlacesB, Busy
  <2>3. PlacesC'
    BY <1>0, <1>20, <1>0b, <1>0c DEF Deliver, PlacesC, Sub
  <2> QED BY <2>1, <2>2, <2>3
<1>21. CASE CallbackReturns
  <2>1. PlacesA'
    BY <1>0, <1>21 DEF CallbackReturns, Resume, PlacesA
  <2>2. PlacesB'
    BY <1>0, <1>21, <1>0b DEF CallbackReturns, Resume, PlacesB, Busy
  <2>3. PlacesC'
    BY <1>0, <1>21, <1>0b, <1>0c DEF CallbackReturns, Resume, PlacesC, Sub
  <2> QED BY <2>1, <2>2, <2>3
<1>22. CASE CallbackRaises
  <2>1. PlacesA'
    BY <1>0, <1>22 DEF CallbackRaises, Flip, Live, Resume, PlacesA
  <2>2. PlacesB'
    BY <1>0, <1>22, <1>0b DEF CallbackRaises, Flip, Live, Resume, PlacesB, Busy
  <2>3. PlacesC'
    <3> SUFFICES ASSUME pc' = "ending" PROVE state'[Sub(current)'] = "closed"
      BY DEF PlacesC
    <3>1. state' = [state EXCEPT ![Sub(current)] = "closed"] /\ current' = current /\ current \in DOMAIN arrived
          /\ Sub(current) \in Subs /\ arrived' = arrived
      BY <1>0, <1>22, CurrentFacts DEF CallbackRaises, Flip, Resume, Busy
    <3>2. Sub(current)' = Sub(current)
      BY <3>1 DEF Sub
    <3> QED BY <1>0, <3>1, <3>2 DEF TypeOK
  <2> QED BY <2>1, <2>2, <2>3
<1>23. CASE EndRemove
  <2>1. PlacesA'
    BY <1>0, <1>23 DEF EndRemove, RemoveSub, Resume, PlacesA
  <2>2. PlacesB'
    BY <1>0, <1>23, <1>0b DEF EndRemove, RemoveSub, Resume, PlacesB, Busy
  <2>3. PlacesC'
    BY <1>0, <1>23, <1>0b, <1>0c DEF EndRemove, RemoveSub, Resume, PlacesC, Sub
  <2> QED BY <2>1, <2>2, <2>3
<1>24. CASE EndRaises
  <2>1. PlacesA'
    BY <1>0, <1>24, <1>0d DEF EndRaises, Die, PlacesA
  <2>2. PlacesB'
    BY <1>0, <1>24, <1>0b DEF EndRaises, Die, PlacesB, Busy
  <2>3. PlacesC'
    BY <1>0, <1>24, <1>0b, <1>0c DEF EndRaises, Die, PlacesC, Sub
  <2> QED BY <2>1, <2>2, <2>3
<1>25. CASE ShutdownClear
  <2>1. PlacesA'
    BY <1>0, <1>25, <1>0d DEF ShutdownClear, PlacesA
  <2>2. PlacesB'
    BY <1>0, <1>25, <1>0b DEF ShutdownClear, PlacesB, Busy
  <2>3. PlacesC'
    BY <1>0, <1>25, <1>0b, <1>0c DEF ShutdownClear, PlacesC, Sub
  <2> QED BY <2>1, <2>2, <2>3
<1>26. CASE ShutdownMark
  <2>1. PlacesA'
    BY <1>0, <1>26, <1>0d DEF ShutdownMark, Flip, MarkedCounted, PlacesA
  <2>2. PlacesB'
    BY <1>0, <1>26, <1>0b DEF ShutdownMark, Flip, MarkedCounted, PlacesB, Busy
  <2>3. PlacesC'
    BY <1>0, <1>26, <1>0b, <1>0c DEF ShutdownMark, Flip, MarkedCounted, PlacesC, Sub
  <2> QED BY <2>1, <2>2, <2>3
<1>27. CASE ShutdownHub
  <2>1. PlacesA'
    BY <1>0, <1>27, <1>0d DEF ShutdownHub, MarkedCounted, PlacesA
  <2>2. PlacesB'
    BY <1>0, <1>27, <1>0b DEF ShutdownHub, MarkedCounted, PlacesB, Busy
  <2>3. PlacesC'
    BY <1>0, <1>27, <1>0b, <1>0c DEF ShutdownHub, MarkedCounted, PlacesC, Sub
  <2> QED BY <2>1, <2>2, <2>3
<1>28. CASE NoteConnected
  <2>1. PlacesA'
    BY <1>0, <1>28 DEF NoteConnected, PlacesA
  <2>2. PlacesB'
    BY <1>0, <1>28, <1>0b DEF NoteConnected, PlacesB, Busy
  <2>3. PlacesC'
    BY <1>0, <1>28, <1>0b, <1>0c DEF NoteConnected, PlacesC, Sub
  <2> QED BY <2>1, <2>2, <2>3
<1>29. CASE SetOpen
  <2>1. PlacesA'
    BY <1>0, <1>29 DEF SetOpen, PlacesA
  <2>2. PlacesB'
    BY <1>0, <1>29, <1>0b DEF SetOpen, PlacesB, Busy
  <2>3. PlacesC'
    BY <1>0, <1>29, <1>0b, <1>0c DEF SetOpen, PlacesC, Sub
  <2> QED BY <2>1, <2>2, <2>3
<1>30. ASSUME NEW s \in Subs, HubRefuses(s) PROVE PlacesA' /\ PlacesB' /\ PlacesC'
  <2>1. PlacesA'
    BY <1>0, <1>30 DEF HubRefuses, PlacesA
  <2>2. PlacesB'
    BY <1>0, <1>30, <1>0b DEF HubRefuses, PlacesB, Busy
  <2>3. PlacesC'
    BY <1>0, <1>30, <1>0b, <1>0c DEF HubRefuses, PlacesC, Sub
  <2> QED BY <2>1, <2>2, <2>3
<1>31. CASE CallbackEscapes
  <2>1. PlacesA'
    BY <1>0, <1>31, <1>0d DEF CallbackEscapes, Die, PlacesA
  <2>2. PlacesB'
    BY <1>0, <1>31, <1>0b, <1>0d DEF CallbackEscapes, Die, PlacesB, Busy
  <2>3. PlacesC'
    BY <1>0, <1>31, <1>0b, <1>0c, <1>0d DEF CallbackEscapes, Die, PlacesC, Sub
  <2> QED BY <2>1, <2>2, <2>3
<1> QED
  BY <1>1, <1>2, <1>3, <1>4, <1>5, <1>6, <1>7, <1>8, <1>9, <1>10, <1>11, <1>12, <1>13, <1>14,
    <1>15, <1>16, <1>17, <1>18, <1>19, <1>20, <1>21, <1>22, <1>23, <1>24, <1>25, <1>26, <1>27,
    <1>28, <1>29, <1>30, <1>31
  DEF Next, Construct, Drain, Event, Callback, Shutdown

-----------------------------------------------------------------------------
(* Items are of subscriptions that have entered the hub, ...               *)
LEMMA ArrivalsStep ==
  ASSUME IInv, Next PROVE Arrivals'
<1>1. TypeOK /\ Arrivals /\ Users
  BY DEF IInv, Owned
<1>2. \A k \in DOMAIN arrived : k \in DOMAIN arrived' /\ arrived'[k] = arrived[k] /\ Sub(k) \in Subs
  BY <1>1, SameArrived, ArrivedItem
<1>3. \A s \in Subs : Entered(s) => Entered(s)'
  BY Onward
<1>4. ASSUME NEW k \in DOMAIN arrived PROVE Entered(Sub(k))'
  BY <1>1, <1>2, <1>3 DEF Arrivals, Sub, Entered
<1>5. CASE arrived' = arrived
  BY <1>4, <1>5 DEF Arrivals
<1>6. ASSUME NEW s \in Subs, NEW kind \in HubKinds, Arrive(s, kind) PROVE Arrivals'
  <2> DEFINE R == [sub: Subs, kind: Kinds]
  <2> DEFINE e == [sub |-> s, kind |-> kind]
  <2>1. arrived' = Append(arrived, e) /\ s \in hubSubs /\ e.sub = s
    BY <1>6 DEF Arrive
  <2>2. arrived \in Seq(R) /\ e \in R
    BY <1>1, DispatcherAssumption DEF TypeOK
  <2> HIDE DEF R, e
  <2>3. arrived'[Len(arrived) + 1] = e /\ \A k \in DOMAIN arrived' : k \in DOMAIN arrived \/ k = Len(arrived) + 1
    <3>1. /\ Len(arrived) \in Nat /\ DOMAIN arrived = 1..Len(arrived)
          /\ Len(arrived') = Len(arrived) + 1 /\ arrived' \in Seq(R) /\ arrived'[Len(arrived) + 1] = e
      BY <2>1, <2>2, AppendProperties
    <3>2. DOMAIN arrived' = 1..(Len(arrived) + 1)
      BY <3>1
    <3> QED BY <3>1, <3>2
  <2>4. Entered(s)'
    BY <2>1, <1>1, <1>3 DEF Users
  <2>5. arrived'[Len(arrived) + 1].sub = s
    BY <2>1, <2>3
  <2>6. ASSUME NEW k \in DOMAIN arrived' PROVE Entered(Sub(k))'
    <3>1. CASE k \in DOMAIN arrived
      BY <3>1, <1>4
    <3>2. CASE k = Len(arrived) + 1
      BY <3>2, <2>4, <2>5 DEF Sub, Entered
    <3> QED BY <3>1, <3>2, <2>3
  <2> QED BY <2>6 DEF Arrivals
<1> QED BY <1>5, <1>6, QuietOrNot DEF Quiet, Recv, Plan, ShutdownHub, hubVars

(* The steps that touch a constructor, a close, a map or the shutdown.     *)
Dies == HookRaises \/ EndRaises \/ CallbackEscapes
Mover ==
  \/ \E s \in Subs : Construct(s) \/ CloseMark(s) \/ CloseRemove(s)
  \/ SetOpen \/ EndMark \/ EndRemove \/ CallbackRaises \/ Shutdown \/ Dies
Bystander == UNCHANGED <<maker, closer, state, subs, hubSubs, reopened, stopping>>

(* All others stand by.                                                    *)
LEMMA MoversOnly ==
  ASSUME Next PROVE Mover \/ Bystander
<1> USE DEF ownerVars, subVars, hubVars, drainVars, histVars, Bystander
<1>1. ASSUME NEW s \in Subs, NEW who \in Closers, CountDown(s, who) PROVE Bystander
  BY <1>1 DEF CountDown
<1>2. ASSUME NEW s \in Subs, NEW kind \in HubKinds, Arrive(s, kind) PROVE Bystander
  BY <1>2 DEF Arrive
<1>3. Purge \/ Recv \/ Plan => Bystander
  BY DEF Purge, Recv, Plan
<1>4. EventClosed \/ EventDelivered \/ EventChecked => Bystander
  BY DEF EventClosed, EventDelivered, EventChecked
<1>5. NoteConnected \/ HookReturns \/ Deliver \/ CallbackReturns => Bystander
  BY DEF NoteConnected, HookReturns, Deliver, CallbackReturns
<1> QED BY <1>1, <1>2, <1>3, <1>4, <1>5 DEF Next, Drain, Event, Callback, Mover, Dies

(* What the end of the drain touches.                                      *)
LEMMA DiesOnly ==
  ASSUME Dies
  PROVE  /\ UNCHANGED <<maker, closer, state, uncounted, reopened, hubSubs, arrived>>
         /\ current' = 0 /\ pc' = "dead"
         /\ \/ Flavour = "loop" /\ subs' = {} /\ stopping' = [stopping EXCEPT !.at = "marking", !.left = subs]
            \/ Flavour # "loop" /\ subs' = subs /\ stopping' = stopping
         /\ pc = "ending" => <<Sub(current), "drain">> \notin uncounted
<1> USE DEF ownerVars, subVars, hubVars, drainVars, histVars
<1>1. ASSUME HookRaises PROVE pc = "hook"
  BY <1>1 DEF HookRaises
<1> QED BY <1>1 DEF Dies, HookRaises, EndRaises, CallbackEscapes, Die

(* ... and so are the users of both maps, ...                              *)
LEMMA UsersStep ==
  ASSUME IInv, Next PROVE Users'
<1> USE DEF ownerVars, subVars, hubVars, drainVars, histVars
<1>0. Users /\ maker \in [Subs -> {"new", "cached", "counted", "adding", "added", "started", "made", "refused"}]
  BY DEF IInv, Owned, TypeOK
<1>1. /\ stopping = [at |-> stopping.at, left |-> stopping.left, sub |-> stopping.sub]
      /\ stopping.left \subseteq Subs /\ subs \subseteq Subs /\ hubSubs \subseteq Subs
  BY StopRecord DEF IInv, TypeOK
<1>2. \A s \in Subs : (Entered(s) => Entered(s)') /\ (Added(s) => Added(s)')
  BY Onward
<1> DEFINE L == stopping.left
<1> DEFINE Ln == stopping'.left
<1>3. (\A s \in hubSubs : Entered(s)') /\ (\A s \in subs \cup L : Added(s)')
  BY <1>0, <1>1, <1>2 DEF Users
<1>4. SUFFICES /\ \A s \in hubSubs' : s \in hubSubs \/ Entered(s)'
               /\ \A s \in subs' \cup Ln : s \in subs \cup L \/ Added(s)'
  <2>1. (\A s \in hubSubs' : Entered(s)') /\ (\A s \in subs' \cup Ln : Added(s)')
    BY <1>3, <1>4
  <2> QED BY <2>1 DEF Users, Entered, Added
<1>5. ASSUME NEW s \in Subs, HubSubscribe(s)
      PROVE  (\A x \in hubSubs' : x \in hubSubs \/ Entered(x)') /\ subs' = subs /\ Ln = L
  <2>1. hubSubs' = hubSubs \cup {s} /\ maker'[s] = "adding" /\ subs' = subs /\ stopping' = stopping
    BY <1>0, <1>5 DEF HubSubscribe
  <2> QED BY <2>1 DEF Entered
<1>6. ASSUME NEW s \in Subs, Register(s)
      PROVE  (\A x \in subs' : x \in subs \/ Added(x)') /\ hubSubs' = hubSubs /\ Ln = L
  <2>1. subs' = subs \cup {s} /\ maker'[s] = "added" /\ hubSubs' = hubSubs /\ stopping' = stopping
    BY <1>0, <1>6 DEF Register
  <2> QED BY <2>1 DEF Added
<1>7. ASSUME NEW s \in Subs, GetChannel(s) \/ CountUp(s) \/ HubRefuses(s) \/ Started(s) \/ SetId(s) \/ CloseMark(s)
      PROVE  subs' = subs /\ hubSubs' = hubSubs /\ Ln = L
  BY <1>7 DEF GetChannel, CountUp, HubRefuses, Started, SetId, CloseMark
<1>8. ASSUME NEW s \in Subs, CloseRemove(s) PROVE subs' \subseteq subs /\ hubSubs' \subseteq hubSubs /\ Ln = L
  BY <1>8 DEF CloseRemove, RemoveSub
<1>9. SetOpen \/ EndMark \/ CallbackRaises => subs' = subs /\ hubSubs' = hubSubs /\ Ln = L
  BY DEF SetOpen, EndMark, CallbackRaises
<1>10. EndRemove => subs' \subseteq subs /\ hubSubs' \subseteq hubSubs /\ Ln = L
  BY DEF EndRemove, RemoveSub
<1>11. Shutdown => subs' \subseteq subs /\ hubSubs' \subseteq hubSubs /\ Ln \subseteq subs \cup L
  BY <1>1 DEF Shutdown, ShutdownClear, ShutdownMark, ShutdownHub
<1>12. Dies => subs' \subseteq subs /\ hubSubs' \subseteq hubSubs /\ Ln \subseteq subs \cup L
  BY <1>1, DiesOnly
<1>13. Bystander => subs' = subs /\ hubSubs' = hubSubs /\ Ln = L
  BY DEF Bystander
<1> QED
  BY <1>5, <1>6, <1>7, <1>8, <1>9, <1>10, <1>11, <1>12, <1>13, MoversOnly DEF Mover, Construct

(* A flip of a subscription that has been registered.                      *)
LEMMA FlipClosings ==
  ASSUME IInv, NEW x \in Subs, Entered(x), NEW who, Flip(x, who), maker' = maker, subs' = subs,
         reopened' = reopened, stopping'.at = stopping.at, \A t \in Subs : t # x => closer'[t] = closer[t]
  PROVE  Closings'
<1>1. state \in [Subs -> {"opening", "open", "closed"}] /\ Closings
  BY DEF IInv, TypeOK, Owned
<1>2. state'[x] = "closed" /\ \A t \in Subs : t # x => state'[t] = state[t]
  BY <1>1 DEF Flip
<1> QED BY <1>1, <1>2 DEF Closings, Entered, Added, Reopened

(* ... what is closed or was opened again is still told apart, ...         *)
LEMMA ClosingsStep ==
  ASSUME IInv, Next PROVE Closings'
<1> USE DEF ownerVars, subVars, hubVars, drainVars, histVars
<1>0. Closings /\ maker \in [Subs -> {"new", "cached", "counted", "adding", "added", "started", "made", "refused"}]
      /\ state \in [Subs -> {"opening", "open", "closed"}] /\ closer \in [Subs -> {"no", "marked", "returned"}]
  BY DEF IInv, Owned, TypeOK
<1>1. stopping = [at |-> stopping.at, left |-> stopping.left, sub |-> stopping.sub] /\ stopping.left \subseteq Subs
  BY StopRecord DEF IInv, TypeOK
<1>2. \A k \in DOMAIN arrived : Entered(Sub(k)) /\ Sub(k) \in Subs
  BY ArrivedItem DEF IInv, TypeOK, Owned, Arrivals
<1>3. ASSUME NEW s \in Subs, GetChannel(s) \/ CountUp(s) \/ HubRefuses(s) \/ Started(s) \/ SetId(s) PROVE Closings'
  <2>1. /\ UNCHANGED <<closer, state, subs, reopened, stopping>>
        /\ \A t \in Subs : Entered(t) => Entered(t)'
        /\ \A t \in Subs : Added(t)' => Added(t)
    BY <1>0, <1>3 DEF GetChannel, CountUp, HubRefuses, Started, SetId, Entered, Added
  <2> QED BY <1>0, <2>1 DEF Closings, Reopened
<1>4. ASSUME NEW s \in Subs, HubSubscribe(s) PROVE Closings'
  <2>1. /\ UNCHANGED <<closer, state, subs, reopened, stopping>>
        /\ \A t \in Subs : Entered(t) => Entered(t)'
        /\ \A t \in Subs : Added(t)' => Added(t)
    BY <1>0, <1>4 DEF HubSubscribe, Entered, Added
  <2> QED BY <1>0, <2>1 DEF Closings, Reopened
<1>5. ASSUME NEW s \in Subs, Register(s) PROVE Closings'
  <2>1. /\ UNCHANGED <<closer, state, reopened, stopping>> /\ subs' = subs \cup {s}
        /\ \A t \in Subs : Entered(t) => Entered(t)'
        /\ \A t \in Subs : Added(t)' => Added(t) \/ t = s
    BY <1>0, <1>5 DEF Register, Entered, Added
  <2> QED BY <1>0, <2>1 DEF Closings, Reopened
<1>6. ASSUME NEW s \in Subs, CloseMark(s) PROVE Closings'
  <2>1. Entered(s)
    BY <1>6 DEF CloseMark, HasId, Entered
  <2>2. /\ Flip(s, "owner") /\ maker' = maker /\ subs' = subs /\ reopened' = reopened
        /\ stopping'.at = stopping.at /\ \A t \in Subs : t # s => closer'[t] = closer[t]
    BY <1>0, <1>6 DEF CloseMark
  <2> QED BY <2>1, <2>2, FlipClosings
<1>7. ASSUME NEW s \in Subs, CloseRemove(s) PROVE Closings'
  <2>1. /\ UNCHANGED <<maker, state, reopened, stopping>> /\ subs' = subs \ {s} /\ closer[s] = "marked"
        /\ \A t \in Subs : t # s => closer'[t] = closer[t]
    BY <1>0, <1>7 DEF CloseRemove, RemoveSub
  <2>2. state[s] = "closed" \/ Reopened(s)
    BY <1>0, <2>1 DEF Closings
  <2> QED BY <1>0, <2>1, <2>2 DEF Closings, Reopened, Entered, Added
<1>8. CASE SetOpen
  <2>1. pc \in Busy /\ current \in DOMAIN arrived
    BY <1>8 DEF SetOpen, Busy, IInv, Frames, PlacesB
  <2>2. PICK x \in Subs : x = Sub(current) /\ Entered(x)
    BY <2>1, <1>2
  <2>3. /\ UNCHANGED <<maker, closer, subs, stopping>> /\ state' = [state EXCEPT ![x] = "open"]
        /\ \A t \in Subs : Reopened(t)' => Reopened(t) \/ t = x
        /\ \A t \in Subs : Reopened(t) => Reopened(t)'
        /\ state[x] = "closed" => Reopened(x)'
    <3>1. /\ \A t \in Subs : state[t] = "closed" => state'[t] = "closed" \/ Reopened(t)'
          /\ \A t \in Subs : Reopened(t) => Reopened(t)'
      BY ClosedStays
    <3>2. UNCHANGED <<maker, closer, subs, stopping>> /\ state' = [state EXCEPT ![x] = "open"]
      BY <1>8, <2>2 DEF SetOpen
    <3>3. reopened' = reopened \/ reopened' = Append(reopened, x)
      BY <1>8, <2>2 DEF SetOpen
    <3>4. ASSUME NEW t \in Subs, t \in Elems(Append(reopened, x)), t # x PROVE t \in Elems(reopened)
      <4>1. /\ Len(reopened) \in Nat /\ DOMAIN reopened = 1..Len(reopened)
            /\ DOMAIN Append(reopened, x) = 1..(Len(reopened) + 1)
            /\ Append(reopened, x)[Len(reopened) + 1] = x
            /\ \A n \in 1..Len(reopened) : Append(reopened, x)[n] = reopened[n]
        <5>1. reopened \in Seq(Subs)
          BY DEF IInv, TypeOK
        <5> QED BY <5>1, <2>2, AppendProperties
      <4>2. PICK n \in 1..(Len(reopened) + 1) : Append(reopened, x)[n] = t
        BY <3>4, <4>1 DEF Elems
      <4>3. n \in 1..Len(reopened)
        BY <3>4, <4>1, <4>2
      <4> QED BY <4>1, <4>2, <4>3 DEF Elems
    <3>5. state'[x] = "open"
      BY <3>2, <2>2, <1>0
    <3>6. ASSUME NEW t \in Subs, Reopened(t)' PROVE Reopened(t) \/ t = x
      <4>1. CASE reopened' = reopened
        BY <3>6, <4>1 DEF Reopened
      <4>2. CASE reopened' = Append(reopened, x)
        <5>1. t \in Elems(Append(reopened, x))
          BY <3>6, <4>2 DEF Reopened
        <5> QED BY <3>4, <5>1 DEF Reopened
      <4> QED BY <3>3, <4>1, <4>2
    <3>7. state[x] = "closed" => Reopened(x)'
      BY <3>1, <3>5, <2>2
    <3> QED BY <3>1, <3>2, <3>6, <3>7
  <2>4. \A t \in Subs : t # x => state'[t] = state[t]
    BY <2>3, <1>0
  <2>5. \A t \in Subs : t # x => (Reopened(t)' <=> Reopened(t))
    BY <2>3
  <2>6. /\ \A t \in Subs : Entered(t)' <=> Entered(t)
        /\ \A t \in Subs : Added(t)' <=> Added(t)
    BY <2>3 DEF Entered, Added
  <2>7. state[x] # "closed" \/ Reopened(x)'
    BY <2>3
  <2>8. ASSUME NEW t \in Subs, t # x
        PROVE  /\ ~Entered(t)' => state'[t] = "opening" /\ ~Reopened(t)'
               /\ state'[t] # "closed" /\ ~Reopened(t)' => closer'[t] = "no"
               /\ state'[t] # "closed" /\ ~Reopened(t)' /\ stopping'.at = "no" /\ Added(t)' => t \in subs'
    BY <1>0, <2>3, <2>4, <2>5, <2>6, <2>8 DEF Closings
  <2>9. /\ Entered(x)'
        /\ ~Reopened(x)' => closer'[x] = "no"
        /\ ~Reopened(x)' /\ stopping'.at = "no" /\ Added(x)' => x \in subs'
    BY <1>0, <2>2, <2>3, <2>6 DEF Closings
  <2> QED BY <2>8, <2>9 DEF Closings, Entered, Added, Reopened
<1>9. ASSUME EndMark \/ CallbackRaises PROVE Closings'
  <2>1. pc \in Busy /\ current \in DOMAIN arrived
    BY <1>9 DEF EndMark, CallbackRaises, Busy, IInv, Frames, PlacesB
  <2>2. Sub(current) \in Subs /\ Entered(Sub(current))
    BY <2>1, <1>2
  <2>3. /\ Flip(Sub(current), "drain") /\ maker' = maker /\ subs' = subs /\ reopened' = reopened
        /\ stopping'.at = stopping.at /\ closer' = closer
    BY <1>9 DEF EndMark, CallbackRaises
  <2> QED BY <2>2, <2>3, FlipClosings
<1>10. CASE EndRemove
  <2>1. pc = "ending" /\ current \in DOMAIN arrived
    BY <1>10 DEF EndRemove, Busy, IInv, Frames, PlacesB
  <2>2. Sub(current) \in Subs /\ state[Sub(current)] = "closed"
    BY <2>1, <1>2 DEF IInv, Frames, PlacesC
  <2>3. UNCHANGED <<maker, closer, state, reopened, stopping>> /\ subs' = subs \ {Sub(current)}
    BY <1>10 DEF EndRemove, RemoveSub
  <2> QED BY <1>0, <2>2, <2>3 DEF Closings, Reopened, Entered, Added
<1>11. CASE Dies
  <2>1. /\ UNCHANGED <<maker, closer, state, reopened>>
        /\ (subs' = subs /\ stopping'.at = stopping.at) \/ stopping'.at = "marking"
    BY <1>1, <1>11, DiesOnly
  <2> QED BY <1>0, <2>1 DEF Closings, Reopened, Entered, Added
<1>12. CASE ShutdownMark
  <2>1. PICK s \in stopping.left : Flip(s, "shutdown") /\ stopping' = [stopping EXCEPT !.left = @ \ {s}, !.sub = s]
    BY <1>12 DEF ShutdownMark
  <2>2. s \in Subs /\ Entered(s)
    BY <1>1 DEF IInv, Owned, Users, Added, Entered
  <2>3. maker' = maker /\ subs' = subs /\ stopping'.at = stopping.at /\ closer' = closer /\ reopened' = reopened
    BY <1>1, <2>1, <1>12 DEF ShutdownMark
  <2> QED BY <2>1, <2>2, <2>3, FlipClosings
<1>13. ASSUME ShutdownClear \/ ShutdownHub PROVE Closings'
  <2>1. UNCHANGED <<maker, closer, state, reopened>> /\ stopping'.at # "no"
    BY <1>1, <1>13 DEF ShutdownClear, ShutdownHub
  <2> QED BY <1>0, <2>1 DEF Closings, Reopened, Entered, Added
<1>14. CASE Bystander
  BY <1>0, <1>14 DEF Bystander, Closings, Reopened, Entered, Added
<1> QED
  BY <1>3, <1>4, <1>5, <1>6, <1>7, <1>8, <1>9, <1>10, <1>11, <1>12, <1>13, <1>14, MoversOnly
  DEF Mover, Construct, Shutdown

(* How a close is marked, and how it is counted down.                      *)
Marks(x, who) == state[x] # "closed" /\ uncounted' = uncounted \cup {<<x, who>>}
Counts == UNCHANGED uncounted \/ \E x \in Subs, who \in Closers : uncounted' = uncounted \ {<<x, who>>}

(* Every other step leaves the closes to be counted alone, or counts one.  *)
LEMMA MarksOnly ==
  ASSUME IInv, Next
  PROVE  \/ \E x \in Subs : CloseMark(x) /\ Marks(x, "owner")
         \/ (EndMark \/ CallbackRaises) /\ Marks(Sub(current), "drain")
         \/ ShutdownMark /\ \E x \in Subs : Marks(x, "shutdown") /\ stopping'.sub = x
         \/ Counts
<1> USE DEF ownerVars, subVars, hubVars, drainVars, histVars
<1>1. ASSUME NEW s \in Subs, CloseMark(s) PROVE Marks(s, "owner") \/ Counts
  BY <1>1 DEF CloseMark, Flip, Marks, Counts
<1>2. EndMark \/ CallbackRaises => Marks(Sub(current), "drain") \/ Counts
  BY DEF EndMark, CallbackRaises, Flip, Marks, Counts
<1>3. ASSUME ShutdownMark PROVE (\E x \in Subs : Marks(x, "shutdown") /\ stopping'.sub = x) \/ Counts
  <2>1. PICK s \in stopping.left : Flip(s, "shutdown") /\ stopping' = [stopping EXCEPT !.left = @ \ {s}, !.sub = s]
    BY <1>3 DEF ShutdownMark
  <2>2. s \in Subs /\ stopping'.sub = s
    BY <2>1, StopRecord DEF IInv, TypeOK
  <2> QED BY <2>1, <2>2 DEF Flip, Marks, Counts
<1>4. ASSUME NEW s \in Subs, NEW who \in Closers, CountDown(s, who) PROVE Counts
  BY <1>4 DEF CountDown, Counts
<1>5. \/ (\E s \in Subs : CloseMark(s)) \/ EndMark \/ CallbackRaises \/ ShutdownMark
      \/ (\E s \in Subs, who \in Closers : CountDown(s, who)) \/ UNCHANGED uncounted
  BY
    DEF Next, Construct, Drain, Event, Callback, Shutdown, Die, RemoveSub, GetChannel, CountUp, HubSubscribe,
    HubRefuses, Register, Started, SetId, CloseRemove, Arrive, Purge, Recv, Plan, EventClosed,
    EventDelivered, EventChecked, NoteConnected, SetOpen, HookReturns, HookRaises, Deliver, CallbackReturns,
    CallbackEscapes, EndRemove, EndRaises, ShutdownClear, ShutdownHub
<1> QED BY <1>1, <1>2, <1>3, <1>4, <1>5 DEF Counts

(* Where those who mark are afterwards.                                    *)
LEMMA MarkersStay ==
  ASSUME IInv, Next, NEW s \in Subs
  PROVE  /\ <<s, "owner">> \in uncounted => closer'[s] = "marked"
         /\ <<s, "drain">> \in uncounted => pc' = "ending" /\ Sub(current)' = s
         /\ <<s, "shutdown">> \in uncounted => stopping'.sub = s
<1> USE DEF ownerVars, subVars, hubVars, drainVars, histVars
<1>0. Tokens /\ closer \in [Subs -> {"no", "marked", "returned"}]
  BY DEF IInv, Owned, TypeOK
<1>1. ASSUME <<s, "owner">> \in uncounted PROVE closer'[s] = "marked"
  <2>1. closer[s] = "marked"
    BY <1>0, <1>1 DEF Tokens
  <2>2. ASSUME NEW x \in Subs, CloseMark(x) PROVE closer'[s] = "marked"
    BY <1>0, <2>1, <2>2 DEF CloseMark
  <2>3. ASSUME NEW x \in Subs, CloseRemove(x) PROVE closer'[s] = "marked"
    BY <1>0, <1>1, <2>1, <2>3 DEF CloseRemove, RemoveSub
  <2>4. (\E x \in Subs : CloseMark(x) \/ CloseRemove(x)) \/ closer' = closer
    BY MoversOnly, DiesOnly
      DEF Mover, Bystander, Construct, GetChannel, CountUp, HubSubscribe, HubRefuses, Register, Started, SetId,
      SetOpen, EndMark, EndRemove, CallbackRaises, Shutdown, ShutdownClear, ShutdownMark, ShutdownHub
  <2> QED BY <2>1, <2>2, <2>3, <2>4
<1>2. ASSUME <<s, "drain">> \in uncounted PROVE pc' = "ending" /\ Sub(current)' = s
  <2>1. pc = "ending" /\ Sub(current) = s /\ pc \in Busy
    BY <1>0, <1>2 DEF Tokens, Busy
  <2>2. current \in DOMAIN arrived
    BY <2>1 DEF IInv, Frames, PlacesB
  <2>3. arrived'[current] = arrived[current]
    BY <2>2, SameArrived
  <2>4. ~EndRemove /\ ~EndRaises
    BY <1>2, <2>1 DEF EndRemove, EndRaises, RemoveSub
  <2>5. UNCHANGED <<pc, current>>
    <3>1. ~Drain
      BY <2>1, <2>4
        DEF Drain, Event, Callback, Recv, Plan, EventClosed, EventDelivered, EventChecked, NoteConnected, SetOpen,
        HookReturns, HookRaises, EndMark, Deliver, CallbackReturns, CallbackRaises, CallbackEscapes
    <3>2. ASSUME NEW x \in Subs, Construct(x) PROVE UNCHANGED <<pc, current>>
      BY <2>1, <3>2
        DEF Construct, GetChannel, CountUp, HubSubscribe, HubRefuses, Register, Started, SetId
    <3>3. ASSUME NEW x \in Subs, CloseMark(x) \/ CloseRemove(x) PROVE UNCHANGED <<pc, current>>
      BY <3>3 DEF CloseMark, CloseRemove
    <3>4. ASSUME NEW x \in Subs, NEW who \in Closers, CountDown(x, who) PROVE UNCHANGED <<pc, current>>
      BY <3>4 DEF CountDown
    <3>5. ASSUME NEW x \in Subs, NEW kind \in HubKinds, Arrive(x, kind) PROVE UNCHANGED <<pc, current>>
      BY <3>5 DEF Arrive
    <3>6. Purge \/ Shutdown => UNCHANGED <<pc, current>>
      BY <2>1 DEF Purge, Shutdown, ShutdownClear, ShutdownMark, ShutdownHub
    <3> QED BY <3>1, <3>2, <3>3, <3>4, <3>5, <3>6 DEF Next
  <2> QED BY <2>1, <2>3, <2>5 DEF Sub
<1>3. ASSUME <<s, "shutdown">> \in uncounted PROVE stopping'.sub = s
  <2>1. stopping.sub = s
    BY <1>0, <1>3 DEF Tokens
  <2>2. stopping = [at |-> stopping.at, left |-> stopping.left, sub |-> stopping.sub]
    BY StopRecord DEF IInv
  <2>3. ~ShutdownMark
    BY <1>3, <2>1 DEF ShutdownMark, MarkedCounted
  <2>4. Dies => stopping'.sub = s
    BY <2>1, <2>2, DiesOnly
  <2>5. ShutdownClear \/ ShutdownHub => stopping'.sub = s
    BY <2>1, <2>2 DEF ShutdownClear, ShutdownHub
  <2>6. Dies \/ ShutdownClear \/ ShutdownHub \/ stopping' = stopping
    BY <2>3, MoversOnly
      DEF Mover, Bystander, Construct, GetChannel, CountUp, HubSubscribe, HubRefuses, Register, Started, SetId,
      CloseMark, CloseRemove, SetOpen, EndMark, EndRemove, CallbackRaises, Shutdown
  <2> QED BY <2>1, <2>4, <2>5, <2>6
<1> QED BY <1>1, <1>2, <1>3

(* ... and who marked and did not count down is still at it.               *)
LEMMA TokensStep ==
  ASSUME IInv, Next PROVE Tokens'
<1> USE DEF ownerVars, subVars, hubVars, drainVars, histVars
<1>0. /\ Tokens /\ closer \in [Subs -> {"no", "marked", "returned"}] /\ subs \subseteq Subs
      /\ stopping.left \subseteq Subs
  BY StopRecord DEF IInv, Owned, TypeOK
<1>1. \A s \in Subs : Entered(s) => Entered(s)'
  BY Onward
<1>2. \A k \in DOMAIN arrived : Entered(Sub(k)) /\ Sub(k) \in Subs
  BY ArrivedItem DEF IInv, TypeOK, Owned, Arrivals
<1>3. ASSUME NEW s \in Subs, NEW who \in Closers, <<s, who>> \in uncounted
      PROVE  /\ Entered(s)' /\ (who = "owner" => closer'[s] = "marked")
             /\ (who = "drain" => pc' = "ending" /\ Sub(current)' = s) /\ (who = "shutdown" => stopping'.sub = s)
  BY <1>0, <1>1, <1>3, MarkersStay DEF Tokens
<1>4. SUFFICES
        ASSUME NEW s \in Subs, NEW who \in Closers, <<s, who>> \in uncounted', <<s, who>> \notin uncounted
        PROVE  /\ Entered(s)' /\ (who = "owner" => closer'[s] = "marked")
               /\ (who = "drain" => pc' = "ending" /\ Sub(current)' = s) /\ (who = "shutdown" => stopping'.sub = s)
  <2>1. \A s \in Subs, who \in Closers : <<s, who>> \in uncounted' =>
          /\ Entered(s)' /\ (who = "owner" => closer'[s] = "marked")
          /\ (who = "drain" => pc' = "ending" /\ Sub(current)' = s) /\ (who = "shutdown" => stopping'.sub = s)
    BY <1>3, <1>4
  <2> QED BY <2>1 DEF Tokens, Closers, Entered
<1>5. ASSUME NEW x \in Subs, CloseMark(x), Marks(x, "owner")
      PROVE  s = x /\ who = "owner" /\ Entered(s)' /\ closer'[s] = "marked"
  <2>1. s = x /\ who = "owner"
    BY <1>4, <1>5 DEF Marks
  <2>2. Entered(x) /\ closer'[x] = "marked"
    BY <1>0, <1>5 DEF CloseMark, HasId, Entered, Marks
  <2> QED BY <2>1, <2>2, <1>1
<1>6. ASSUME EndMark \/ CallbackRaises, Marks(Sub(current), "drain")
      PROVE  who = "drain" /\ Entered(s)' /\ pc' = "ending" /\ Sub(current)' = s
  <2>1. s = Sub(current) /\ who = "drain"
    BY <1>4, <1>6 DEF Marks
  <2>2. pc \in Busy /\ current \in DOMAIN arrived
    BY <1>6 DEF EndMark, CallbackRaises, Busy, IInv, Frames, PlacesB
  <2>3. Entered(s) /\ pc' = "ending" /\ current' = current /\ arrived' = arrived
    BY <1>2, <1>6, <2>1, <2>2 DEF EndMark, CallbackRaises, Marks, Live
  <2> QED BY <2>1, <2>3, <1>1 DEF Sub
<1>7. ASSUME NEW x \in Subs, ShutdownMark, Marks(x, "shutdown"), stopping'.sub = x
      PROVE  who = "shutdown" /\ Entered(s)' /\ stopping'.sub = s
  <2>1. s = x /\ who = "shutdown"
    BY <1>4, <1>7 DEF Marks
  <2>2. x \in stopping.left
    <3>1. PICK y \in stopping.left : stopping' = [stopping EXCEPT !.left = @ \ {y}, !.sub = y]
      BY <1>7 DEF ShutdownMark
    <3> QED BY <3>1, <1>7, StopRecord DEF IInv
  <2>3. Entered(x)
    BY <2>2 DEF IInv, Owned, Users, Added, Entered
  <2> QED BY <2>1, <2>3, <1>1, <1>7
<1>8. ~Counts
  BY <1>4 DEF Counts
<1> QED BY <1>5, <1>6, <1>7, <1>8, MarksOnly

(* All of it is kept.                                                      *)
LEMMA OwnedStep ==
  ASSUME IInv, Next PROVE Owned'
BY ArrivalsStep, UsersStep, ClosingsStep, TokensStep DEF Owned

-----------------------------------------------------------------------------
(* A loop runs one piece of Python at a time, ...                          *)
LEMMA LoopStep ==
  ASSUME IInv, Next, Flavour = "loop" PROVE OneAt' /\ HeldOpen'
<1> USE DEF ownerVars, subVars, hubVars, drainVars, histVars
<1>0. OneAt /\ HeldOpen /\ state \in [Subs -> {"opening", "open", "closed"}]
  BY DEF IInv, OneThread, TypeOK
<1>1. stopping = [at |-> stopping.at, left |-> stopping.left, sub |-> stopping.sub]
  BY StopRecord DEF IInv
<1>2. \A k \in DOMAIN arrived : k \in DOMAIN arrived' /\ arrived'[k] = arrived[k] /\ Sub(k) \in Subs
  BY SameArrived, ArrivedItem DEF IInv
(* The drain's steps, ...                                                  *)
<1>3. ASSUME Recv \/ Plan \/ EventClosed \/ EventDelivered
      PROVE  pc' \notin {"deliver", "noting", "opening"} /\ UNCHANGED <<stopping, reopened>> /\ stopping.at = "no"
  BY <1>0, <1>3 DEF OneAt, Recv, Plan, EventClosed, EventDelivered, Resume
<1>4. ASSUME HookReturns \/ EndMark \/ EndRemove \/ CallbackReturns \/ CallbackRaises
      PROVE  pc' \notin {"deliver", "noting", "opening"} /\ UNCHANGED <<stopping, reopened>> /\ stopping.at = "no"
  BY <1>0, <1>4 DEF OneAt, HookReturns, EndMark, EndRemove, CallbackReturns, CallbackRaises, Resume
<1>5. ASSUME EventChecked PROVE OneAt' /\ HeldOpen'
  <2>1. /\ pc = "dispatch" /\ UNCHANGED <<stopping, reopened, state, arrived>> /\ current' = Head(todo)
        /\ pc' \in {"noting", "hook", "marking"} /\ state[Sub(Head(todo))] # "closed"
    BY <1>5 DEF EventChecked, Handled, Live
  <2> QED BY <1>0, <2>1 DEF OneAt, HeldOpen, Sub
<1>6. CASE NoteConnected
  BY <1>0, <1>6 DEF NoteConnected, OneAt, HeldOpen, Sub
<1>7. CASE SetOpen
  <2>1. /\ pc = "opening" /\ pc' = "hook" /\ stopping' = stopping
        /\ reopened' = IF state[Sub(current)] = "closed" THEN Append(reopened, Sub(current)) ELSE reopened
    BY <1>7 DEF SetOpen
  <2> QED BY <1>0, <2>1 DEF OneAt, HeldOpen
<1>8. CASE Deliver
  BY <1>0, <1>8 DEF Deliver, OneAt
<1>9. CASE Dies
  BY <1>0, <1>1, <1>9, DiesOnly DEF OneAt, HeldOpen
(* ... and the steps of the others.                                        *)
<1>10. ASSUME UNCHANGED <<pc, current, stopping, reopened>>, pc \in {"noting", "opening"} => state' = state
       PROVE  OneAt' /\ HeldOpen'
  <2>1. OneAt'
    BY <1>0, <1>10 DEF OneAt
  <2>2. ASSUME pc \in {"noting", "opening"} PROVE state'[Sub(current)'] # "closed"
    <3>1. current \in DOMAIN arrived
      BY <2>2 DEF IInv, Frames, PlacesB, Busy
    <3>2. Sub(current)' = Sub(current)
      BY <1>2, <1>10, <3>1 DEF Sub
    <3> QED BY <1>0, <1>10, <2>2, <3>2 DEF HeldOpen
  <2> QED BY <1>10, <2>1, <2>2 DEF HeldOpen
<1>11. ASSUME NEW s \in Subs, Construct(s) PROVE OneAt' /\ HeldOpen'
  <2>1. CASE Started(s) /\ pc = "off"
    BY <1>0, <2>1 DEF Started, OneAt, HeldOpen
  <2>2. CASE ~(Started(s) /\ pc = "off")
    <3>1. UNCHANGED <<pc, current, stopping, reopened, state>>
      BY <1>11, <2>2
        DEF Construct, GetChannel, CountUp, HubSubscribe, HubRefuses, Register, Started, SetId
    <3> QED BY <3>1, <1>10
  <2> QED BY <2>1, <2>2
<1>12. ASSUME NEW s \in Subs, CloseMark(s) \/ CloseRemove(s) PROVE OneAt' /\ HeldOpen'
  <2>1. UNCHANGED <<pc, current, stopping, reopened>> /\ (pc \in {"noting", "opening"} => state' = state)
    BY <1>12 DEF CloseMark, CloseRemove, OwnersRun
  <2> QED BY <2>1, <1>10
<1>13. ASSUME NEW s \in Subs, NEW who \in Closers, CountDown(s, who) PROVE OneAt' /\ HeldOpen'
  <2>1. UNCHANGED <<pc, current, stopping, reopened, state>>
    BY <1>13 DEF CountDown
  <2> QED BY <2>1, <1>10
<1>14. ASSUME NEW s \in Subs, NEW kind \in HubKinds, Arrive(s, kind) PROVE OneAt' /\ HeldOpen'
  <2>1. UNCHANGED <<pc, current, stopping, reopened, state>>
    BY <1>14 DEF Arrive
  <2> QED BY <2>1, <1>10
<1>15. CASE Purge
  <2>1. UNCHANGED <<pc, current, stopping, reopened, state>>
    BY <1>15 DEF Purge
  <2> QED BY <2>1, <1>10
<1>16. CASE ShutdownClear
  BY <1>0, <1>16 DEF ShutdownClear, OneAt, HeldOpen
<1>17. CASE ShutdownMark \/ ShutdownHub
  BY <1>0, <1>17 DEF ShutdownMark, ShutdownHub, OneAt, HeldOpen
<1>18. (Recv \/ Plan \/ EventClosed \/ EventDelivered) \/ (HookReturns \/ EndMark \/ EndRemove \/ CallbackReturns \/ CallbackRaises)
       => OneAt' /\ HeldOpen'
  <2> SUFFICES ASSUME /\ pc' \notin {"deliver", "noting", "opening"} /\ UNCHANGED <<stopping, reopened>>
                      /\ stopping.at = "no"
               PROVE  OneAt' /\ HeldOpen'
    BY <1>3, <1>4
  <2> QED BY <1>0 DEF OneAt, HeldOpen
<1> QED
  BY <1>5, <1>6, <1>7, <1>8, <1>9, <1>11, <1>12, <1>13, <1>14, <1>15, <1>16, <1>17, <1>18
  DEF Next, Drain, Event, Callback, Shutdown, Dies

(* ... and nothing is claimed of threads.                                  *)
LEMMA OneThreadStep ==
  ASSUME IInv, Next PROVE OneThread'
<1>1. CASE Flavour = "loop"
  BY <1>1, LoopStep DEF OneThread
<1>2. CASE Flavour # "loop"
  BY <1>2 DEF OneThread
<1> QED BY <1>1, <1>2

-----------------------------------------------------------------------------
(* What the count is said to be.                                           *)
InLive(s) == maker[s] \notin {"new", "cached", "refused"} /\ state[s] # "closed"
Tally == Cardinality(LiveSubs) + Cardinality(uncounted) + Cardinality(RefusedSubs) - Len(reopened)

(* All that is counted is finite.                                          *)
LEMMA CountedFinite ==
  ASSUME TypeOK
  PROVE  /\ IsFiniteSet(LiveSubs) /\ IsFiniteSet(RefusedSubs) /\ IsFiniteSet(uncounted)
         /\ Cardinality(LiveSubs) \in Nat /\ Cardinality(RefusedSubs) \in Nat /\ Cardinality(uncounted) \in Nat
         /\ Len(reopened) \in Nat /\ count \in Int
<1>1. IsFiniteSet(LiveSubs) /\ IsFiniteSet(RefusedSubs)
  BY DispatcherAssumption, FS_Subset DEF LiveSubs, RefusedSubs
<1>2. IsFiniteSet(Closers)
  <2>1. IsFiniteSet({"owner"} \cup {"drain"} \cup {"shutdown"})
    BY FS_Singleton, FS_AddElement
  <2>2. Closers = {"owner"} \cup {"drain"} \cup {"shutdown"}
    BY DEF Closers
  <2> QED BY <2>1, <2>2
<1>3. IsFiniteSet(uncounted)
  <2>1. IsFiniteSet(Subs \X Closers)
    BY <1>2, DispatcherAssumption, FS_Product
  <2>2. uncounted \in SUBSET (Subs \X Closers)
    BY DEF TypeOK
  <2> HIDE DEF TypeOK
  <2> QED BY <2>1, <2>2, FS_Subset
<1>4. Len(reopened) \in Nat /\ count \in Int
  BY DEF TypeOK
<1> QED BY <1>1, <1>3, <1>4, FS_CardinalityType

(* The steps of the count, for every change of what is counted.            *)
SameTally == LiveSubs' = LiveSubs /\ RefusedSubs' = RefusedSubs /\ uncounted' = uncounted /\ Len(reopened') = Len(reopened)
LiveLess(x) == x \in LiveSubs /\ LiveSubs' = LiveSubs \ {x}
LiveMore(x) == x \notin LiveSubs /\ LiveSubs' = LiveSubs \cup {x}
CountSame == cached' = cached /\ count' = count
Refusing(x) ==
  /\ LiveLess(x) /\ x \notin RefusedSubs /\ RefusedSubs' = RefusedSubs \cup {x}
  /\ uncounted' = uncounted /\ Len(reopened') = Len(reopened) /\ CountSame
Marking(x, who) ==
  /\ LiveLess(x) /\ <<x, who>> \notin uncounted /\ uncounted' = uncounted \cup {<<x, who>>}
  /\ RefusedSubs' = RefusedSubs /\ Len(reopened') = Len(reopened) /\ CountSame
Reopening(x) ==
  /\ LiveMore(x) /\ uncounted' = uncounted /\ RefusedSubs' = RefusedSubs
  /\ Len(reopened') = Len(reopened) + 1 /\ CountSame
Upping(x) ==
  /\ LiveMore(x) /\ uncounted' = uncounted /\ RefusedSubs' = RefusedSubs
  /\ Len(reopened') = Len(reopened) /\ cached' = cached /\ count' = count + 1
Downing(x, who) ==
  /\ LiveSubs' = LiveSubs /\ <<x, who>> \in uncounted /\ uncounted' = uncounted \ {<<x, who>>}
  /\ RefusedSubs' = RefusedSubs /\ Len(reopened') = Len(reopened) /\ cached' = cached /\ count' = count - 1

(* Each keeps the count what it is said to be.                             *)
LEMMA TallyKept ==
  ASSUME TypeOK, cached => count = Tally,
         \/ SameTally /\ CountSame
         \/ \E x \in Subs : Refusing(x) \/ Reopening(x) \/ Upping(x)
         \/ \E x \in Subs, who \in Closers : Marking(x, who) \/ Downing(x, who)
  PROVE  cached' => count' = Tally'
<1>1. /\ IsFiniteSet(LiveSubs) /\ IsFiniteSet(RefusedSubs) /\ IsFiniteSet(uncounted)
      /\ Cardinality(LiveSubs) \in Nat /\ Cardinality(RefusedSubs) \in Nat /\ Cardinality(uncounted) \in Nat
      /\ Len(reopened) \in Nat /\ count \in Int
  BY CountedFinite
<1>2. Tally' = Cardinality(LiveSubs') + Cardinality(uncounted') + Cardinality(RefusedSubs') - Len(reopened')
  BY DEF Tally
<1>3. ASSUME NEW x, LiveLess(x) PROVE Cardinality(LiveSubs') = Cardinality(LiveSubs) - 1
  BY <1>1, <1>3, FS_RemoveElement DEF LiveLess
<1>4. ASSUME NEW x, LiveMore(x) PROVE Cardinality(LiveSubs') = Cardinality(LiveSubs) + 1
  BY <1>1, <1>4, FS_AddElement DEF LiveMore
<1>5. CASE SameTally /\ CountSame
  BY <1>2, <1>5 DEF SameTally, CountSame, Tally
<1>6. ASSUME NEW x \in Subs, Refusing(x) PROVE cached' => count' = Tally'
  <2>1. Cardinality(RefusedSubs') = Cardinality(RefusedSubs) + 1
    BY <1>1, <1>6, FS_AddElement DEF Refusing
  <2> QED BY <2>1, <1>1, <1>2, <1>3, <1>6 DEF Refusing, CountSame, Tally
<1>7. ASSUME NEW x \in Subs, Reopening(x) PROVE cached' => count' = Tally'
  BY <1>1, <1>2, <1>4, <1>7 DEF Reopening, CountSame, Tally
<1>8. ASSUME NEW x \in Subs, Upping(x) PROVE cached' => count' = Tally'
  BY <1>1, <1>2, <1>4, <1>8 DEF Upping, Tally
<1>9. ASSUME NEW x \in Subs, NEW who \in Closers, Marking(x, who) PROVE cached' => count' = Tally'
  <2>1. Cardinality(uncounted') = Cardinality(uncounted) + 1
    BY <1>1, <1>9, FS_AddElement DEF Marking
  <2> QED BY <2>1, <1>1, <1>2, <1>3, <1>9 DEF Marking, CountSame, Tally
<1>10. ASSUME NEW x \in Subs, NEW who \in Closers, Downing(x, who) PROVE cached' => count' = Tally'
  <2>1. Cardinality(uncounted') = Cardinality(uncounted) - 1
    BY <1>1, <1>10, FS_RemoveElement DEF Downing
  <2> QED BY <2>1, <1>1, <1>2, <1>10 DEF Downing, Tally
<1> QED BY <1>5, <1>6, <1>7, <1>8, <1>9, <1>10

(* What is counted depends on three variables.                             *)
LEMMA SameCounted ==
  ASSUME \A t \in Subs : InLive(t)' <=> InLive(t),
         \A t \in Subs : maker'[t] = "refused" <=> maker[t] = "refused",
         uncounted' = uncounted, reopened' = reopened
  PROVE  SameTally
BY DEF SameTally, LiveSubs, RefusedSubs, InLive

(* A flip of what is not closed is one close to count more.                *)
LEMMA FlipMarks ==
  ASSUME TypeOK, NEW x \in Subs, NEW who \in Closers, Flip(x, who), <<x, who>> \notin uncounted, Entered(x),
         UNCHANGED <<maker, reopened, cached, count>>
  PROVE  Marking(x, who) \/ (SameTally /\ CountSame)
<1>0. state \in [Subs -> {"opening", "open", "closed"}]
  BY DEF TypeOK
<1>1. state' = [state EXCEPT ![x] = "closed"] /\ \A t \in Subs : t # x => state'[t] = state[t]
  BY <1>0 DEF Flip
<1>2. RefusedSubs' = RefusedSubs /\ CountSame /\ Len(reopened') = Len(reopened)
  BY DEF RefusedSubs, CountSame
<1>3. CASE state[x] = "closed"
  <2>1. state' = state /\ uncounted' = uncounted
    BY <1>0, <1>1, <1>3 DEF Flip
  <2> QED BY <2>1, <1>2 DEF SameTally, LiveSubs
<1>4. CASE state[x] # "closed"
  <2>1. uncounted' = uncounted \cup {<<x, who>>}
    BY <1>4 DEF Flip
  <2>2. x \in LiveSubs
    BY <1>4 DEF LiveSubs, Entered
  <2>3. state'[x] = "closed"
    BY <1>0, <1>1
  <2>4. LiveSubs' = LiveSubs \ {x}
    BY <2>3, <1>1 DEF LiveSubs
  <2> QED BY <2>1, <2>2, <2>4, <1>2 DEF Marking, LiveLess
<1> QED BY <1>3, <1>4

(* Without a purge no step but the first constructor's makes an entry.     *)
LEMMA TallyStep ==
  ASSUME IInv, Next, Counting, "purge" \notin MayHappen
  PROVE  \/ \E s \in Subs : GetChannel(s)
         \/ SameTally /\ CountSame
         \/ \E x \in Subs : Refusing(x) \/ Reopening(x) \/ Upping(x)
         \/ \E x \in Subs, who \in Closers : Marking(x, who) \/ Downing(x, who)
<1> USE DEF ownerVars, subVars, hubVars, drainVars, histVars
<1>0. /\ maker \in [Subs -> {"new", "cached", "counted", "adding", "added", "started", "made", "refused"}]
      /\ state \in [Subs -> {"opening", "open", "closed"}] /\ cached \in BOOLEAN /\ count \in Int
      /\ Closings /\ Tokens /\ TypeOK /\ \A s \in Subs : maker[s] # "new" => cached
  BY DEF IInv, TypeOK, Owned, Counting
<1>1. \A k \in DOMAIN arrived : Entered(Sub(k)) /\ Sub(k) \in Subs
  BY ArrivedItem DEF IInv, Owned, Arrivals
<1>2. ASSUME NEW s \in Subs, CountUp(s) PROVE Upping(s)
  <2>1. /\ maker[s] = "cached" /\ maker' = [maker EXCEPT ![s] = "counted"] /\ cached' = cached
        /\ count' = (IF cached THEN count + 1 ELSE count) /\ state' = state /\ uncounted' = uncounted
        /\ reopened' = reopened
    BY <1>2 DEF CountUp, Counted
  <2>2. cached /\ state[s] = "opening"
    BY <2>1, <1>0 DEF Closings, Entered
  <2>3. /\ InLive(s)' /\ ~InLive(s) /\ \A t \in Subs : t # s => (InLive(t)' <=> InLive(t))
        /\ \A t \in Subs : maker'[t] = "refused" <=> maker[t] = "refused"
    BY <2>1, <2>2, <1>0 DEF InLive
  <2>4. LiveMore(s) /\ RefusedSubs' = RefusedSubs
    BY <2>3 DEF LiveMore, LiveSubs, RefusedSubs, InLive
  <2> QED BY <2>1, <2>2, <2>4 DEF Upping
<1>3. ASSUME NEW s \in Subs, HubRefuses(s) PROVE Refusing(s)
  <2>1. /\ maker[s] = "counted" /\ maker' = [maker EXCEPT ![s] = "refused"] /\ CountSame
        /\ state' = state /\ uncounted' = uncounted /\ reopened' = reopened
    BY <1>3 DEF HubRefuses, CountSame
  <2>2. state[s] = "opening"
    BY <2>1, <1>0 DEF Closings, Entered
  <2>3. /\ InLive(s) /\ ~InLive(s)' /\ \A t \in Subs : t # s => (InLive(t)' <=> InLive(t))
        /\ maker'[s] = "refused" /\ maker[s] # "refused"
        /\ \A t \in Subs : t # s => (maker'[t] = "refused" <=> maker[t] = "refused")
    BY <2>1, <2>2, <1>0 DEF InLive
  <2>4. LiveLess(s)
    BY <2>3 DEF LiveLess, LiveSubs, InLive
  <2>5. s \notin RefusedSubs /\ RefusedSubs' = RefusedSubs \cup {s}
    BY <2>3 DEF RefusedSubs
  <2> QED BY <2>1, <2>4, <2>5 DEF Refusing
<1>4. ASSUME NEW s \in Subs, HubSubscribe(s) \/ Register(s) \/ Started(s) \/ SetId(s) PROVE SameTally /\ CountSame
  <2>1. /\ UNCHANGED <<state, uncounted, reopened>> /\ CountSame
        /\ \A t \in Subs : InLive(t)' <=> InLive(t)
        /\ \A t \in Subs : maker'[t] = "refused" <=> maker[t] = "refused"
    BY <1>0, <1>4 DEF HubSubscribe, Register, Started, SetId, CountSame, InLive
  <2> QED BY <2>1, SameCounted
<1>5. ASSUME NEW s \in Subs, NEW who \in Closers, CountDown(s, who) PROVE Downing(s, who)
  <2>1. /\ <<s, who>> \in uncounted /\ UNCHANGED <<maker, state, reopened, cached>>
        /\ count' = (IF cached THEN count + (-1) ELSE count) /\ uncounted' = uncounted \ {<<s, who>>}
    BY <1>5 DEF CountDown, Counted
  <2>2. cached
    BY <2>1, <1>0 DEF Tokens, Entered
  <2>3. LiveSubs' = LiveSubs /\ RefusedSubs' = RefusedSubs
    BY <2>1 DEF LiveSubs, RefusedSubs
  <2> QED BY <2>1, <2>2, <2>3, <1>0 DEF Downing
<1>6. ASSUME NEW s \in Subs, CloseMark(s) PROVE Marking(s, "owner") \/ (SameTally /\ CountSame)
  <2>1. Flip(s, "owner") /\ UNCHANGED <<maker, reopened, cached, count>> /\ Entered(s) /\ closer[s] # "marked"
    BY <1>6 DEF CloseMark, HasId, Entered
  <2>2. <<s, "owner">> \notin uncounted /\ "owner" \in Closers
    BY <2>1, <1>0 DEF Tokens, Closers
  <2> QED BY <2>1, <2>2, <1>0, FlipMarks
<1>7. ASSUME EndMark \/ CallbackRaises
      PROVE  (\E x \in Subs, who \in Closers : Marking(x, who)) \/ (SameTally /\ CountSame)
  <2>1. pc \in Busy /\ pc # "ending" /\ current \in DOMAIN arrived
    BY <1>7 DEF EndMark, CallbackRaises, Busy, IInv, Frames, PlacesB
  <2>2. Sub(current) \in Subs /\ Entered(Sub(current))
    BY <2>1, <1>1
  <2>3. Flip(Sub(current), "drain") /\ UNCHANGED <<maker, reopened, cached, count>>
    BY <1>7 DEF EndMark, CallbackRaises
  <2>4. <<Sub(current), "drain">> \notin uncounted /\ "drain" \in Closers
    BY <2>1, <2>2, <1>0 DEF Tokens, Closers
  <2> QED BY <2>2, <2>3, <2>4, <1>0, FlipMarks
<1>8. ASSUME ShutdownMark PROVE (\E x \in Subs, who \in Closers : Marking(x, who)) \/ (SameTally /\ CountSame)
  <2>1. PICK s \in stopping.left : Flip(s, "shutdown")
    BY <1>8 DEF ShutdownMark
  <2>2. s \in Subs /\ Entered(s)
    BY StopRecord DEF IInv, Owned, Users, Added, Entered
  <2>3. UNCHANGED <<maker, reopened, cached, count>> /\ <<stopping.sub, "shutdown">> \notin uncounted
    BY <1>8 DEF ShutdownMark, MarkedCounted
  <2>4. <<s, "shutdown">> \notin uncounted /\ "shutdown" \in Closers
    BY <2>2, <2>3, <1>0 DEF Tokens, Closers
  <2> QED BY <2>1, <2>2, <2>3, <2>4, <1>0, FlipMarks
<1>9. ASSUME SetOpen PROVE (\E x \in Subs : Reopening(x)) \/ (SameTally /\ CountSame)
  <2>1. pc \in Busy /\ current \in DOMAIN arrived
    BY <1>9 DEF SetOpen, Busy, IInv, Frames, PlacesB
  <2>2. PICK x \in Subs : x = Sub(current) /\ Entered(x)
    BY <2>1, <1>1
  <2>3. /\ state' = [state EXCEPT ![x] = "open"] /\ UNCHANGED <<maker, uncounted>> /\ CountSame
        /\ reopened' = IF state[x] = "closed" THEN Append(reopened, x) ELSE reopened
    BY <1>9, <2>2 DEF SetOpen, CountSame
  <2>4. /\ \A t \in Subs : t # x => (InLive(t)' <=> InLive(t))
        /\ InLive(x)' /\ (InLive(x) <=> state[x] # "closed")
    BY <2>2, <2>3, <1>0 DEF InLive, Entered
  <2>5. RefusedSubs' = RefusedSubs
    BY <2>3 DEF RefusedSubs
  <2>6. CASE state[x] = "closed"
    <3>1. LiveMore(x)
      BY <2>4, <2>6 DEF LiveMore, LiveSubs, InLive
    <3>2. Len(reopened') = Len(reopened) + 1
      <4>1. reopened \in Seq(Subs) /\ reopened' = Append(reopened, x)
        BY <2>3, <2>6, <1>0 DEF TypeOK
      <4> QED BY <4>1, AppendProperties
    <3> QED BY <3>1, <3>2, <2>3, <2>5 DEF Reopening
  <2>7. CASE state[x] # "closed"
    BY <2>3, <2>4, <2>5, <2>7 DEF SameTally, LiveSubs, InLive
  <2> QED BY <2>6, <2>7
<1>10. ASSUME NoteConnected PROVE SameTally /\ CountSame
  <2>1. pc \in Busy /\ current \in DOMAIN arrived
    BY <1>10 DEF NoteConnected, Busy, IInv, Frames, PlacesB
  <2>2. cached = TRUE
    BY <2>1, <1>0, <1>1 DEF Entered
  <2>3. cached' = TRUE /\ count' = (IF cached THEN count ELSE 0) /\ UNCHANGED <<maker, state, uncounted, reopened>>
    BY <1>10 DEF NoteConnected
  <2> QED BY <2>2, <2>3 DEF SameTally, CountSame, LiveSubs, RefusedSubs
<1>11. ASSUME UNCHANGED <<maker, state, uncounted, reopened, cached, count>> PROVE SameTally /\ CountSame
  BY <1>11 DEF SameTally, CountSame, LiveSubs, RefusedSubs
<1>12. \/ (\E s \in Subs : CloseMark(s) \/ Construct(s)) \/ EndMark \/ CallbackRaises \/ ShutdownMark \/ SetOpen
       \/ NoteConnected \/ (\E s \in Subs, who \in Closers : CountDown(s, who))
       \/ UNCHANGED <<maker, state, uncounted, reopened, cached, count>>
  <2>1. ASSUME NEW s \in Subs, CloseRemove(s) PROVE UNCHANGED <<maker, state, uncounted, reopened, cached, count>>
    BY <2>1 DEF CloseRemove
  <2>2. ASSUME NEW s \in Subs, NEW kind \in HubKinds, Arrive(s, kind)
        PROVE  UNCHANGED <<maker, state, uncounted, reopened, cached, count>>
    BY <2>2 DEF Arrive
  <2>3. ~Purge
    BY DEF Purge
  <2>4. Recv \/ Plan \/ EventClosed \/ EventDelivered \/ EventChecked
          => UNCHANGED <<maker, state, uncounted, reopened, cached, count>>
    BY DEF Recv, Plan, EventClosed, EventDelivered, EventChecked
  <2>5. HookReturns \/ HookRaises \/ EndRemove \/ EndRaises \/ Deliver \/ CallbackReturns \/ CallbackEscapes
          => UNCHANGED <<maker, state, uncounted, reopened, cached, count>>
    BY DEF HookReturns, HookRaises, EndRemove, EndRaises, Deliver, CallbackReturns, CallbackEscapes, Die, RemoveSub
  <2>6. ShutdownClear \/ ShutdownHub => UNCHANGED <<maker, state, uncounted, reopened, cached, count>>
    BY DEF ShutdownClear, ShutdownHub
  <2> QED BY <2>1, <2>2, <2>3, <2>4, <2>5, <2>6 DEF Next, Drain, Event, Callback, Shutdown
<1> QED
  BY <1>2, <1>3, <1>4, <1>5, <1>6, <1>7, <1>8, <1>9, <1>10, <1>11, <1>12 DEF Construct, Closers

(* Before there is an entry there is nothing to count.                     *)
LEMMA NothingCounted ==
  ASSUME IInv, \A s \in Subs : maker[s] = "new"
  PROVE  Tally = 0
<1>1. LiveSubs = {} /\ RefusedSubs = {}
  BY DEF LiveSubs, RefusedSubs
<1>2. uncounted = {}
  <2>1. \A s \in Subs, who \in Closers : <<s, who>> \notin uncounted
    BY DEF IInv, Owned, Tokens, Entered
  <2>2. uncounted \subseteq Subs \X Closers
    BY DEF IInv, TypeOK
  <2> QED BY <2>1, <2>2
<1>3. Len(reopened) = 0
  <2>1. reopened \in Seq(Subs) /\ Len(reopened) \in Nat /\ DOMAIN reopened = 1..Len(reopened)
    BY DEF IInv, TypeOK
  <2>2. ASSUME Len(reopened) # 0 PROVE FALSE
    <3>1. 1 \in DOMAIN reopened /\ reopened[1] \in Subs
      BY <2>1, <2>2
    <3>2. Reopened(reopened[1])
      BY <3>1 DEF Reopened, Elems
    <3> QED BY <3>1, <3>2 DEF IInv, Owned, Closings, Entered
  <2> QED BY <2>2
<1> QED BY <1>1, <1>2, <1>3, FS_EmptySet DEF Tally

(* Only GetChannel makes a constructor start.                              *)
LEMMA MakerSteps ==
  ASSUME IInv, Next
  PROVE  (\A t \in Subs : maker'[t] # "new" => maker[t] # "new") \/ \E s \in Subs : GetChannel(s)
<1> USE DEF ownerVars, subVars, hubVars, drainVars, histVars
<1>0. maker \in [Subs -> {"new", "cached", "counted", "adding", "added", "started", "made", "refused"}]
  BY DEF IInv, TypeOK
<1>1. ASSUME NEW s \in Subs, CountUp(s) \/ HubSubscribe(s) \/ HubRefuses(s)
      PROVE  \A t \in Subs : maker'[t] # "new" => maker[t] # "new"
  BY <1>0, <1>1 DEF CountUp, HubSubscribe, HubRefuses
<1>2. ASSUME NEW s \in Subs, Register(s) \/ Started(s) \/ SetId(s)
      PROVE  \A t \in Subs : maker'[t] # "new" => maker[t] # "new"
  BY <1>0, <1>2 DEF Register, Started, SetId
<1>3. ASSUME NEW s \in Subs, CloseMark(s) \/ CloseRemove(s) PROVE maker' = maker
  BY <1>3 DEF CloseMark, CloseRemove
<1>4. SetOpen \/ EndMark \/ EndRemove \/ CallbackRaises \/ Shutdown \/ Dies \/ Bystander => maker' = maker
  BY DiesOnly
    DEF SetOpen, EndMark, EndRemove, CallbackRaises, Shutdown, ShutdownClear, ShutdownMark, ShutdownHub, Bystander
<1> QED BY <1>1, <1>2, <1>3, <1>4, MoversOnly DEF Mover, Construct

(* The count is right, step by step.                                       *)
LEMMA CountingStep ==
  ASSUME IInv, Next PROVE Counting'
<1> USE DEF ownerVars, subVars, hubVars, drainVars, histVars
<1>0. /\ CountAccounted <=> (cached => count = Tally)
      /\ CountAccounted' <=> (cached' => count' = Tally')
  BY DEF CountAccounted, Tally
<1> SUFFICES ASSUME "purge" \notin MayHappen
             PROVE  (\A s \in Subs : maker'[s] # "new" => cached') /\ (cached' => count' = Tally')
  BY <1>0 DEF Counting
<1>1. TypeOK /\ Counting /\ (\A s \in Subs : maker[s] # "new" => cached) /\ (cached => count = Tally)
  BY <1>0 DEF IInv, Counting
<1>2. maker \in [Subs -> {"new", "cached", "counted", "adding", "added", "started", "made", "refused"}]
  BY <1>1 DEF TypeOK
<1>3. ASSUME NEW s \in Subs, GetChannel(s) PROVE cached' /\ count' = Tally'
  <2>1. /\ maker[s] = "new" /\ maker' = [maker EXCEPT ![s] = "cached"] /\ cached' = TRUE
        /\ count' = (IF cached THEN count ELSE 0) /\ UNCHANGED <<state, uncounted, reopened>>
    BY <1>3 DEF GetChannel
  <2>2. /\ \A t \in Subs : InLive(t)' <=> InLive(t)
        /\ \A t \in Subs : maker'[t] = "refused" <=> maker[t] = "refused"
    BY <2>1, <1>2 DEF InLive
  <2>3. Tally' = Tally
    BY <2>1, <2>2, SameCounted DEF SameTally, Tally
  <2>4. ~cached => Tally = 0
    BY <1>1, NothingCounted
  <2> QED BY <2>1, <2>3, <2>4, <1>1
<1>4. ASSUME ~\E s \in Subs : GetChannel(s) PROVE cached' => count' = Tally'
  BY <1>1, <1>4, TallyStep, TallyKept
<1>5. ASSUME ~\E s \in Subs : GetChannel(s) PROVE \A s \in Subs : maker'[s] # "new" => cached'
  <2>1. \A s \in Subs : maker'[s] # "new" => maker[s] # "new"
    BY <1>5, MakerSteps
  <2>2. cached' = cached
    BY <1>1, <1>5, TallyStep DEF CountSame, Refusing, Reopening, Upping, Marking, Downing
  <2> QED BY <2>1, <2>2, <1>1
<1> QED BY <1>3, <1>4, <1>5

-----------------------------------------------------------------------------
(* What a subscription is told of the first P items, with q applied, td    *)
(* planned and d dropped.                                                  *)
ItemsOf(s, P) == {k \in 1..P : Sub(k) = s}
KeptOf(s, q, td) == Elems(q) \cup {k \in Elems(td) : Sub(k) = s}
LostOf(s, q, td, P) == ItemsOf(s, P) \ KeptOf(s, q, td)
OvertakenBy(s, P, k, n) ==
  k < n /\ s \notin AllUpdates /\ \A x \in ItemsOf(s, P) : k <= x /\ x <= n => Kind(x) = "value"

Tells(s, q, td, d, P) ==
  /\ \A i \in DOMAIN q : q[i] \in 1..P
  /\ \A i, j \in DOMAIN q : i < j => q[i] < q[j]
  /\ Rising(td, s)
  /\ \A i \in DOMAIN q, j \in DOMAIN td : Sub(td[j]) = s => q[i] < td[j]
  /\ d = Cardinality(LostOf(s, q, td, P))
  /\ \A k \in LostOf(s, q, td, P) : \E n \in KeptOf(s, q, td) : OvertakenBy(s, P, k, n)

(* The invariant says so of the state, ...                                 *)
LEMMA ToldIsTells ==
  ASSUME NEW s
  PROVE  Told(s) <=> (Whole(s) => Tells(s, seen[s], todo, dropped[s], Past))
  BY DEF Told, Tells, PastItems, Lost, Kept, Overtaken, ItemsOf, KeptOf, LostOf, OvertakenBy

(* ... and of the next one.                                                *)
LEMMA ToldIsTellsNext ==
  ASSUME NEW s, NEW q, NEW td, NEW d, NEW P, q = seen'[s], td = todo', d = dropped'[s], P = Past',
         Whole(s)' => Tells(s, q, td, d, P)'
  PROVE  Told(s)'
<1>1. Told(s)' <=> (Whole(s)' => Tells(s, seen[s], todo, dropped[s], Past)')
  BY
    DEF Told, Tells, PastItems, Lost, Kept, Overtaken, ItemsOf, KeptOf, LostOf, OvertakenBy, Rising, Elems,
    Sub, Kind
<1>2. Tells(s, q, td, d, P)' <=> Tells(s, seen[s], todo, dropped[s], Past)'
  BY DEF Tells, ItemsOf, KeptOf, LostOf, OvertakenBy, Rising, Elems, Sub, Kind
<1> QED BY <1>1, <1>2

(* It is a matter of the first P items only.                               *)
LEMMA TellsSame ==
  ASSUME NEW s, NEW q, NEW td, NEW d, NEW P \in Nat, Tells(s, q, td, d, P),
         \A i \in DOMAIN td : td[i] \in 1..P,
         \A k \in 1..P : arrived'[k] = arrived[k]
  PROVE  Tells(s, q, td, d, P)'
<1>1. \A k \in 1..P : (Sub(k)' = Sub(k)) /\ (Kind(k)' = Kind(k))
  BY DEF Sub, Kind
<1>2. ItemsOf(s, P)' = ItemsOf(s, P)
  BY <1>1 DEF ItemsOf, Sub
<1>3. \A k \in Elems(td) : k \in 1..P
  BY DEF Elems
<1>4. Elems(td)' = Elems(td) /\ Elems(q)' = Elems(q)
  BY DEF Elems
<1>5. KeptOf(s, q, td)' = KeptOf(s, q, td)
  BY <1>1, <1>3, <1>4 DEF KeptOf, Sub
<1>6. LostOf(s, q, td, P)' = LostOf(s, q, td, P)
  BY <1>2, <1>5 DEF LostOf
<1>7. Rising(td, s)'
  BY <1>1 DEF Tells, Rising, Sub
<1>8. \A i \in DOMAIN q, j \in DOMAIN td : Sub(td[j])' = s => q[i] < td[j]
  BY <1>1 DEF Tells
<1>9. ASSUME NEW k \in LostOf(s, q, td, P) PROVE \E n \in KeptOf(s, q, td)' : OvertakenBy(s, P, k, n)'
  <2>1. PICK n \in KeptOf(s, q, td) : OvertakenBy(s, P, k, n)
    BY DEF Tells
  <2>2. \A x \in ItemsOf(s, P) : x \in 1..P
    BY DEF ItemsOf
  <2>3. OvertakenBy(s, P, k, n)'
    BY <2>1, <2>2, <1>1, <1>2 DEF OvertakenBy, Kind
  <2> QED BY <2>3, <1>5
<1>10. /\ \A i \in DOMAIN q : q[i] \in 1..P
       /\ \A i, j \in DOMAIN q : i < j => q[i] < q[j]
       /\ d = Cardinality(LostOf(s, q, td, P)')
  BY <1>6 DEF Tells
<1> QED BY <1>6, <1>7, <1>8, <1>9, <1>10 DEF Tells, Sub

(* The first planned and the rest.                                         *)
LEMMA TailElems ==
  ASSUME NEW td \in Seq(Nat), td # <<>>
  PROVE  /\ Head(td) \in Nat /\ Head(td) = td[1] /\ 1 \in DOMAIN td
         /\ \A i \in DOMAIN Tail(td) : i \in Nat /\ i + 1 \in DOMAIN td /\ 1 < i + 1 /\ Tail(td)[i] = td[i + 1]
         /\ Elems(td) = {Head(td)} \cup Elems(Tail(td))
<1>1. /\ Len(td) \in Nat /\ DOMAIN td = 1..Len(td) /\ Len(Tail(td)) = Len(td) - 1
      /\ \A i \in DOMAIN Tail(td) : i \in Nat /\ i + 1 \in DOMAIN td /\ Tail(td)[i] = td[i + 1]
  BY TailAt
<1>2. Len(td) # 0 /\ Head(td) = td[1] /\ Tail(td) \in Seq(Nat)
  BY EmptySeq, HeadTailProperties
<1>3. 1 \in DOMAIN td /\ Head(td) \in Nat /\ DOMAIN Tail(td) = 1..Len(Tail(td))
  BY <1>1, <1>2
<1>4. \A i \in DOMAIN Tail(td) : 1 < i + 1
  BY <1>1, <1>3
<1>5. ASSUME NEW k \in Elems(td) PROVE k = Head(td) \/ k \in Elems(Tail(td))
  <2>1. PICK i \in DOMAIN td : k = td[i]
    BY DEF Elems
  <2>2. CASE i = 1
    BY <2>1, <2>2, <1>2
  <2>3. CASE i # 1
    <3>1. i - 1 \in DOMAIN Tail(td) /\ (i - 1) + 1 = i
      BY <2>3, <1>1, <1>3
    <3>2. Tail(td)[i - 1] = td[i]
      BY <3>1, <1>1
    <3> QED BY <2>1, <3>1, <3>2 DEF Elems
  <2> QED BY <2>2, <2>3
<1>6. Head(td) \in Elems(td) /\ Elems(Tail(td)) \subseteq Elems(td)
  BY <1>1, <1>2, <1>3 DEF Elems
<1>7. Elems(td) = {Head(td)} \cup Elems(Tail(td))
  BY <1>5, <1>6
<1> QED BY <1>1, <1>2, <1>3, <1>4, <1>7

(* The item of another one is taken.                                       *)
LEMMA TellsPassed ==
  ASSUME NEW s, NEW q, NEW td \in Seq(Nat), NEW d, NEW P, Tells(s, q, td, d, P),
         td # <<>>, Sub(Head(td)) # s
  PROVE  Tells(s, q, Tail(td), d, P)
<1>1. /\ \A i \in DOMAIN Tail(td) : i \in Nat /\ i + 1 \in DOMAIN td /\ Tail(td)[i] = td[i + 1]
      /\ Elems(td) = {Head(td)} \cup Elems(Tail(td))
  BY TailElems
<1>2. KeptOf(s, q, Tail(td)) = KeptOf(s, q, td)
  BY <1>1 DEF KeptOf
<1>3. LostOf(s, q, Tail(td), P) = LostOf(s, q, td, P)
  BY <1>2 DEF LostOf
<1>4. Rising(Tail(td), s)
  BY <1>1 DEF Tells, Rising
<1>5. \A i \in DOMAIN q, j \in DOMAIN Tail(td) : Sub(Tail(td)[j]) = s => q[i] < Tail(td)[j]
  BY <1>1 DEF Tells
<1> QED BY <1>2, <1>3, <1>4, <1>5 DEF Tells

(* Its own item is applied.                                                *)
LEMMA TellsApplied ==
  ASSUME NEW s, NEW q \in Seq(Nat), NEW td \in Seq(Nat), NEW d, NEW P, Tells(s, q, td, d, P),
         td # <<>>, Sub(Head(td)) = s, Head(td) \in 1..P
  PROVE  Tells(s, Append(q, Head(td)), Tail(td), d, P)
<1> DEFINE h == Head(td)
<1> DEFINE r == Append(q, h)
<1>1. /\ \A i \in DOMAIN Tail(td) : i \in Nat /\ i + 1 \in DOMAIN td /\ 1 < i + 1 /\ Tail(td)[i] = td[i + 1]
      /\ Elems(td) = {h} \cup Elems(Tail(td)) /\ h = td[1] /\ 1 \in DOMAIN td /\ h \in Nat
  BY TailElems
<1>2. r = Append(q, h) /\ Sub(h) = s /\ h \in 1..P
  OBVIOUS
<1> HIDE DEF h, r
<1>3. /\ r[Len(q) + 1] = h
      /\ \A i \in DOMAIN q : i \in DOMAIN r /\ r[i] = q[i]
      /\ \A i \in DOMAIN r : i = Len(q) + 1 \/ i \in DOMAIN q
      /\ Len(q) + 1 \in DOMAIN r /\ Len(q) \in Nat /\ DOMAIN q = 1..Len(q)
  <2>1. /\ DOMAIN r = 1..(Len(q) + 1) /\ r[Len(q) + 1] = h
        /\ \A i \in DOMAIN q : i \in DOMAIN r /\ r[i] = q[i]
        /\ \A i \in DOMAIN r : i = Len(q) + 1 \/ i \in DOMAIN q
    BY <1>1, <1>2, AppendAt
  <2> QED BY <2>1
<1>4. Elems(r) = Elems(q) \cup {h}
  BY <1>3 DEF Elems
<1>5. KeptOf(s, r, Tail(td)) = KeptOf(s, q, td)
  BY <1>1, <1>2, <1>4 DEF KeptOf
<1>6. LostOf(s, r, Tail(td), P) = LostOf(s, q, td, P)
  BY <1>5 DEF LostOf
<1>7. \A i \in DOMAIN q : q[i] < h
  BY <1>1, <1>2 DEF Tells
<1>8. \A j \in DOMAIN Tail(td) : Sub(Tail(td)[j]) = s => h < Tail(td)[j]
  BY <1>1, <1>2 DEF Tells, Rising
<1>9. Rising(Tail(td), s)
  <2> SUFFICES ASSUME NEW i \in DOMAIN Tail(td), NEW j \in DOMAIN Tail(td),
                      Sub(Tail(td)[i]) = s, Sub(Tail(td)[j]) = s, i < j
               PROVE  Tail(td)[i] < Tail(td)[j]
    BY DEF Rising
  <2>1. i + 1 < j + 1 /\ i + 1 \in DOMAIN td /\ j + 1 \in DOMAIN td
    BY <1>1
  <2> QED BY <2>1, <1>1 DEF Tells, Rising
<1>10. \A i \in DOMAIN r : r[i] \in 1..P
  BY <1>2, <1>3 DEF Tells
<1>11. ASSUME NEW i \in DOMAIN r, NEW j \in DOMAIN r, i < j PROVE r[i] < r[j]
  <2>1. i \in DOMAIN q
    BY <1>3, <1>11
  <2>2. CASE j \in DOMAIN q
    BY <2>1, <2>2, <1>3, <1>11 DEF Tells
  <2>3. CASE j = Len(q) + 1
    BY <2>1, <2>3, <1>3, <1>7
  <2> QED BY <2>2, <2>3, <1>3
<1>12. ASSUME NEW i \in DOMAIN r, NEW j \in DOMAIN Tail(td), Sub(Tail(td)[j]) = s PROVE r[i] < Tail(td)[j]
  <2>1. CASE i \in DOMAIN q
    BY <2>1, <1>1, <1>3, <1>12 DEF Tells
  <2>2. CASE i = Len(q) + 1
    BY <2>2, <1>3, <1>8, <1>12
  <2> QED BY <2>1, <2>2, <1>3
<1>13. Tells(s, r, Tail(td), d, P)
  BY <1>5, <1>6, <1>9, <1>10, <1>11, <1>12 DEF Tells
<1> QED BY <1>13 DEF h, r

-----------------------------------------------------------------------------
(* plan() of a batch that is in line, after the items up to P.             *)
LEMMA TellsPlanned ==
  ASSUME NEW s, NEW q \in Seq(Nat), NEW d \in Nat, NEW P \in Nat, NEW n \in Nat, NEW acc,
         Tells(s, q, <<>>, d, P), PlanTold(acc, s, P, n), s \in subs,
         acc.out \in Seq(Nat), acc.drops[s] \in Nat,
         \A i \in DOMAIN acc.out : acc.out[i] \in (P + 1)..(P + n)
  PROVE  Tells(s, q, acc.out, d + acc.drops[s], P + n)
<1> DEFINE r == acc.out
<1> DEFINE I == ItemsOf(s, P)
<1> DEFINE O == Of(s, P, n)
<1> DEFINE E == Elems(q)
<1> DEFINE F == {k \in Elems(r) : Sub(k) = s}
<1>1. \A i \in DOMAIN r : r[i] \in Nat /\ r[i] > P
  <2>1. \A x \in (P + 1)..(P + n) : x \in Nat /\ x > P
    OBVIOUS
  <2> QED BY <2>1
<1>2. \A k \in Elems(r) : k \in Nat /\ k > P
  BY <1>1 DEF Elems
<1>3. \A i \in DOMAIN q : q[i] \in 1..P
  BY DEF Tells
<1>4. \A k \in E : k \in Nat /\ k <= P /\ k \in 1..P
  BY <1>3 DEF Elems
<1>5. (1..(P + n)) = (1..P) \cup ((P + 1)..(P + n))
  OBVIOUS
<1>6. ItemsOf(s, P + n) = I \cup O
  BY <1>5 DEF ItemsOf, Of
<1>7. (\A k \in I : k \in Nat /\ k <= P) /\ (\A k \in O : k \in Nat /\ k > P)
  <2>1. \A x \in (P + 1)..(P + n) : x \in Nat /\ x > P
    OBVIOUS
  <2>2. \A x \in 1..P : x \in Nat /\ x <= P
    OBVIOUS
  <2> QED BY <2>1, <2>2 DEF ItemsOf, Of
<1>8. Elems(<<>>) = {}
  BY DEF Elems
<1>9. KeptOf(s, q, <<>>) = E /\ LostOf(s, q, <<>>, P) = I \ E
  BY <1>8 DEF KeptOf, LostOf
<1>10. KeptOf(s, q, r) = E \cup F
  BY DEF KeptOf
<1>11. Gone(r, s, P, n) = O \ Elems(r) /\ \A k \in O : Sub(k) = s
  BY DEF Gone, Of
<1>12. IsFiniteSet(I) /\ IsFiniteSet(O)
  <2>1. IsFiniteSet(O)
    BY OfNext
  <2>2. 1 \in Int /\ P \in Int
    OBVIOUS
  <2>3. IsFiniteSet(1..P) /\ I \subseteq 1..P
    BY <2>2, FS_Interval DEF ItemsOf
  <2> QED BY <2>1, <2>3, FS_Subset
<1>13. /\ d = Cardinality(I \ E) /\ acc.drops[s] = Cardinality(O \ Elems(r))
       /\ \A k \in I \ E : \E m \in E : OvertakenBy(s, P, k, m)
       /\ \A k \in O \ Elems(r) : Covered(r, s, P, n, k)
       /\ \A i, j \in DOMAIN q : i < j => q[i] < q[j]
       /\ Rising(r, s)
  BY <1>9, <1>11 DEF Tells, PlanTold
<1>14. I = ItemsOf(s, P) /\ O = Of(s, P, n) /\ E = Elems(q) /\ F = {k \in Elems(r) : Sub(k) = s} /\ r = acc.out
  OBVIOUS
<1> HIDE DEF I, O, E, F, r
<1>15. LostOf(s, q, r, P + n) = (I \ E) \cup (O \ Elems(r))
  <2>1. LostOf(s, q, r, P + n) = (I \cup O) \ (E \cup F)
    BY <1>6, <1>10 DEF LostOf
  <2>2. \A k \in I : k \notin F
    BY <1>2, <1>7, <1>14
  <2>3. \A k \in O : k \notin E /\ (k \in F <=> k \in Elems(r))
    BY <1>4, <1>7, <1>11, <1>14
  <2> QED BY <2>1, <2>2, <2>3
<1>16. d + acc.drops[s] = Cardinality(LostOf(s, q, r, P + n))
  <2>1. (I \ E) \cap (O \ Elems(r)) = {}
    BY <1>7
  <2>2. IsFiniteSet(I \ E) /\ IsFiniteSet(O \ Elems(r))
    BY <1>12, FS_Subset
  <2>3. Cardinality((I \ E) \cup (O \ Elems(r))) = Cardinality(I \ E) + Cardinality(O \ Elems(r)) - Cardinality({})
    BY <2>1, <2>2, FS_Union
  <2>4. Cardinality({}) = 0
    BY FS_EmptySet
  <2>5. PICK x \in Nat, y \in Nat : x = d /\ y = acc.drops[s]
    OBVIOUS
  <2>6. Cardinality((I \ E) \cup (O \ Elems(r))) = x + y - 0
    BY <2>3, <2>4, <2>5, <1>13
  <2>7. x + y - 0 = x + y
    OBVIOUS
  <2> QED BY <2>5, <2>6, <2>7, <1>15
<1>17. ASSUME NEW k \in LostOf(s, q, r, P + n) PROVE \E m \in KeptOf(s, q, r) : OvertakenBy(s, P + n, k, m)
  <2>1. CASE k \in I \ E
    <3>1. PICK m \in E : OvertakenBy(s, P, k, m)
      BY <2>1, <1>13
    <3>2. m \in Nat /\ m <= P
      BY <1>4
    <3>3. \A x \in I \cup O : x <= m => x \in I
      BY <3>2, <1>7
    <3>4. OvertakenBy(s, P + n, k, m)
      BY <3>1, <3>3, <1>6, <1>14 DEF OvertakenBy
    <3> QED BY <3>4, <1>10
  <2>2. CASE k \in O \ Elems(r)
    <3>1. PICK y \in Elems(r) : /\ Sub(y) = s /\ k < y /\ s \notin AllUpdates
                                /\ \A z \in O : k <= z /\ z <= y => Kind(z) = "value"
      BY <2>2, <1>13, <1>14 DEF Covered
    <3>2. k \in Nat /\ k > P
      BY <2>2, <1>7
    <3>3. \A x \in I \cup O : k <= x => x \in O
      BY <3>2, <1>7
    <3>4. OvertakenBy(s, P + n, k, y)
      BY <3>1, <3>3, <1>6 DEF OvertakenBy
    <3>5. y \in F
      BY <3>1, <1>14
    <3> QED BY <3>4, <3>5, <1>10
  <2> QED BY <2>1, <2>2, <1>15
<1>18. \A i \in DOMAIN q : q[i] \in 1..(P + n)
  BY <1>3, <1>5
<1>19. ASSUME NEW i \in DOMAIN q, NEW j \in DOMAIN r PROVE q[i] < r[j]
  <2>1. q[i] \in Nat /\ q[i] <= P /\ r[j] \in Nat /\ r[j] > P
    BY <1>1, <1>3
  <2> QED BY <2>1
<1>20. Tells(s, q, r, d + acc.drops[s], P + n)
  BY <1>13, <1>16, <1>17, <1>18, <1>19 DEF Tells
<1> QED BY <1>20, <1>14

(* A subscription plan() does not find and nobody has closed has not been  *)
(* registered: it has no items.                                            *)
LEMMA TellsUnknown ==
  ASSUME NEW s, NEW q, NEW d, NEW P, NEW Q \in Nat, NEW td, P \in Nat, P <= Q, Tells(s, q, <<>>, d, P),
         \A k \in 1..Q : Sub(k) # s, \A k \in Elems(td) : Sub(k) # s
  PROVE  Tells(s, q, td, d, Q)
<1>1. ItemsOf(s, P) = {} /\ ItemsOf(s, Q) = {} /\ 1..P \subseteq 1..Q
  BY DEF ItemsOf
<1>2. LostOf(s, q, <<>>, P) = {} /\ LostOf(s, q, td, Q) = {}
  BY <1>1 DEF LostOf
<1>3. \A j \in DOMAIN td : Sub(td[j]) # s
  BY DEF Elems
<1>4. Rising(td, s)
  BY <1>3 DEF Rising
<1>5. /\ \A i \in DOMAIN q : q[i] \in 1..Q
      /\ \A i, j \in DOMAIN q : i < j => q[i] < q[j]
      /\ d = Cardinality({})
  BY <1>1, <1>2 DEF Tells
<1> QED BY <1>2, <1>3, <1>4, <1>5 DEF Tells

-----------------------------------------------------------------------------
(* What a step is to one subscription.                                     *)
Still(s) == seen'[s] = seen[s] /\ todo' = todo /\ dropped' = dropped
Passes(s) ==
  /\ pc = "dispatch" /\ Sub(Head(todo)) # s
  /\ seen'[s] = seen[s] /\ todo' = Tail(todo) /\ dropped' = dropped
Applies(s) ==
  /\ pc = "dispatch" /\ Sub(Head(todo)) = s
  /\ seen'[s] = Append(seen[s], Head(todo)) /\ todo' = Tail(todo) /\ dropped' = dropped

(* A shutdown is not taken back, ...                                       *)
LEMMA StopsOnce ==
  ASSUME IInv, Next, stopping'.at = "no" PROVE stopping.at = "no"
<1> USE DEF ownerVars, subVars, hubVars, drainVars, histVars
<1>0. stopping = [at |-> stopping.at, left |-> stopping.left, sub |-> stopping.sub]
  BY StopRecord DEF IInv
<1>1. ASSUME NEW s \in Subs, Construct(s) \/ CloseMark(s) \/ CloseRemove(s) PROVE stopping' = stopping
  BY <1>1
    DEF Construct, GetChannel, CountUp, HubSubscribe, HubRefuses, Register, Started, SetId, CloseMark, CloseRemove
<1>2. SetOpen \/ EndMark \/ EndRemove \/ CallbackRaises \/ Bystander => stopping' = stopping
  BY DEF SetOpen, EndMark, EndRemove, CallbackRaises, Bystander
<1>3. Shutdown => stopping'.at = "marking" \/ stopping'.at = "done"
  BY <1>0 DEF Shutdown, ShutdownClear, ShutdownMark, ShutdownHub
<1>4. Dies => stopping' = stopping \/ stopping'.at = "marking"
  BY <1>0, DiesOnly
<1> QED BY <1>1, <1>2, <1>3, <1>4, MoversOnly DEF Mover

(* ... so that who is whole has always been.                               *)
LEMMA WholeStays ==
  ASSUME IInv, Next, NEW s \in Subs, Whole(s)' PROVE Whole(s)
BY ClosedStays, StopsOnce DEF Whole

(* Every step but Plan is one of these to a subscription not closed.       *)
LEMMA StepsTo ==
  ASSUME IInv, Next, NEW s \in Subs, Whole(s)
  PROVE  Still(s) \/ Passes(s) \/ Applies(s) \/ Plan
<1> USE DEF ownerVars, subVars, hubVars, drainVars, histVars
<1>0. seen \in [Subs -> Seq(1..MaxItems)] /\ state \in [Subs -> {"opening", "open", "closed"}]
  BY DEF IInv, TypeOK
<1>0b. state[s] # "closed"
  BY DEF Whole
<1>0c. pc = "dispatch" => Sub(Head(todo)) \in Subs
  BY HeadFacts
<1>1. ASSUME NEW t \in Subs, GetChannel(t) PROVE Still(s)
  BY <1>1 DEF Still, GetChannel
<1>2. ASSUME NEW t \in Subs, CountUp(t) PROVE Still(s)
  BY <1>2 DEF Still, CountUp
<1>3. ASSUME NEW t \in Subs, HubSubscribe(t) PROVE Still(s)
  BY <1>3 DEF Still, HubSubscribe
<1>4. ASSUME NEW t \in Subs, Register(t) PROVE Still(s)
  BY <1>4 DEF Still, Register
<1>5. ASSUME NEW t \in Subs, Started(t) PROVE Still(s)
  BY <1>5 DEF Still, Started
<1>6. ASSUME NEW t \in Subs, SetId(t) PROVE Still(s)
  BY <1>6 DEF Still, SetId
<1>7. ASSUME NEW t \in Subs, CloseMark(t) PROVE Still(s)
  BY <1>7 DEF Still, CloseMark
<1>8. ASSUME NEW t \in Subs, CloseRemove(t) PROVE Still(s)
  BY <1>8 DEF Still, CloseRemove
<1>9. ASSUME NEW t \in Subs, NEW who \in Closers, CountDown(t, who) PROVE Still(s)
  BY <1>9 DEF Still, CountDown
<1>10. ASSUME NEW t \in Subs, NEW kind \in HubKinds, Arrive(t, kind) PROVE Still(s)
  BY <1>10 DEF Still, Arrive
<1>11. ASSUME Purge PROVE Still(s)
  BY <1>11 DEF Still, Purge
<1>12. ASSUME Recv PROVE Still(s)
  BY <1>12 DEF Still, Recv
<1>13. ASSUME EventClosed PROVE Passes(s)
  BY <1>0b, <1>13 DEF Passes, EventClosed, Live
<1>14. ASSUME EventDelivered PROVE Passes(s) \/ Applies(s)
  <2>1. /\ pc = "dispatch" /\ todo' = Tail(todo) /\ dropped' = dropped
        /\ seen' = [seen EXCEPT ![Sub(Head(todo))] = Append(@, Head(todo))]
    BY <1>14 DEF EventDelivered, Applied
  <2>2. CASE Sub(Head(todo)) = s
    BY <2>1, <2>2, <1>0 DEF Applies
  <2>3. CASE Sub(Head(todo)) # s
    BY <2>1, <2>3, <1>0 DEF Passes
  <2> QED BY <2>2, <2>3
<1>15. ASSUME EventChecked PROVE Passes(s) \/ Applies(s)
  <2>1. /\ pc = "dispatch" /\ todo' = Tail(todo) /\ dropped' = dropped
        /\ seen' = [seen EXCEPT ![Sub(Head(todo))] = Append(@, Head(todo))]
    BY <1>15 DEF EventChecked, Applied
  <2>2. CASE Sub(Head(todo)) = s
    BY <2>1, <2>2, <1>0 DEF Applies
  <2>3. CASE Sub(Head(todo)) # s
    BY <2>1, <2>3, <1>0 DEF Passes
  <2> QED BY <2>2, <2>3
<1>16. ASSUME EndMark PROVE Still(s)
  BY <1>16 DEF Still, EndMark
<1>17. ASSUME HookReturns PROVE Still(s)
  BY <1>17 DEF Still, HookReturns
<1>18. ASSUME HookRaises PROVE Still(s)
  BY <1>18 DEF Still, HookRaises, Die
<1>19. ASSUME Deliver PROVE Still(s)
  BY <1>19 DEF Still, Deliver
<1>20. ASSUME CallbackReturns PROVE Still(s)
  BY <1>20 DEF Still, CallbackReturns
<1>21. ASSUME CallbackRaises PROVE Still(s)
  BY <1>21 DEF Still, CallbackRaises
<1>22. ASSUME EndRemove PROVE Still(s)
  BY <1>22 DEF Still, EndRemove
<1>23. ASSUME EndRaises PROVE Still(s)
  BY <1>23 DEF Still, EndRaises, Die
<1>24. ASSUME ShutdownClear PROVE Still(s)
  BY <1>24 DEF Still, ShutdownClear
<1>25. ASSUME ShutdownMark PROVE Still(s)
  BY <1>25 DEF Still, ShutdownMark
<1>26. ASSUME ShutdownHub PROVE Still(s)
  BY <1>26 DEF Still, ShutdownHub
<1>27. ASSUME NoteConnected PROVE Still(s)
  BY <1>27 DEF Still, NoteConnected
<1>28. ASSUME SetOpen PROVE Still(s)
  BY <1>28 DEF Still, SetOpen
<1>29. ASSUME CallbackEscapes PROVE Still(s)
  BY <1>29 DEF Still, CallbackEscapes, Die
<1>30. ASSUME NEW t \in Subs, HubRefuses(t) PROVE Still(s)
  BY <1>30 DEF Still, HubRefuses
<1> QED
  BY <1>1, <1>2, <1>3, <1>4, <1>5, <1>6, <1>7, <1>8, <1>9, <1>10, <1>11, <1>12, <1>13, <1>14,
    <1>15, <1>16, <1>17, <1>18, <1>19, <1>20, <1>21, <1>22, <1>23, <1>24, <1>25, <1>26, <1>27,
    <1>28, <1>29, <1>30
  DEF Next, Construct, Drain, Event, Callback, Shutdown

(* No other step plans items, ...                                          *)
LEMMA PastStep ==
  ASSUME IInv, Next, stopping'.at # "done", ~Plan
  PROVE  Past' = Past /\ stopping.at # "done"
<1>0. /\ TypeOK /\ Frames
      /\ stopping = [at |-> stopping.at, left |-> stopping.left, sub |-> stopping.sub]
  BY StopRecord DEF IInv
<1>1. /\ Len(arrived) \in Nat /\ Len(queue) \in Nat /\ Len(batch) \in Nat
      /\ Past = Len(arrived) - Len(queue) - Len(batch)
  BY <1>0, PastWithin
<1>2. Past' = Len(arrived') - Len(queue') - Len(batch')
  BY DEF Past
<1>3. CASE Quiet
  <2>1. arrived' = arrived /\ queue' = queue /\ batch' = batch /\ stopping.at # "done"
    BY <1>3 DEF Quiet
  <2> QED BY <2>1, <1>1, <1>2
<1>4. ASSUME NEW t \in Subs, NEW kind \in HubKinds, Arrive(t, kind) PROVE Past' = Past /\ stopping.at # "done"
  <2> DEFINE R == [sub: Subs, kind: Kinds]
  <2> DEFINE e == [sub |-> t, kind |-> kind]
  <2>1. /\ arrived' = Append(arrived, e) /\ queue' = Append(queue, Len(arrived) + 1)
        /\ batch' = batch /\ stopping' = stopping
    BY <1>4 DEF Arrive, drainVars
  <2>2. arrived \in Seq(R) /\ e \in R /\ queue \in Seq(Nat) /\ Len(arrived) + 1 \in Nat
    BY <1>0, <1>1, DispatcherAssumption DEF TypeOK
  <2> HIDE DEF e, R
  <2>3. Len(arrived') = Len(arrived) + 1
    BY <2>1, <2>2, AppendProperties
  <2>4. Len(queue') = Len(queue) + 1
    BY <2>1, <2>2, AppendProperties
  <2> QED BY <2>1, <2>3, <2>4, <1>1, <1>2
<1>5. CASE Recv
  <2>1. arrived' = arrived /\ batch = <<>> /\ stopping' = stopping /\ Len(<<>>) = 0
    BY <1>0, <1>5 DEF Recv, Frames, Numbers, PlacesA, PlacesB, PlacesC
  <2>2. (batch' = queue /\ queue' = <<>>) \/ (batch' = batch /\ queue' = queue)
    BY <1>5 DEF Recv
  <2> QED BY <2>1, <2>2, <1>1, <1>2
<1>6. CASE ShutdownHub
  <2>1. stopping' = [stopping EXCEPT !.at = "done"]
    BY <1>6 DEF ShutdownHub
  <2>2. stopping'.at = "done"
    BY <2>1, <1>0
  <2> QED BY <2>2
<1> QED BY <1>3, <1>4, <1>5, <1>6, QuietOrNot

(* Every step keeps the promise to every subscription.                     *)
LEMMA TellStep ==
  ASSUME IInv, Next, NEW s \in Subs PROVE Told(s)'
<1> SUFFICES ASSUME Whole(s)' PROVE Told(s)'
  BY DEF Told, Whole
<1>0. /\ TypeOK /\ Frames /\ InLine /\ Arrivals /\ Closings /\ Told(s)
      /\ MaxItems \in Nat /\ todo \in Seq(1..MaxItems) /\ seen \in [Subs -> Seq(1..MaxItems)]
      /\ batch \in Seq(1..MaxItems) /\ dropped \in [Subs -> 0..MaxItems]
  BY DispatcherAssumption DEF IInv, Owned, TypeOK
<1>1. Whole(s) /\ state[s] # "closed" /\ ~Reopened(s) /\ stopping.at = "no"
  BY WholeStays DEF Whole
<1>2. Tells(s, seen[s], todo, dropped[s], Past)
  BY <1>0, <1>1, ToldIsTells
<1>3. /\ Past \in Nat /\ 1..Past \subseteq DOMAIN arrived /\ DOMAIN arrived = 1..Len(arrived) /\ Len(arrived) \in Nat
      /\ Len(batch) \in Nat /\ DOMAIN batch = 1..Len(batch)
  BY <1>0, PastWithin
<1>4. todo \in Seq(Nat) /\ seen[s] \in Seq(Nat) /\ batch \in Seq(Nat) /\ dropped[s] \in Nat
  <2>1. 1..MaxItems \subseteq Nat /\ 0..MaxItems \subseteq Nat
    BY <1>0
  <2>2. seen[s] \in Seq(1..MaxItems) /\ dropped[s] \in 0..MaxItems
    BY <1>0
  <2> QED BY <2>1, <2>2, <1>0
<1>5. \A i \in DOMAIN todo : todo[i] \in 1..Past
  BY <1>0 DEF Frames, Numbers, PlacesA, PlacesB, PlacesC
<1>6. \A k \in 1..Past : arrived'[k] = arrived[k]
  BY <1>3, SameArrived
<1>7. CASE ~Plan
  <2>1. Past' = Past
    BY <1>7, PastStep DEF Whole
  <2>2. PICK td : td = todo' /\ (\A i \in DOMAIN td : td[i] \in 1..Past) /\ Tells(s, seen'[s], td, dropped[s], Past) /\ dropped' = dropped
    <3>1. CASE Still(s)
      <4>1. seen'[s] = seen[s] /\ todo' = todo /\ dropped' = dropped
        BY <3>1 DEF Still
      <4> QED BY <4>1, <1>2, <1>5
    <3>2. CASE Passes(s)
      <4>1. pc = "dispatch" /\ Sub(Head(todo)) # s /\ seen'[s] = seen[s] /\ todo' = Tail(todo) /\ dropped' = dropped
        BY <3>2 DEF Passes
      <4>2. todo # <<>>
        BY <4>1, <1>0 DEF TypeOK
      <4>3. Tells(s, seen[s], Tail(todo), dropped[s], Past)
        BY <4>1, <4>2, <1>2, <1>4, TellsPassed
      <4>4. \A i \in DOMAIN Tail(todo) : Tail(todo)[i] \in 1..Past
        BY <4>2, <1>4, <1>5, TailElems
      <4> QED BY <4>1, <4>3, <4>4
    <3>3. CASE Applies(s)
      <4>1. /\ pc = "dispatch" /\ Sub(Head(todo)) = s /\ seen'[s] = Append(seen[s], Head(todo))
            /\ todo' = Tail(todo) /\ dropped' = dropped
        BY <3>3 DEF Applies
      <4>2. todo # <<>> /\ Head(todo) \in 1..Past
        BY <4>1, HeadFacts
      <4>3. Tells(s, Append(seen[s], Head(todo)), Tail(todo), dropped[s], Past)
        BY <4>1, <4>2, <1>2, <1>4, TellsApplied
      <4>4. \A i \in DOMAIN Tail(todo) : Tail(todo)[i] \in 1..Past
        BY <4>2, <1>4, <1>5, TailElems
      <4> QED BY <4>1, <4>3, <4>4
    <3> QED BY <3>1, <3>2, <3>3, <1>1, <1>7, StepsTo
  <2>3. PICK q : q = seen'[s] /\ Tells(s, q, td, dropped[s], Past)
    BY <2>2
  <2>4. PICK d, P \in Nat : d = dropped[s] /\ P = Past
    BY <1>3, <1>4
  <2>5. Tells(s, q, td, d, P)'
    <3>1. Tells(s, q, td, d, P) /\ (\A i \in DOMAIN td : td[i] \in 1..P) /\ \A k \in 1..P : arrived'[k] = arrived[k]
      BY <2>2, <2>3, <2>4, <1>6
    <3> QED BY <3>1, TellsSame
  <2>6. q = seen'[s] /\ td = todo' /\ d = dropped'[s] /\ P = Past'
    BY <2>1, <2>2, <2>3, <2>4
  <2> QED BY <2>5, <2>6, ToldIsTellsNext
<1>8. CASE Plan
  <2> DEFINE p == Planned(batch)
  <2> DEFINE n == Len(batch)
  <2>1. /\ todo' = p.out /\ dropped' = [t \in Subs |-> dropped[t] + p.drops[t]] /\ seen' = seen
        /\ arrived' = arrived /\ pc = "plan" /\ lockedBy = None
    BY <1>8 DEF Plan, LockFree, hubVars, histVars
  <2>2. Past' = Past + n /\ PlanShape(p, n, batch) /\ Past' \in Nat /\ Past' <= Len(arrived)
    BY <1>8, PlanStep
  <2>3. \A i \in DOMAIN batch : batch[i] = Past + i /\ batch[i] \in DOMAIN arrived
    BY <1>0, <1>1 DEF InLine, Frames, Numbers, PlacesA, PlacesB, PlacesC
  <2>4. PlanTold(p, s, Past, n)
    BY <2>3, <1>0, <1>3, <1>4, PlanPromise
  <2>5. todo = <<>>
    BY <2>1, <1>0 DEF Frames, Numbers, PlacesA, PlacesB, PlacesC
  <2>6. /\ p.out \in Seq(Nat) /\ p.drops \in [Subs -> Nat]
        /\ \A i \in DOMAIN p.out : p.out[i] \in (Past + 1)..(Past + n)
    <3>1. \A j \in 1..n : batch[j] = Past + j
      BY <2>3, <1>3
    <3> QED BY <3>1, <2>2, <1>3, OutBelow
  <2>7. p.drops[s] \in Nat /\ dropped'[s] = dropped[s] + p.drops[s] /\ n \in Nat
    BY <2>1, <2>6, <1>3
  <2>8. Tells(s, seen[s], <<>>, dropped[s], Past)
    BY <2>5, <1>2
  <2> HIDE DEF p, n
  <2>9. Tells(s, seen[s], p.out, dropped[s] + p.drops[s], Past + n)
    <3>1. CASE s \in subs
      BY <3>1, <2>4, <2>6, <2>7, <2>8, <1>3, <1>4, TellsPlanned
    <3>2. CASE s \notin subs
      <4>1. p.drops[s] = 0
        BY <3>2, <2>4 DEF PlanTold
      <4>2. ~Added(s) /\ maker[s] # "adding"
        BY <3>2, <2>1, <1>0, <1>1, DispatcherAssumption DEF Closings, TypeOK
      <4>3. ~Entered(s)
        BY <4>2 DEF Added, Entered
      <4>4. \A k \in 1..(Past + n) : Sub(k) # s
        <5>1. \A k \in 1..(Past + n) : k \in DOMAIN arrived
          BY <2>2, <1>3
        <5> QED BY <5>1, <4>3, <1>0 DEF Arrivals
      <4>5. \A k \in Elems(p.out) : k \in 1..(Past + n)
        <5>1. \A x \in (Past + 1)..(Past + n) : x \in 1..(Past + n)
          BY <2>7, <1>3
        <5> QED BY <5>1, <2>6 DEF Elems
      <4>6. \A k \in Elems(p.out) : Sub(k) # s
        BY <4>4, <4>5
      <4>7. Past + n \in Nat /\ Past <= Past + n /\ dropped[s] + p.drops[s] = dropped[s]
        BY <4>1, <2>7, <1>3, <1>4
      <4> QED BY <4>4, <4>6, <4>7, <2>8, <1>3, TellsUnknown
    <3> QED BY <3>1, <3>2
  <2>10. PICK q, td, d, P : q = seen[s] /\ td = p.out /\ d = dropped[s] + p.drops[s] /\ P = Past + n
    OBVIOUS
  <2>11. q = seen'[s] /\ td = todo' /\ d = dropped'[s] /\ P = Past'
    BY <2>1, <2>2, <2>7, <2>10 DEF p, n
  <2>12. Tells(s, q, td, d, P)
    BY <2>9, <2>10
  <2>13. Tells(s, q, td, d, P)'
    BY <2>12, <2>1 DEF Tells, LostOf, ItemsOf, KeptOf, OvertakenBy, Rising, Elems, Sub, Kind
  <2> QED BY <2>11, <2>13, ToldIsTellsNext
<1> QED BY <1>7, <1>8

-----------------------------------------------------------------------------
(* The invariant holds at first ...                                        *)
LEMMA InvInit == Init => IInv
<1> SUFFICES ASSUME Init PROVE IInv
  OBVIOUS
<1>0. MaxItems \in Nat /\ None \notin Subs /\ 0 \in 0..MaxItems /\ Len(<<>>) = 0 /\ DOMAIN <<>> = {}
  BY DispatcherAssumption
<1>1. Parts
  <2> USE DEF Init
  <2>1. OwnerOK
    BY DEF OwnerOK
  <2>2. SubOK
    <3>1. cached \in BOOLEAN
      OBVIOUS
    <3>2. count \in Int /\ uncounted \subseteq Subs \X Closers
      OBVIOUS
    <3>3. state \in [Subs -> {"opening", "open", "closed"}] /\ subs \subseteq Subs
      OBVIOUS
    <3> QED BY <3>1, <3>2, <3>3 DEF SubOK
  <2>3. LockOK
    BY <1>0 DEF LockOK
  <2>4. HubOK
    BY <1>0 DEF HubOK
  <2>5. DrainOK
    BY <1>0 DEF DrainOK, Busy
  <2>6. TodoOK
    BY <1>0 DEF TodoOK
  <2>7. DroppedOK
    BY <1>0 DEF DroppedOK
  <2>8. HistOK
    BY <1>0 DEF HistOK
  <2>9. StopOK
    BY <1>0 DEF StopOK
  <2> QED BY <2>1, <2>2, <2>3, <2>4, <2>5, <2>6, <2>7, <2>8, <2>9 DEF Parts
<1>2. TypeOK
  BY <1>1, TypeParts
<1>3. arrived = <<>> /\ queue = <<>> /\ batch = <<>> /\ todo = <<>> /\ Past = 0
  <2>1. arrived = <<>> /\ queue = <<>> /\ batch = <<>> /\ todo = <<>>
    BY DEF Init
  <2>2. Past = 0 - 0 - 0
    BY <2>1, <1>0 DEF Past
  <2> QED BY <2>1, <2>2
<1>4. InLine
  BY <1>0, <1>3 DEF InLine
<1>5. Frames
  <2>1. \A s \in Subs : dropped[s] = 0
    BY DEF Init
  <2> QED BY <2>1, <1>0, <1>3 DEF Frames, Numbers, PlacesA, PlacesB, PlacesC, Busy, Init
<1>6. Owned
  <2>1. /\ stopping.left = {} /\ subs = {} /\ hubSubs = {}
        /\ \A s \in Subs : maker[s] = "new" /\ state[s] = "opening" /\ closer[s] = "no"
        /\ uncounted = {} /\ reopened = <<>>
    BY DEF Init
  <2>2. \A s \in Subs : ~Reopened(s)
    BY <2>1, <1>0 DEF Reopened, Elems
  <2>3. Arrivals /\ Users
    BY <2>1, <1>0, <1>3 DEF Arrivals, Users
  <2>4. Closings
    BY <2>1, <2>2 DEF Closings, Added
  <2>5. Tokens
    BY <2>1 DEF Tokens
  <2> QED BY <2>3, <2>4, <2>5 DEF Owned
<1>7. OneThread
  BY DEF Init, OneThread, OneAt, HeldOpen
<1>8. Counting
  <2>1. \A s \in Subs : maker[s] = "new"
    BY DEF Init
  <2>2. ~cached
    BY DEF Init
  <2> QED BY <2>1, <2>2 DEF Counting, CountAccounted
<1>9. ASSUME NEW s \in Subs PROVE Told(s)
  <2>1. ItemsOf(s, 0) = {}
    BY DEF ItemsOf
  <2>2. seen[s] = <<>> /\ dropped[s] = 0
    BY DEF Init
  <2>3. LostOf(s, <<>>, <<>>, 0) = {}
    BY <2>1 DEF LostOf
  <2>4. Tells(s, <<>>, <<>>, 0, 0)
    BY <2>3, <1>0, FS_EmptySet DEF Tells, Rising
  <2>5. Tells(s, seen[s], todo, dropped[s], Past)
    BY <2>2, <2>4, <1>3
  <2> QED BY <2>5, ToldIsTells
<1> QED BY <1>2, <1>4, <1>5, <1>6, <1>7, <1>8, <1>9 DEF IInv

(* ... and every step keeps it.                                            *)
LEMMA InvNext == IInv /\ [Next]_vars => IInv'
<1> SUFFICES ASSUME IInv, [Next]_vars PROVE IInv'
  OBVIOUS
<1>1. CASE Next
  <2>1. TypeOK'
    BY <1>1, TypeStep
  <2>2. Numbers' /\ InLine'
    BY <1>1, <2>1, NumbersStep
  <2>3. PlacesA' /\ PlacesB' /\ PlacesC'
    BY <1>1, <2>1, PlacesStep
  <2>4. Frames'
    BY <2>2, <2>3 DEF Frames, Numbers, PlacesA, PlacesB, PlacesC, Past, Busy, Sub
  <2>5. Owned'
    BY <1>1, OwnedStep
  <2>6. OneThread' /\ Counting'
    BY <1>1, <2>1, OneThreadStep, CountingStep
  <2>7. \A s \in Subs : Told(s)'
    BY <1>1, TellStep
  <2> QED BY <2>1, <2>2, <2>4, <2>5, <2>6, <2>7 DEF IInv
<1>2. CASE UNCHANGED vars
  <2> USE DEF vars, ownerVars, subVars, hubVars, drainVars, histVars
  <2>1. TypeOK'
    BY <1>2 DEF IInv, TypeOK
  <2>2. InLine' /\ Frames'
    BY <1>2 DEF IInv, InLine, Frames, Numbers, PlacesA, PlacesB, PlacesC, Past, Busy, Sub
  <2>3. Owned' /\ OneThread'
    BY <1>2 
      DEF IInv, Owned, Arrivals, Users, Closings, Tokens, Reopened, Elems, OneThread, OneAt, HeldOpen, Entered,
      Added, Sub
  <2>4. Counting'
    BY <1>2 DEF IInv, Counting, CountAccounted, LiveSubs, RefusedSubs
  <2>5. ASSUME NEW s \in Subs PROVE Told(s)'
    <3>1. PICK q, td, d, P : q = seen[s] /\ td = todo /\ d = dropped[s] /\ P = Past
      OBVIOUS
    <3>2. q = seen'[s] /\ td = todo' /\ d = dropped'[s] /\ P = Past'
      BY <1>2, <3>1 DEF Past
    <3>3. arrived' = arrived /\ state' = state /\ stopping' = stopping
      BY <1>2
    <3>4. Whole(s) => Tells(s, q, td, d, P)
      BY <3>1, ToldIsTells DEF IInv
    <3>5. Tells(s, q, td, d, P) => Tells(s, q, td, d, P)'
      BY <3>3 DEF Tells, LostOf, ItemsOf, KeptOf, OvertakenBy, Rising, Elems, Sub, Kind
    <3>6. Whole(s)' => Tells(s, q, td, d, P)'
      BY <1>2, <3>3, <3>4, <3>5 DEF Whole, Reopened, Elems
    <3> QED BY <3>2, <3>6, ToldIsTellsNext
  <2> QED BY <2>1, <2>2, <2>3, <2>4, <2>5 DEF IInv
<1> QED BY <1>1, <1>2

(* The invariant holds of every behaviour: what the theorems rest on.      *)
THEOREM DispatcherInvariant == Spec => []IInv
  BY InvInit, InvNext, PTL DEF Spec

(* The numbers say which items plan() has seen.                            *)
LEMMA PlannedIsPast ==
  ASSUME IInv, stopping.at = "no", NEW s
  PROVE  PlannedItems(s) = ItemsOf(s, Past)
<1>1. TypeOK /\ Frames /\ InLine
  BY DEF IInv
<1>2. /\ Len(arrived) \in Nat /\ Len(queue) \in Nat /\ Len(batch) \in Nat /\ Past \in Nat
      /\ Past = Len(arrived) - Len(queue) - Len(batch)
      /\ DOMAIN arrived = 1..Len(arrived) /\ DOMAIN queue = 1..Len(queue) /\ DOMAIN batch = 1..Len(batch)
  BY <1>1, PastWithin
<1>3. /\ \A i \in DOMAIN batch : batch[i] = Past + i
      /\ \A i \in DOMAIN queue : queue[i] = Past + Len(batch) + i
  BY <1>1 DEF InLine
<1>4. ASSUME NEW k \in DOMAIN arrived PROVE k \notin Elems(queue) \cup Elems(batch) <=> k \in 1..Past
  <2>1. k \in Nat /\ k >= 1 /\ k <= Len(arrived)
    BY <1>2
  <2>2. CASE k <= Past
    <3>1. \A i \in DOMAIN batch : batch[i] > k
      BY <2>1, <2>2, <1>2, <1>3
    <3>2. \A i \in DOMAIN queue : queue[i] > k
      BY <2>1, <2>2, <1>2, <1>3
    <3> QED BY <2>1, <2>2, <3>1, <3>2, <1>2 DEF Elems
  <2>3. CASE k > Past /\ k <= Past + Len(batch)
    <3>1. k - Past \in DOMAIN batch
      BY <2>1, <2>3, <1>2
    <3>2. batch[k - Past] = Past + (k - Past) /\ Past + (k - Past) = k
      BY <2>1, <3>1, <1>2, <1>3
    <3>3. k \in Elems(batch)
      BY <3>1, <3>2 DEF Elems
    <3> QED BY <2>1, <2>3, <3>3, <1>2
  <2>4. CASE k > Past + Len(batch)
    <3> DEFINE m == Past + Len(batch)
    <3>1. k - m \in DOMAIN queue
      BY <2>1, <2>4, <1>2
    <3>2. queue[k - m] = m + (k - m) /\ m + (k - m) = k
      BY <2>1, <3>1, <1>2, <1>3
    <3>3. k \in Elems(queue)
      BY <3>1, <3>2 DEF Elems
    <3> QED BY <2>1, <2>4, <3>3, <1>2
  <2> QED BY <2>1, <2>2, <2>3, <2>4, <1>2
<1>5. 1..Past \subseteq DOMAIN arrived
  BY <1>2
<1> QED BY <1>4, <1>5 DEF PlannedItems, ItemsOf

(* The invariant says what CollapseSound says.                             *)
LEMMA ToldIsSound == IInv => CollapseSound
<1> SUFFICES ASSUME IInv, NEW s \in Subs, state[s] # "closed", s \notin Elems(reopened), stopping.at = "no"
             PROVE  LET lost == PlannedItems(s) \ Kept(s)
                    IN  /\ \A i, j \in DOMAIN seen[s] : i < j => seen[s][i] < seen[s][j]
                        /\ \A i, j \in DOMAIN todo : Sub(todo[i]) = s /\ Sub(todo[j]) = s /\ i < j => todo[i] < todo[j]
                        /\ dropped[s] = Cardinality(lost)
                        /\ \A k \in lost : \E n \in Kept(s) :
                             /\ k < n /\ s \notin AllUpdates
                             /\ \A x \in PlannedItems(s) \cap (k..n) : Kind(x) = "value"
  BY DEF CollapseSound, IInv
<1>1. PlannedItems(s) = ItemsOf(s, Past) /\ Kept(s) = KeptOf(s, seen[s], todo)
  BY PlannedIsPast DEF Kept, KeptOf
<1>2. PlannedItems(s) \ Kept(s) = LostOf(s, seen[s], todo, Past)
  BY <1>1 DEF LostOf
<1>3. Tells(s, seen[s], todo, dropped[s], Past)
  BY ToldIsTells DEF IInv, Whole, Reopened
<1>4. \A k \in LostOf(s, seen[s], todo, Past) : \E n \in Kept(s) :
        /\ k < n /\ s \notin AllUpdates
        /\ \A x \in PlannedItems(s) \cap (k..n) : Kind(x) = "value"
  <2> SUFFICES ASSUME NEW k \in LostOf(s, seen[s], todo, Past)
               PROVE  \E n \in Kept(s) : /\ k < n /\ s \notin AllUpdates
                                         /\ \A x \in PlannedItems(s) \cap (k..n) : Kind(x) = "value"
    OBVIOUS
  <2>1. PICK n \in Kept(s) : OvertakenBy(s, Past, k, n)
    BY <1>1, <1>3 DEF Tells
  <2>2. \A x \in k..n : k <= x /\ x <= n
    OBVIOUS
  <2> QED BY <2>1, <2>2, <1>1 DEF OvertakenBy
<1> QED BY <1>2, <1>3, <1>4 DEF Tells, Rising

(* plan() and the drain (_monitor.py): a subscription that is not closed,  *)
(* and was not when the drain wrote OPEN, sees its items in order, all but *)
(* the values a later one of the same run overtook, and dropped_callbacks  *)
(* counts exactly those, until shutdown() clears the map.                  *)
THEOREM PlanKeepsPromise == Spec => []CollapseSound
  BY DispatcherInvariant, ToldIsSound, PTL

(* add_subscriber and the closes' count (_context.py, _monitor.py): unless *)
(* the caches are purged the count is that of the subscriptions not closed *)
(* and of the closes still to be counted, one too many for each            *)
(* constructor hub.subscribe refused and one too few for each close the    *)
(* drain overwrote with OPEN: these two, and nothing else, miscount.       *)
THEOREM CountIsAccounted ==
  ASSUME "purge" \notin MayHappen PROVE Spec => []CountAccounted
<1>1. IInv => CountAccounted
  BY DEF IInv, Counting
<1> QED BY <1>1, DispatcherInvariant, PTL

(* On a loop a callback is started in the stretch that checks the state.   *)
LEMMA LoopCalls ==
  ASSUME Flavour = "loop", IInv, Next, called' # called
  PROVE  \A s \in Subs : closer[s] = "returned" => Sub(Last(called')) # s
<1> USE DEF ownerVars, subVars, hubVars, drainVars, histVars
<1>1. pc # "deliver" /\ reopened = <<>> /\ Closings /\ called \in Seq(1..MaxItems)
  BY DEF IInv, OneThread, OneAt, Owned, TypeOK
<1>2. EventDelivered
  <2>1. ASSUME NEW s \in Subs, Construct(s) \/ CloseMark(s) \/ CloseRemove(s) PROVE FALSE
    BY <2>1
      DEF Construct, GetChannel, CountUp, HubSubscribe, HubRefuses, Register, Started, SetId, CloseMark, CloseRemove
  <2>2. ASSUME NEW s \in Subs, NEW who \in Closers, CountDown(s, who) PROVE FALSE
    BY <2>2 DEF CountDown
  <2>3. ASSUME NEW s \in Subs, NEW kind \in HubKinds, Arrive(s, kind) PROVE FALSE
    BY <2>3 DEF Arrive
  <2>4. ~Purge /\ ~Shutdown /\ ~Recv /\ ~Plan
    BY DEF Purge, Shutdown, ShutdownClear, ShutdownMark, ShutdownHub, Recv, Plan
  <2>5. ~EventClosed /\ ~EventChecked /\ ~NoteConnected /\ ~SetOpen /\ ~HookReturns /\ ~HookRaises
    BY DEF EventClosed, EventChecked, NoteConnected, SetOpen, HookReturns, HookRaises
  <2>6. ~EndMark /\ ~EndRemove /\ ~EndRaises /\ ~Callback
    BY <1>1 DEF EndMark, EndRemove, EndRaises, Callback, Deliver, CallbackReturns, CallbackRaises, CallbackEscapes
  <2> QED BY <2>1, <2>2, <2>3, <2>4, <2>5, <2>6 DEF Next, Drain, Event
<1>3. called' = Append(called, Head(todo)) /\ Live(Sub(Head(todo))) /\ pc = "dispatch"
  BY <1>2 DEF EventDelivered
<1>4. Head(todo) \in 1..MaxItems /\ Sub(Head(todo)) \in Subs
  BY <1>3, HeadFacts
<1>5. Last(called') = Head(todo)
  <2>1. called' \in Seq(1..MaxItems) /\ Len(called') = Len(called) + 1 /\ called'[Len(called) + 1] = Head(todo)
    BY <1>1, <1>3, <1>4, AppendProperties
  <2> QED BY <2>1 DEF Last
<1>6. closer[Sub(Head(todo))] = "no"
  <2>1. ~Reopened(Sub(Head(todo)))
    BY <1>1 DEF Reopened, Elems
  <2> QED BY <1>1, <1>3, <1>4, <2>1 DEF Closings, Live
<1> QED BY <1>5, <1>6

(* close() on an asyncio loop: no callback starts after it returned, for   *)
(* any number of subscriptions and items.  With threads one may: the drain *)
(* can be between the check and the call.                                  *)
THEOREM ClosedIsNotCalled ==
  ASSUME Flavour = "loop" PROVE Spec => NoCallbackAfterClose
<1>1. IInv /\ [Next]_vars =>
        [\A s \in Subs : closer[s] = "returned" /\ called' # called => Sub(Last(called')) # s]_vars
  BY LoopCalls DEF vars
<1> QED BY <1>1, DispatcherInvariant, PTL DEF Spec, NoCallbackAfterClose

=============================================================================
