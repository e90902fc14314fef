----------------------- MODULE CaSubscription_proofs -----------------------
(***************************************************************************)
(* Theorems about CaSubscription for any callers and any batch size, and   *)
(* about AsyncBridge, over which its calls are awaited.                    *)
(***************************************************************************)
EXTENDS CaSubscription, AsyncBridge, FiniteSetTheorems, SequenceTheorems, TLAPS

USE SubscriptionAssumption DEF None, End, Calls

-----------------------------------------------------------------------------
(* Once a close has returned the slot is empty, and nobody fills it again. *)
EmptiedInv == shut => ~present

(* Only Close ends the slot and sets shut, and nothing fills it again.     *)
LEMMA EmptiedStep == EmptiedInv /\ [Next]_vars => EmptiedInv'
<1> SUFFICES ASSUME EmptiedInv, [Next]_vars PROVE EmptiedInv'
  OBVIOUS
<1> USE DEF EmptiedInv, slotVars, handleVars, callVars
<1>1. ASSUME NEW kind \in {"value", "error"}, Arrive(kind) PROVE EmptiedInv'
  BY <1>1 DEF Arrive
<1>2. CASE HandleEnds
  BY <1>2 DEF HandleEnds
<1>3. CASE Acquire
  BY <1>3 DEF Acquire
<1>4. ASSUME NEW c \in Callers, NEW o \in Ops, Call(c, o) PROVE EmptiedInv'
  BY <1>4 DEF Call
<1>5. ASSUME NEW c \in Callers, LockSlot(c) \/ TimesOut(c) \/ PullNone(c) PROVE EmptiedInv'
  BY <1>5 DEF LockSlot, TimesOut, PullNone
<1>6. ASSUME NEW c \in Callers, Recv(c) \/ RecvBatch(c) PROVE EmptiedInv'
  BY <1>6 DEF Recv, RecvBatch
<1>7. ASSUME NEW c \in Callers, With(c) PROVE EmptiedInv'
  BY <1>7 DEF With
<1>8. ASSUME NEW c \in Callers, Close(c) PROVE EmptiedInv'
  BY <1>8 DEF Close, TakeMonitor
<1>9. CASE UNCHANGED vars
  BY <1>9 DEF vars
<1> QED
  BY <1>1, <1>2, <1>3, <1>4, <1>5, <1>6, <1>7, <1>8, <1>9 DEF Next, CallStep

(* With the slot empty no pull takes an item.                              *)
LEMMA EmptyGivesNothing == EmptiedInv /\ [Next]_vars => (shut => got' = got)
<1> SUFFICES ASSUME EmptiedInv, [Next]_vars, shut PROVE got' = got
  OBVIOUS
<1> USE DEF EmptiedInv, slotVars, handleVars, callVars
<1>1. ASSUME NEW kind \in {"value", "error"}, Arrive(kind) PROVE got' = got
  BY <1>1 DEF Arrive
<1>2. CASE HandleEnds \/ Acquire
  BY <1>2 DEF HandleEnds, Acquire
<1>3. ASSUME NEW c \in Callers, NEW o \in Ops, Call(c, o) PROVE got' = got
  BY <1>3 DEF Call
<1>4. ASSUME NEW c \in Callers, LockSlot(c) \/ TimesOut(c) \/ PullNone(c) PROVE got' = got
  BY <1>4 DEF LockSlot, TimesOut, PullNone
<1>5. ASSUME NEW c \in Callers PROVE ~Recv(c) /\ ~RecvBatch(c)
  BY DEF Recv, RecvBatch, Parked
<1>6. ASSUME NEW c \in Callers, With(c) \/ Close(c) PROVE got' = got
  BY <1>6 DEF With, Close
<1>7. CASE UNCHANGED vars
  BY <1>7 DEF vars
<1> QED
  BY <1>1, <1>2, <1>3, <1>4, <1>5, <1>6, <1>7 DEF Next, CallStep

(* "None once closed" (recv, recv_batch): after a close has returned, no   *)
(* recv returns an item, whoever was queued at the lock.                   *)
THEOREM StaysClosed == Spec => ClosedForGood
<1>1. Init => EmptiedInv
  BY DEF Init, EmptiedInv
<1>2. EmptiedInv /\ [Next]_vars => [shut => got' = got]_vars
  BY EmptyGivesNothing
<1> QED
  BY <1>1, <1>2, EmptiedStep, PTL DEF Spec, ClosedForGood
-----------------------------------------------------------------------------
(* The lock                                                                *)

(* A step that leaves the calls and the lock alone keeps LockOK.           *)
LEMMA LockKept ==
  ASSUME LockOK, UNCHANGED callVars PROVE LockOK'
BY DEF LockOK, callVars

(* Letting go of the lock.                                                 *)
LEMMA ReleaseLock ==
  ASSUME LockOK, NEW c \in Callers, pc[c] = "holding", Release(c) PROVE LockOK'
BY DEF LockOK, Release

(* A caller joins the queue of the lock.                                   *)
LEMMA JoinLock ==
  ASSUME LockOK, NEW c \in Callers, LockSlot(c) PROVE LockOK'
<1> USE DEF LockOK, LockSlot
<1>1. waiters' \in Seq(Callers) /\ DOMAIN waiters' = 1..(Len(waiters) + 1)
  OBVIOUS
<1>2. /\ waiters'[Len(waiters) + 1] = c
      /\ \A i \in 1..Len(waiters) : waiters'[i] = waiters[i]
  OBVIOUS
<1>3. \A i \in 1..Len(waiters) : waiters[i] # c
  OBVIOUS
<1>4. \A i, j \in DOMAIN waiters' : waiters'[i] = waiters'[j] => i = j
  BY <1>1, <1>2, <1>3
<1>5. ASSUME NEW d \in Callers
      PROVE  pc'[d] = "locking" <=> \E i \in DOMAIN waiters' : waiters'[i] = d
  <2>1. CASE d = c
    BY <1>1, <1>2, <2>1
  <2>2. CASE d # c
    BY <1>1, <1>2, <2>2
  <2> QED BY <2>1, <2>2
<1> QED BY <1>1, <1>4, <1>5

(* The first in the queue gets the lock.                                   *)
LEMMA TakeLock ==
  ASSUME LockOK, Acquire PROVE LockOK'
<1> USE DEF LockOK, Acquire
<1> DEFINE h == Head(waiters)
<1>1. h \in Callers /\ h = waiters[1] /\ 1 \in DOMAIN waiters
  OBVIOUS
<1>2. waiters' \in Seq(Callers) /\ DOMAIN waiters' = 1..(Len(waiters) - 1)
  OBVIOUS
<1>3. \A i \in DOMAIN waiters' : waiters'[i] = waiters[i + 1] /\ i + 1 \in DOMAIN waiters
  OBVIOUS
<1>4. \A i \in DOMAIN waiters' : waiters'[i] # h
  BY <1>1, <1>3
<1>5. \A i, j \in DOMAIN waiters' : waiters'[i] = waiters'[j] => i = j
  BY <1>2, <1>3
<1>6. pc[h] = "locking"
  <2>1. \E i \in DOMAIN waiters : waiters[i] = h
    BY <1>1
  <2> QED BY <1>1, <2>1
<1>7. ASSUME NEW d \in Callers
      PROVE  pc'[d] = "locking" <=> \E i \in DOMAIN waiters' : waiters'[i] = d
  <2>1. CASE d = h
    BY <1>1, <1>4, <2>1
  <2>2. CASE d # h
    <3>1. pc'[d] = pc[d]
      BY <2>2
    <3>2. ASSUME NEW i \in DOMAIN waiters, waiters[i] = d
          PROVE  i - 1 \in DOMAIN waiters' /\ waiters'[i - 1] = d
      BY <1>1, <1>2, <1>3, <2>2, <3>2
    <3>3. ASSUME NEW i \in DOMAIN waiters', waiters'[i] = d
          PROVE  i + 1 \in DOMAIN waiters /\ waiters[i + 1] = d
      BY <1>3, <3>3
    <3> QED BY <3>1, <3>2, <3>3
  <2> QED BY <2>1, <2>2
<1>8. \A d \in Callers : (pc'[d] = "idle" <=> op'[d] = None) /\ (pc'[d] = "holding" <=> holder' = d)
  BY <1>1, <1>6
<1> QED BY <1>1, <1>2, <1>5, <1>7, <1>8

(* Without its k-th element the ones behind it move up.                    *)
LEMMA Removed ==
  ASSUME NEW S, NEW s \in Seq(S), NEW k \in 1..Len(s)
  PROVE  /\ RemoveAt(s, k) \in Seq(S)
         /\ Len(RemoveAt(s, k)) = Len(s) - 1
         /\ \A i \in 1..(Len(s) - 1) :
              /\ i < k => RemoveAt(s, k)[i] = s[i]
              /\ i >= k => RemoveAt(s, k)[i] = s[i + 1]
<1> DEFINE n == Len(s)
           front == SubSeq(s, 1, k - 1)
           back == SubSeq(s, k + 1, n)
<1>1. /\ front \in Seq(S) /\ Len(front) = k - 1
      /\ \A i \in 1..(k - 1) : front[i] = s[i]
  BY SubSeqProperties
<1>2. /\ back \in Seq(S) /\ Len(back) = n - k
      /\ \A i \in 1..(n - k) : back[i] = s[k + i]
  BY SubSeqProperties
<1>3. RemoveAt(s, k) = front \o back
  BY DEF RemoveAt
<1> HIDE DEF front, back
<1>4. /\ front \o back \in Seq(S)
      /\ Len(front \o back) = Len(front) + Len(back)
      /\ \A i \in 1..(Len(front) + Len(back)) :
           (front \o back)[i] = IF i <= Len(front) THEN front[i] ELSE back[i - Len(front)]
  BY <1>1, <1>2, ConcatProperties
<1>5. ASSUME NEW i \in 1..(n - 1), i < k PROVE (front \o back)[i] = s[i]
  BY <1>1, <1>2, <1>4, <1>5
<1>6. ASSUME NEW i \in 1..(n - 1), i >= k PROVE (front \o back)[i] = s[i + 1]
  <2>1. i - (k - 1) \in 1..(n - k) /\ k + (i - (k - 1)) = i + 1
    BY <1>6
  <2>2. back[i - (k - 1)] = s[k + (i - (k - 1))]
    BY <1>2, <2>1
  <2>3. (front \o back)[i] = back[i - (k - 1)]
    BY <1>1, <1>2, <1>4, <1>6
  <2> QED BY <2>1, <2>2, <2>3
<1> QED BY <1>1, <1>2, <1>3, <1>4, <1>5, <1>6

(* A call is dropped where it waits: it leaves the queue or the lock.      *)
LEMMA DropCall ==
  ASSUME LockOK, NEW c \in Callers, TimesOut(c) PROVE LockOK'
<1> USE DEF LockOK, TimesOut
<1>1. CASE pc[c] = "locking"
  <2>1. PICK k \in DOMAIN waiters : waiters[k] = c /\ waiters' = RemoveAt(waiters, k)
    BY <1>1 DEF LeaveQueue
  <2> DEFINE n == Len(waiters)
             old(i) == IF i < k THEN i ELSE i + 1
  <2>2. n \in Nat /\ k \in 1..n
    BY <2>1
  <2>5. waiters' \in Seq(Callers) /\ DOMAIN waiters' = 1..(n - 1)
    BY <2>1, <2>2, Removed
  <2>6. ASSUME NEW i \in 1..(n - 1) PROVE waiters'[i] = waiters[old(i)]
    <3>1. waiters \in Seq(Callers) /\ k \in 1..Len(waiters)
      BY <2>2
    <3>2. \A j \in 1..(Len(waiters) - 1) :
            /\ j < k => RemoveAt(waiters, k)[j] = waiters[j]
            /\ j >= k => RemoveAt(waiters, k)[j] = waiters[j + 1]
      <4> HIDE DEF LockOK, TimesOut
      <4> QED BY <3>1, Removed
    <3>3. waiters' = RemoveAt(waiters, k)
      BY <2>1
    <3> HIDE DEF LockOK, TimesOut
    <3> QED BY <2>2, <3>2, <3>3
  <2>7. \A i \in 1..(n - 1) : old(i) \in DOMAIN waiters /\ old(i) # k
    BY <2>2
  <2>8. \A i, j \in 1..(n - 1) : waiters'[i] = waiters'[j] => i = j
    BY <2>2, <2>6, <2>7
  <2>9. ASSUME NEW d \in Callers
        PROVE  pc'[d] = "locking" <=> \E i \in DOMAIN waiters' : waiters'[i] = d
    <3>1. CASE d = c
      BY <2>1, <2>5, <2>6, <2>7, <3>1
    <3>2. CASE d # c
      <4>1. ASSUME NEW i \in DOMAIN waiters, waiters[i] = d
            PROVE  \E j \in 1..(n - 1) : waiters'[j] = d
        <5>1. i # k /\ i \in 1..n
          BY <2>1, <3>2, <4>1
        <5>2. CASE i < k
          BY <5>1, <5>2, <2>2, <2>6, <4>1
        <5>3. CASE i > k
          <6>1. i - 1 \in 1..(n - 1) /\ old(i - 1) = i
            BY <5>1, <5>3, <2>2
          <6> QED BY <6>1, <2>6, <4>1
        <5> QED BY <5>1, <5>2, <5>3, <2>2
      <4>2. ASSUME NEW j \in 1..(n - 1), waiters'[j] = d
            PROVE  \E i \in DOMAIN waiters : waiters[i] = d
        BY <4>2, <2>6, <2>7
      <4>3. pc'[d] = pc[d]
        BY <3>2
      <4> QED BY <4>1, <4>2, <4>3, <2>5
    <3> QED BY <3>1, <3>2
  <2>10. holder # c
    BY <1>1
  <2>11. holder' = holder
    BY <2>10
  <2>12. \A d \in Callers : (pc'[d] = "idle" <=> op'[d] = None) /\ (pc'[d] = "holding" <=> holder' = d)
    BY <1>1, <2>10, <2>11
  <2> HIDE DEF n, old
  <2>13. \A i, j \in DOMAIN waiters' : waiters'[i] = waiters'[j] => i = j
    BY <2>5, <2>8
  <2>14. /\ pc' \in [Callers -> {"idle", "called", "locking", "holding"}]
         /\ op' \in [Callers -> Calls \cup {None}]
    OBVIOUS
  <2> QED BY <2>5, <2>9, <2>11, <2>12, <2>13, <2>14
<1>2. CASE pc[c] # "locking"
  BY <1>2 DEF LeaveQueue
<1> QED BY <1>1, <1>2

-----------------------------------------------------------------------------
(* The items                                                               *)

(* A longer history admits the same items.                                 *)
LEMMA Wider ==
  ASSUME NEW k \in Nat, NEW s \in Seq(1..k)
  PROVE  s \in Seq(1..(k + 1)) /\ s \in Seq(0..k) /\ s \in Seq(Nat)
<1>1. 1..k \subseteq 1..(k + 1) /\ 1..k \subseteq 0..k /\ 1..k \subseteq Nat
  OBVIOUS
<1> QED BY <1>1, SeqMonotonic

(* The same for the stash, which may also hold the end of the stream.      *)
LEMMA WiderStash ==
  ASSUME NEW k \in Nat, NEW s \in Seq(0..k)
  PROVE  s \in Seq(0..(k + 1)) /\ s \in Seq(Nat)
<1>1. 0..k \subseteq 0..(k + 1) /\ 0..k \subseteq Nat
  OBVIOUS
<1> QED BY <1>1, SeqMonotonic

(* A stash is empty or one item; what it holds for a caller is an item.    *)
LEMMA StashItems ==
  ASSUME NEW k \in Nat, NEW s \in Seq(0..k), Len(s) <= 1
  PROVE  Items(s) \in Seq(1..k)
<1>1. CASE s = <<>>
  BY <1>1 DEF Items
<1>2. CASE s # <<>>
  <2>1. Len(s) = 1 /\ s[1] \in 0..k
    BY <1>2
  <2>2. CASE s[1] = 0
    <3>1. s = <<0>>
      BY <2>1, <2>2
    <3> QED BY <3>1 DEF Items
  <2>3. CASE s[1] # 0
    <3>1. s # <<0>>
      BY <2>3
    <3>2. s[1] \in 1..k
      BY <2>1, <2>3
    <3>3. \A i \in 1..Len(s) : s[i] \in 1..k
      BY <2>1, <3>2
    <3>4. s \in Seq(1..k)
      BY <3>3
    <3> QED BY <3>1, <3>4 DEF Items
  <2> QED BY <2>2, <2>3
<1> QED BY <1>1, <1>2

(* The handle produces the next item.                                      *)
LEMMA ProduceItems ==
  ASSUME ItemsOK, NEW kind \in {"value", "error"}, Produce(kind),
         UNCHANGED <<stashed, got>>
  PROVE  /\ kinds' \in Seq({"value", "error"})
         /\ stream' \in Seq(1..Len(kinds'))
         /\ stashed' \in Seq(0..Len(kinds')) /\ Len(stashed') <= 1
         /\ got' \in Seq(1..Len(kinds'))
<1> USE DEF ItemsOK, Produce
<1>1. kinds' \in Seq({"value", "error"}) /\ Len(kinds') = Len(kinds) + 1
  OBVIOUS
<1>2. Len(kinds) \in Nat
  OBVIOUS
<1>3. stream \in Seq(1..(Len(kinds) + 1)) /\ got \in Seq(1..(Len(kinds) + 1))
  BY <1>2, Wider
<1>4. stashed \in Seq(0..(Len(kinds) + 1))
  BY <1>2, WiderStash
<1>5. stream' \in Seq(1..(Len(kinds) + 1))
  BY <1>2, <1>3
<1> QED BY <1>1, <1>3, <1>4, <1>5

(* A pull takes the first item.                                            *)
LEMMA TakeOneItems ==
  ASSUME ItemsOK, TakeOne
  PROVE  /\ stream' \in Seq(1..Len(kinds))
         /\ stashed' \in Seq(0..Len(kinds)) /\ Len(stashed') <= 1
         /\ got' \in Seq(1..Len(kinds))
<1> DEFINE k == Len(kinds)
<1>1. k \in Nat
  BY DEF ItemsOK
<1>2. CASE stashed # <<>>
  <2>1. Items(stashed) \in Seq(1..k)
    BY <1>1, StashItems DEF ItemsOK
  <2>2. stashed' = <<>> /\ got' = got \o Items(stashed) /\ stream' = stream
    BY <1>2 DEF TakeOne
  <2>3. got \o Items(stashed) \in Seq(1..k)
    BY <2>1 DEF ItemsOK
  <2> QED BY <2>2, <2>3 DEF ItemsOK
<1>3. CASE stashed = <<>> /\ stream # <<>>
  <2>1. Head(stream) \in 1..k /\ Tail(stream) \in Seq(1..k)
    BY <1>3 DEF ItemsOK
  <2>2. UNCHANGED stashed /\ got' = Append(got, Head(stream)) /\ stream' = Tail(stream)
    BY <1>3 DEF TakeOne
  <2> QED BY <2>1, <2>2 DEF ItemsOK
<1>4. CASE stashed = <<>> /\ stream = <<>>
  <2>1. UNCHANGED <<got, stream, stashed>>
    BY <1>4 DEF TakeOne
  <2> QED BY <2>1 DEF ItemsOK
<1> QED BY <1>2, <1>3, <1>4

(* A batch takes the first n and stashes at most the one behind them.      *)
LEMMA TakeRunItems ==
  ASSUME ItemsOK, stashed = <<>>, NEW n \in 0..Len(stream), TakeRun(n)
  PROVE  /\ stream' \in Seq(1..Len(kinds))
         /\ stashed' \in Seq(0..Len(kinds)) /\ Len(stashed') <= 1
         /\ got' \in Seq(1..Len(kinds))
<1> DEFINE k == Len(kinds)
           l == Len(stream)
<1>1. k \in Nat /\ l \in Nat /\ stream \in Seq(1..k) /\ got \in Seq(1..k)
  BY DEF ItemsOK
<1>2. \A i \in 1..l : stream[i] \in 1..k
  BY <1>1
<1>3. ASSUME NEW a \in 1..(l + 1), NEW b \in 0..l PROVE SubSeq(stream, a, b) \in Seq(1..k)
  <2>1. \A i \in a..b : stream[i] \in 1..k
    BY <1>1, <1>2
  <2> QED BY <2>1, SubSeqProperties
<1>4. got' \in Seq(1..k)
  BY <1>1, <1>3 DEF TakeRun
<1>5. CASE n < MaxBatch /\ n < Len(stream)
  <2>1. stream' \in Seq(1..k)
    <3>1. stream' = SubSeq(stream, (n + 1) + 1, l)
      BY <1>5 DEF TakeRun, After
    <3>2. (n + 1) + 1 \in 1..(l + 1) /\ l \in 0..l
      BY <1>1, <1>5
    <3> HIDE DEF k, l
    <3> QED BY <1>3, <3>1, <3>2
  <2>2. stashed' = <<stream[n + 1]>> /\ stream[n + 1] \in 0..k
    BY <1>1, <1>2, <1>5 DEF TakeRun, Stash
  <2> QED BY <1>4, <2>1, <2>2
<1>6. CASE ~(n < MaxBatch /\ n < Len(stream))
  <2>1. stream' \in Seq(1..k)
    <3>1. stream' = SubSeq(stream, n + 1, l)
      BY <1>6 DEF TakeRun, After
    <3>2. n + 1 \in 1..(l + 1) /\ l \in 0..l
      BY <1>1
    <3> HIDE DEF k, l
    <3> QED BY <1>3, <3>1, <3>2
  <2>2. stashed' = <<0>> \/ stashed' = <<>>
    BY <1>6 DEF TakeRun, Stash
  <2>3. stashed' \in Seq(0..k) /\ Len(stashed') <= 1
    <3>1. 0 \in 0..k
      BY <1>1
    <3>2. CASE stashed' = <<0>>
      BY <3>1, <3>2
    <3>3. CASE stashed' = <<>>
      BY <3>3, EmptySeq
    <3> QED BY <2>2, <3>2, <3>3
  <2> QED BY <1>4, <2>1, <2>3
<1> QED BY <1>5, <1>6

(* Every step keeps items, stash and queue in range.                       *)
LEMMA ItemsStep == ItemsOK /\ [Next]_vars => ItemsOK'
<1> SUFFICES ASSUME ItemsOK, [Next]_vars PROVE ItemsOK'
  OBVIOUS
<1> USE DEF slotVars, handleVars, callVars
<1>1. ASSUME NEW kind \in {"value", "error"}, Arrive(kind) PROVE ItemsOK'
  <2>1. CASE Produce(kind)
    BY <1>1, <2>1, ProduceItems DEF Arrive, ItemsOK
  <2>2. CASE UNCHANGED <<kinds, stream>> /\ (held' = TRUE \/ UNCHANGED held)
    BY <1>1, <2>2 DEF Arrive, ItemsOK
  <2> QED BY <1>1, <2>1, <2>2 DEF Arrive
<1>2. CASE HandleEnds
  BY <1>2 DEF HandleEnds, ItemsOK
<1>3. CASE Acquire
  BY <1>3 DEF Acquire, ItemsOK
<1>4. ASSUME NEW c \in Callers, NEW o \in Ops, Call(c, o) PROVE ItemsOK'
  BY <1>4 DEF Call, Cancel, ItemsOK
<1>5. ASSUME NEW c \in Callers, LockSlot(c) \/ TimesOut(c) \/ PullNone(c) PROVE ItemsOK'
  BY <1>5 DEF LockSlot, TimesOut, PullNone, ItemsOK
<1>6. ASSUME NEW c \in Callers, Recv(c) PROVE ItemsOK'
  BY <1>6, TakeOneItems DEF Recv, ItemsOK
<1>7. ASSUME NEW c \in Callers, RecvBatch(c) PROVE ItemsOK'
  <2>1. PICK n \in 0..Len(stream) : IF stashed = <<>> /\ n > 0 THEN TakeRun(n) ELSE TakeOne
    BY <1>7 DEF RecvBatch
  <2>2. /\ stream' \in Seq(1..Len(kinds))
        /\ stashed' \in Seq(0..Len(kinds)) /\ Len(stashed') <= 1
        /\ got' \in Seq(1..Len(kinds))
    BY <2>1, TakeOneItems, TakeRunItems
  <2>3. UNCHANGED <<kinds, ended, paused, held, present, closed, shut>>
    BY <1>7 DEF RecvBatch
  <2> QED BY <2>2, <2>3 DEF ItemsOK
<1>8. ASSUME NEW c \in Callers, With(c) PROVE ItemsOK'
  <2>1. UNCHANGED <<ended, stashed, present, closed, got, shut>>
    BY <1>8 DEF With
  <2>2. paused' \in BOOLEAN
    BY <1>8 DEF With, ItemsOK
  <2>3. CASE Produce("value") /\ held' = FALSE
    BY <2>1, <2>2, <2>3, ProduceItems DEF ItemsOK
  <2>4. CASE UNCHANGED <<kinds, stream, held>>
    BY <2>1, <2>2, <2>4 DEF ItemsOK
  <2> QED BY <1>8, <2>3, <2>4 DEF With
<1>9. ASSUME NEW c \in Callers, Close(c) PROVE ItemsOK'
  <2>1. /\ UNCHANGED <<kinds, ended, paused, held, closed, got>>
        /\ present' = FALSE /\ shut' = TRUE /\ stream' = <<>> /\ stashed' = <<>>
    BY <1>9 DEF Close, TakeMonitor
  <2>2. {ended', paused', held', present', closed', shut'} \subseteq BOOLEAN
    BY <2>1 DEF ItemsOK
  <2>3. kinds' \in Seq({"value", "error"}) /\ got' \in Seq(1..Len(kinds'))
    BY <2>1 DEF ItemsOK
  <2>4. stream' \in Seq(1..Len(kinds')) /\ stashed' \in Seq(0..Len(kinds')) /\ Len(stashed') <= 1
    BY <2>1, EmptySeq
  <2> QED BY <2>2, <2>3, <2>4 DEF ItemsOK
<1>10. CASE UNCHANGED vars
  BY <1>10 DEF vars, ItemsOK
<1> QED
  BY <1>1, <1>2, <1>3, <1>4, <1>5, <1>6, <1>7, <1>8, <1>9, <1>10 DEF Next, CallStep

(* Every step keeps the lock and its queue in order.                       *)
LEMMA LockStep == LockOK /\ [Next]_vars => LockOK'
<1> SUFFICES ASSUME LockOK, [Next]_vars PROVE LockOK'
  OBVIOUS
<1>1. ASSUME NEW kind \in {"value", "error"}, Arrive(kind) PROVE LockOK'
  BY <1>1, LockKept DEF Arrive
<1>2. CASE HandleEnds
  BY <1>2, LockKept DEF HandleEnds
<1>3. ASSUME NEW c \in Callers, NEW o \in Ops, Call(c, o) PROVE LockOK'
  BY <1>3 DEF Call, LockOK
<1>4. ASSUME NEW c \in Callers, Recv(c) \/ RecvBatch(c) \/ PullNone(c) \/ With(c) \/ Close(c)
      PROVE  LockOK'
  <2>1. pc[c] = "holding" /\ Release(c)
    BY <1>4 DEF Recv, RecvBatch, PullNone, With, Close, Parked
  <2> QED BY <2>1, ReleaseLock
<1>5. CASE UNCHANGED vars
  BY <1>5, LockKept DEF vars
<1> QED
  BY <1>1, <1>2, <1>3, <1>4, <1>5, JoinLock, TakeLock, DropCall DEF Next, CallStep

(* Shape of the state: the lock of the slot has one holder, a caller waits *)
(* for it in one place of its queue, and the stash is at most one item,    *)
(* for any number of callers and any way their calls are dropped.          *)
THEOREM TypeCorrect == Spec => []TypeOK
<1>1. Init => TypeOK
  <2>1. Init => ItemsOK
    <3> SUFFICES ASSUME Init PROVE ItemsOK
      OBVIOUS
    <3>1. {ended, paused, held, present, closed, shut} \subseteq BOOLEAN
      BY DEF Init
    <3>2. kinds \in Seq({"value", "error"})
      BY EmptySeq DEF Init
    <3>3. stream \in Seq(1..Len(kinds)) /\ got \in Seq(1..Len(kinds))
      BY EmptySeq DEF Init
    <3>4. stashed \in Seq(0..Len(kinds)) /\ Len(stashed) <= 1
      BY EmptySeq DEF Init
    <3> QED BY <3>1, <3>2, <3>3, <3>4 DEF ItemsOK
  <2>2. Init => LockOK
    BY DEF Init, LockOK
  <2> QED BY <2>1, <2>2 DEF TypeOK
<1>2. TypeOK /\ [Next]_vars => TypeOK'
  BY ItemsStep, LockStep DEF TypeOK
<1> QED BY <1>1, <1>2, PTL DEF Spec

-----------------------------------------------------------------------------
(* Nothing lost                                                            *)

(* Appending to the right part appends to the whole.                       *)
LEMMA ConcatAppend ==
  ASSUME NEW S, NEW s \in Seq(S), NEW t \in Seq(S), NEW e \in S
  PROVE  s \o Append(t, e) = Append(s \o t, e)
<1>1. <<e>> \in Seq(S)
  OBVIOUS
<1>2. s \o t \in Seq(S)
  BY ConcatProperties
<1>3. Append(t, e) = t \o <<e>> /\ Append(s \o t, e) = (s \o t) \o <<e>>
  BY <1>2, AppendIsConcat
<1>4. (s \o t) \o <<e>> = s \o (t \o <<e>>)
  BY <1>1, ConcatAssociative
<1> QED BY <1>3, <1>4

(* Concatenation may be regrouped.                                         *)
LEMMA Regroup == \A s, t, u \in Seq(Nat) : (s \o t) \o u = s \o (t \o u)
<1> TAKE s, t, u \in Seq(Nat)
<1> QED BY ConcatAssociative

(* A sequence is its first element and the rest.                           *)
LEMMA HeadThenTail ==
  ASSUME NEW S, NEW s \in Seq(S), s # <<>>
  PROVE  s = <<Head(s)>> \o Tail(s)
<1>1. Len(s) \in Nat /\ Len(s) >= 1
  BY EmptySeq
<1>2. 1 \in 1..Len(s) /\ Len(s) \in 1..Len(s)
  BY <1>1
<1>3. SubSeq(s, 1, Len(s)) = <<s[1]>> \o SubSeq(s, 1 + 1, Len(s))
  BY <1>2, SubSeqRecursiveFirst
<1>4. SubSeq(s, 1, Len(s)) = s /\ Tail(s) = SubSeq(s, 2, Len(s))
  BY SubSeqFull, TailIsSubSeq
<1>5. Head(s) = s[1] /\ 1 + 1 = 2
  OBVIOUS
<1> QED BY <1>3, <1>4, <1>5

(* One more item is one more number.                                       *)
LEMMA NumbersGrow ==
  ASSUME NEW K, NEW s \in Seq(K), NEW e \in K
  PROVE  [n \in DOMAIN Append(s, e) |-> n] = Append([n \in DOMAIN s |-> n], Len(s) + 1)
<1> DEFINE k == Len(s)
           old == [n \in 1..k |-> n]
           new == [n \in 1..(k + 1) |-> n]
<1>1. k \in Nat /\ DOMAIN s = 1..k /\ DOMAIN Append(s, e) = 1..(k + 1)
  OBVIOUS
<1> HIDE DEF k
<1>2. old \in Seq(Nat) /\ Len(old) = k
  BY <1>1
<1>3. new \in Seq(Nat) /\ Len(new) = k + 1
  BY <1>1
<1>4. /\ Append(old, k + 1) \in Seq(Nat)
      /\ Len(Append(old, k + 1)) = k + 1
      /\ \A i \in 1..k : Append(old, k + 1)[i] = old[i]
      /\ Append(old, k + 1)[k + 1] = k + 1
  BY <1>1, <1>2, AppendProperties
<1>5. ASSUME NEW i \in 1..(k + 1) PROVE new[i] = Append(old, k + 1)[i]
  BY <1>1, <1>4
<1>6. new = Append(old, k + 1)
  BY <1>3, <1>4, <1>5, SeqEqual
<1> QED BY <1>1, <1>6 DEF k

Whole == got \o Items(stashed) \o stream

(* The three pieces of Whole are sequences of numbers.                     *)
LEMMA WholeTypes ==
  ASSUME ItemsOK
  PROVE  got \in Seq(Nat) /\ Items(stashed) \in Seq(Nat) /\ stream \in Seq(Nat)
<1>1. Len(kinds) \in Nat
  BY DEF ItemsOK
<1>2. Items(stashed) \in Seq(1..Len(kinds))
  BY <1>1, StashItems DEF ItemsOK
<1> QED BY <1>1, <1>2, Wider DEF ItemsOK

(* An item the handle produces comes last.                                 *)
LEMMA ProduceKept ==
  ASSUME ItemsOK, Whole = [n \in DOMAIN kinds |-> n],
         NEW kind \in {"value", "error"}, Produce(kind), UNCHANGED <<stashed, got>>
  PROVE  Whole' = [n \in DOMAIN kinds' |-> n]
<1> DEFINE taken == got \o Items(stashed)
<1>1. taken \in Seq(Nat) /\ stream \in Seq(Nat) /\ Len(kinds) + 1 \in Nat
  BY WholeTypes, ConcatProperties DEF ItemsOK
<1>2. Whole' = taken \o Append(stream, Len(kinds) + 1)
  BY DEF Whole, Items, Produce
<1>3. Whole = taken \o stream
  BY DEF Whole
<1> HIDE DEF taken
<1>4. Whole' = Append(Whole, Len(kinds) + 1)
  BY <1>1, <1>2, <1>3, ConcatAppend
<1>5. kinds \in Seq({"value", "error"}) /\ kinds' = Append(kinds, kind)
  BY DEF ItemsOK, Produce
<1>6. [n \in DOMAIN Append(kinds, kind) |-> n]
        = Append([n \in DOMAIN kinds |-> n], Len(kinds) + 1)
  BY <1>5, NumbersGrow
<1> QED BY <1>4, <1>5, <1>6

(* Taking one item, of the stash or the queue, only moves it.              *)
LEMMA TakeOneKept ==
  ASSUME ItemsOK, TakeOne PROVE Whole' = Whole
<1>0. got \in Seq(Nat) /\ Items(stashed) \in Seq(Nat) /\ stream \in Seq(Nat)
  BY WholeTypes
<1>1. CASE stashed # <<>>
  <2>1. stashed' = <<>> /\ got' = got \o Items(stashed) /\ stream' = stream
    BY <1>1 DEF TakeOne
  <2>2. Whole' = ((got \o Items(stashed)) \o <<>>) \o stream
    BY <2>1 DEF Whole, Items
  <2>3. got \o Items(stashed) \in Seq(Nat)
    BY <1>0, ConcatProperties
  <2>4. (got \o Items(stashed)) \o <<>> = got \o Items(stashed)
    BY <2>3, ConcatEmptySeq
  <2> QED BY <2>2, <2>4 DEF Whole
<1>2. CASE stashed = <<>> /\ stream # <<>>
  <2>1. stashed' = <<>> /\ got' = Append(got, Head(stream)) /\ stream' = Tail(stream)
    BY <1>2 DEF TakeOne
  <2>2. /\ Head(stream) \in Nat /\ Tail(stream) \in Seq(Nat)
        /\ <<Head(stream)>> \in Seq(Nat) /\ got' \in Seq(Nat)
    BY <1>0, <1>2, <2>1, HeadTailProperties, AppendProperties
  <2>3. Whole = got \o stream
    BY <1>0, <1>2, ConcatEmptySeq DEF Whole, Items
  <2>4. Whole' = got' \o Tail(stream)
    BY <2>1, <2>2, ConcatEmptySeq DEF Whole, Items
  <2>5. got' = got \o <<Head(stream)>>
    BY <1>0, <2>1, <2>2, AppendIsConcat
  <2>6. (got \o <<Head(stream)>>) \o Tail(stream) = got \o (<<Head(stream)>> \o Tail(stream))
    <3> DEFINE h == <<Head(stream)>>
               r == Tail(stream)
    <3>1. h \in Seq(Nat) /\ r \in Seq(Nat)
      BY <2>2
    <3> HIDE DEF h, r
    <3>2. (got \o h) \o r = got \o (h \o r)
      BY <1>0, <3>1, Regroup
    <3> QED BY <3>2 DEF h, r
  <2>7. <<Head(stream)>> \o Tail(stream) = stream
    BY <1>0, <1>2, HeadThenTail
  <2> QED BY <2>3, <2>4, <2>5, <2>6, <2>7
<1>3. CASE stashed = <<>> /\ stream = <<>>
  BY <1>3 DEF TakeOne, Whole, Items
<1> QED BY <1>1, <1>2, <1>3

(* Taking a run, and stashing the item behind it, only moves them.         *)
LEMMA TakeRunKept ==
  ASSUME ItemsOK, stashed = <<>>, NEW n \in 0..Len(stream), TakeRun(n)
  PROVE  Whole' = Whole
<1> DEFINE l == Len(stream)
           front == SubSeq(stream, 1, n)
           back == SubSeq(stream, n + 1, l)
<1>0. got \in Seq(Nat) /\ stream \in Seq(Nat) /\ l \in Nat /\ n \in Nat
  BY WholeTypes
<1>1. Whole = got \o stream
  BY <1>0, ConcatEmptySeq DEF Whole, Items
<1>2. \A i \in 1..l : stream[i] \in Nat
  BY <1>0
<1>3. front \in Seq(Nat) /\ back \in Seq(Nat)
  BY <1>0, <1>2, SubSeqProperties
<1>4. stream = front \o back
  <2>1. 1 \in 1..(l + 1) /\ n \in (1 - 1)..l /\ l \in n..l
    BY <1>0
  <2>2. SubSeq(stream, 1, n) \o SubSeq(stream, n + 1, l) = SubSeq(stream, 1, l)
    BY <1>0, <2>1, ConcatAdjacentSubSeq
  <2> QED BY <1>0, <2>2, SubSeqFull
<1>5. (got \o front) \o back = got \o stream
  <2> HIDE DEF front, back
  <2>1. (got \o front) \o back = got \o (front \o back)
    BY <1>0, <1>3, Regroup
  <2> QED BY <1>4, <2>1
<1>6. got' = got \o front /\ got' \in Seq(Nat)
  BY <1>0, <1>3, ConcatProperties DEF TakeRun
<1>7. CASE n < MaxBatch /\ n < Len(stream)
  <2> DEFINE e == stream[n + 1]
             rest == SubSeq(stream, (n + 1) + 1, l)
  <2>1. stashed' = <<e>> /\ stream' = rest
    BY <1>7 DEF TakeRun, Stash, After
  <2>2. n + 1 \in 1..l /\ l \in (n + 1)..l
    BY <1>0, <1>7
  <2>3. back = <<e>> \o rest
    BY <1>0, <2>2, SubSeqRecursiveFirst
  <2>4. e # 0 /\ e \in Nat
    BY <1>7, <2>2 DEF ItemsOK
  <2>5. rest \in Seq(Nat)
    BY <1>0, <1>2, SubSeqProperties
  <2>6. Items(stashed') = <<e>>
    BY <2>1, <2>4 DEF Items
  <2>7. Whole' = (got' \o <<e>>) \o rest
    BY <2>1, <2>6 DEF Whole, Items
  <2>8. (got' \o <<e>>) \o rest = got' \o (<<e>> \o rest)
    <3> DEFINE h == <<e>>
    <3>1. h \in Seq(Nat)
      BY <2>4
    <3> HIDE DEF h, rest
    <3>2. (got' \o h) \o rest = got' \o (h \o rest)
      BY <1>6, <2>5, <3>1, Regroup
    <3> QED BY <3>2 DEF h
  <2> QED BY <1>1, <1>5, <1>6, <2>3, <2>7, <2>8
<1>8. CASE ~(n < MaxBatch /\ n < Len(stream))
  <2>1. stream' = back /\ (stashed' = <<0>> \/ stashed' = <<>>)
    BY <1>8 DEF TakeRun, Stash, After
  <2>2. Whole' = (got' \o <<>>) \o back
    BY <2>1 DEF Whole, Items
  <2>3. got' \o <<>> = got'
    BY <1>6, ConcatEmptySeq
  <2> QED BY <1>1, <1>5, <1>6, <2>2, <2>3
<1> QED BY <1>7, <1>8

(* Every step keeps NothingLost.                                           *)
LEMMA KeptStep == ItemsOK /\ NothingLost /\ [Next]_vars => NothingLost'
<1> SUFFICES ASSUME ItemsOK, NothingLost, [Next]_vars, present' PROVE Whole' = [n \in DOMAIN kinds' |-> n]
  BY DEF NothingLost, Whole
<1> USE DEF slotVars, handleVars, callVars
<1>0. /\ present => Whole = [n \in DOMAIN kinds |-> n]
      /\ UNCHANGED <<stashed, stream, got>> => Whole' = Whole
  BY DEF NothingLost, Whole, Items
<1>1. ASSUME NEW kind \in {"value", "error"}, Arrive(kind)
      PROVE  Whole' = [n \in DOMAIN kinds' |-> n]
  <2>1. present /\ UNCHANGED <<stashed, got>>
    BY <1>1 DEF Arrive
  <2>2. CASE Produce(kind)
    BY <1>0, <2>1, <2>2, ProduceKept
  <2>3. CASE UNCHANGED <<kinds, stream>>
    BY <1>0, <2>1, <2>3
  <2> QED BY <1>1, <2>2, <2>3 DEF Arrive
<1>2. CASE HandleEnds \/ Acquire
  BY <1>0, <1>2 DEF HandleEnds, Acquire
<1>3. ASSUME NEW c \in Callers, NEW o \in Ops, Call(c, o)
      PROVE  Whole' = [n \in DOMAIN kinds' |-> n]
  BY <1>0, <1>3 DEF Call
<1>4. ASSUME NEW c \in Callers, LockSlot(c) \/ TimesOut(c) \/ PullNone(c)
      PROVE  Whole' = [n \in DOMAIN kinds' |-> n]
  BY <1>0, <1>4 DEF LockSlot, TimesOut, PullNone
<1>5. ASSUME NEW c \in Callers, Recv(c) PROVE Whole' = [n \in DOMAIN kinds' |-> n]
  <2>1. TakeOne /\ present /\ kinds' = kinds
    BY <1>5 DEF Recv, Parked
  <2> QED BY <1>0, <2>1, TakeOneKept
<1>6. ASSUME NEW c \in Callers, RecvBatch(c) PROVE Whole' = [n \in DOMAIN kinds' |-> n]
  <2>1. present /\ kinds' = kinds
    BY <1>6 DEF RecvBatch, Parked
  <2>2. PICK n \in 0..Len(stream) : IF stashed = <<>> /\ n > 0 THEN TakeRun(n) ELSE TakeOne
    BY <1>6 DEF RecvBatch
  <2>3. Whole' = Whole
    BY <2>2, TakeOneKept, TakeRunKept
  <2> QED BY <1>0, <2>1, <2>3
<1>7. ASSUME NEW c \in Callers, With(c) PROVE Whole' = [n \in DOMAIN kinds' |-> n]
  <2>1. present /\ UNCHANGED <<stashed, got>>
    BY <1>7 DEF With
  <2>2. CASE Produce("value")
    BY <1>0, <2>1, <2>2, ProduceKept
  <2>3. CASE UNCHANGED <<kinds, stream>>
    BY <1>0, <2>1, <2>3
  <2> QED BY <1>7, <2>2, <2>3 DEF With
<1>8. ASSUME NEW c \in Callers, Close(c) PROVE FALSE
  BY <1>8 DEF Close, TakeMonitor
<1>9. CASE UNCHANGED vars
  BY <1>0, <1>9 DEF vars
<1> QED
  BY <1>1, <1>2, <1>3, <1>4, <1>5, <1>6, <1>7, <1>8, <1>9 DEF Next, CallStep

(* recv and recv_batch hand out what the handle produced, each item once,  *)
(* oldest first: the item a batch had to poll and could not fold in waits  *)
(* in the stash, whichever call comes next and whatever was dropped.       *)
THEOREM ItemsKept == Spec => []NothingLost
<1>1. Init => NothingLost
  <2> SUFFICES ASSUME Init PROVE Whole = [n \in DOMAIN kinds |-> n]
    BY DEF NothingLost, Whole
  <2>1. Whole = (<<>> \o <<>>) \o <<>> /\ <<>> \in Seq(Nat)
    BY EmptySeq DEF Init, Whole, Items
  <2>2. Whole = <<>>
    BY <2>1, ConcatEmptySeq
  <2>3. [n \in DOMAIN kinds |-> n] = <<>>
    BY DEF Init
  <2> QED BY <2>2, <2>3
<1>2. Spec => []ItemsOK
  BY TypeCorrect, PTL DEF TypeOK
<1> QED BY <1>1, <1>2, KeptStep, PTL DEF Spec

-----------------------------------------------------------------------------
(* The bridge of src/runtime.rs, over which repics.ca.asyncio awaits the   *)
(* calls above and any others: its theorems for any finite set of awaited  *)
(* calls, of which any may be endless.  The count of owed outcomes is      *)
(* inductive by itself; that a future is settled once, and that exit finds *)
(* no thread attached, need to know what each place a call can be in says  *)
(* about the others.                                                       *)

OwingSet == {c \in Awaited : Owing(c)}

Shape ==
  /\ rust \in [Awaited -> {"none", "running", "ended", "checked", "attached", "over"}]
  /\ child \in [Awaited -> {"none", "running", "attached", "over"}]
  /\ outcome \in [Awaited -> {"none", "value", "error", "dropped"}]
  /\ fut \in [Awaited -> {"none", "pending", "settled", "cancelled"}]
  /\ relay \in [Awaited -> {"idle", "called", "sent"}]
  /\ posted \subseteq Awaited /\ after \subseteq Awaited
  /\ loop \in {"open", "closed"} /\ exit \in {"no", "waiting", "idle", "late"}
  /\ finalized \in BOOLEAN

\* Where a call can be with what outcome.
Places(c) ==
  /\ fut[c] = "none" => rust[c] = "none" /\ child[c] = "none"
  /\ child[c] \in {"running", "attached"} => rust[c] = "running" \/ outcome[c] = "dropped"
  /\ rust[c] = "ended" => outcome[c] # "none"
  /\ rust[c] \in {"checked", "attached"} => outcome[c] \in Outcomes
  /\ c \in posted => rust[c] = "over" /\ outcome[c] \in Outcomes
  /\ fut[c] = "settled" => ~Owing(c) /\ outcome[c] \in Outcomes

\* What wait_idle saw stays true of the calls made before it returned.
IdleHolds == exit = "idle" => \A c \in Awaited \ after : ~Owing(c)

BridgeInv == Shape /\ OwedCounted /\ (\A c \in Awaited : Places(c)) /\ IdleHolds

-----------------------------------------------------------------------------
\* The owed calls are finitely many, so they can be counted.
LEMMA OwingFinite ==
  IsFiniteSet(OwingSet) /\ Cardinality(OwingSet) \in Nat
    /\ Cardinality(OwingSet) <= Cardinality(Awaited)
<1>1. OwingSet \subseteq Awaited
  BY DEF OwingSet
<1>2. QED
  BY <1>1, BridgeAssumption, FS_Subset, FS_CardinalityType

\* hand_to_asyncio takes one guard for the call.
LEMMA CountsUp ==
  ASSUME NEW c \in Awaited, Shape, OwedCounted, ~Owing(c),
         rust' = [rust EXCEPT ![c] = "running"], owed' = owed + 1
  PROVE  OwedCounted'
<1>1. OwingSet' = OwingSet \cup {c}
  BY DEF OwingSet, Owing, Shape
<1>2. c \notin OwingSet
  BY DEF OwingSet
<1>3. Cardinality(OwingSet') = Cardinality(OwingSet) + 1
  BY <1>1, <1>2, OwingFinite, FS_AddElement
<1>4. QED
  BY <1>3 DEF OwedCounted, OwingSet

\* The drop of the guard gives it back.
LEMMA CountsDown ==
  ASSUME NEW c \in Awaited, Shape, OwedCounted, Owing(c), DropGuard(c)
  PROVE  OwedCounted'
<1>1. OwingSet' = OwingSet \ {c}
  BY DEF OwingSet, Owing, Shape, DropGuard
<1>2. c \in OwingSet
  BY DEF OwingSet
<1>3. Cardinality(OwingSet') = Cardinality(OwingSet) - 1
  BY <1>1, <1>2, OwingFinite, FS_RemoveElement
<1>4. QED
  BY <1>3 DEF OwedCounted, OwingSet, DropGuard

\* A call may move between two places in which its outcome is owed.
LEMMA CountStays ==
  ASSUME OwedCounted, owed' = owed, \A c \in Awaited : Owing(c)' <=> Owing(c)
  PROVE  OwedCounted'
<1>1. OwingSet' = OwingSet
  BY DEF OwingSet
<1>2. QED
  BY <1>1 DEF OwedCounted, OwingSet

\* Nothing owed: nobody owes.
LEMMA NothingOwed ==
  ASSUME OwedCounted, owed = 0
  PROVE  \A c \in Awaited : ~Owing(c)
<1>1. Cardinality(OwingSet) = 0
  BY DEF OwedCounted, OwingSet
<1>2. OwingSet = {}
  BY <1>1, OwingFinite, FS_EmptySet
<1>3. QED
  BY <1>2 DEF OwingSet

-----------------------------------------------------------------------------
LEMMA BridgeStarts == BridgeInit => BridgeInv
<1>1. SUFFICES ASSUME BridgeInit PROVE BridgeInv
  OBVIOUS
<1>2. OwingSet = {}
  BY <1>1 DEF BridgeInit, OwingSet, Owing
<1>3. OwedCounted
  BY <1>1, <1>2, FS_EmptySet DEF BridgeInit, OwedCounted, OwingSet
<1>4. QED
  BY <1>1, <1>3 DEF BridgeInit, BridgeInv, Shape, Places, Owing, IdleHolds

\* One step of the runtime, the loop or the exit keeps the count and the places.
LEMMA BridgeStep == BridgeInv /\ [BridgeNext]_bridgeVars => BridgeInv'
<1> SUFFICES ASSUME BridgeInv, [BridgeNext]_bridgeVars PROVE BridgeInv'
  OBVIOUS
<1> USE DEF BridgeInv
<1>1. ASSUME NEW c \in Awaited, NEW o \in Outcomes, Inline(c, o) PROVE BridgeInv'
  <2>1. OwedCounted'
    BY <1>1, CountStays DEF Inline, Owing
  <2>2. QED
    BY <1>1, <2>1 DEF Inline, Shape, Places, Owing, IdleHolds, Outcomes
<1>2. ASSUME NEW c \in Awaited, HandOver(c) PROVE BridgeInv'
  <2>1. ~Owing(c)
    BY <1>2 DEF HandOver, Places, Owing
  <2>2. OwedCounted'
    BY <1>2, <2>1, CountsUp DEF HandOver
  <2>3. QED
    BY <1>2, <2>2 DEF HandOver, Shape, Places, Owing, IdleHolds, Outcomes
<1>3. ASSUME NEW c \in Awaited, NEW o \in Outcomes, Completes(c, o) PROVE BridgeInv'
  <2>1. OwedCounted'
    BY <1>3, CountStays DEF Completes, Owing, Shape
  <2>2. QED
    BY <1>3, <2>1 DEF Completes, Shape, Places, Owing, IdleHolds, Outcomes
<1>4. ASSUME NEW c \in Awaited, Dropped(c) PROVE BridgeInv'
  <2>1. OwedCounted'
    BY <1>4, CountStays DEF Dropped, Owing, Shape
  <2>2. QED
    BY <1>4, <2>1 DEF Dropped, Shape, Places, Owing, IdleHolds, Outcomes
<1>5. ASSUME NEW c \in Awaited, ChildAttaches(c) \/ ChildEnds(c) PROVE BridgeInv'
  <2>1. OwedCounted'
    BY <1>5, CountStays DEF ChildAttaches, ChildEnds, Owing
  <2>2. QED
    BY <1>5, <2>1 DEF ChildAttaches, ChildEnds, Shape, Places, Owing, IdleHolds, Outcomes
<1>6. ASSUME NEW c \in Awaited, Checks(c) PROVE BridgeInv'
  <2>1. CASE outcome[c] = "dropped" \/ finalized
    <3>1. Owing(c) /\ DropGuard(c)
      BY <1>6, <2>1 DEF Checks, Owing
    <3>2. OwedCounted'
      BY <3>1, CountsDown
    <3>3. QED
      BY <1>6, <3>1, <3>2 DEF Checks, DropGuard, Shape, Places, Owing, IdleHolds, Outcomes
  <2>2. CASE ~(outcome[c] = "dropped" \/ finalized)
    <3>1. /\ rust[c] = "ended" /\ outcome[c] # "dropped"
          /\ rust' = [rust EXCEPT ![c] = "checked"]
          /\ UNCHANGED <<child, outcome, fut, relay, posted, owed, loop, exit, finalized, after>>
      BY <1>6, <2>2 DEF Checks
    <3>2. OwedCounted'
      BY <3>1, CountStays DEF Owing, Shape
    <3>3. outcome[c] \in Outcomes
      BY <3>1 DEF Shape, Places, Outcomes
    <3>4. QED
      BY <3>1, <3>2, <3>3 DEF Shape, Places, Owing, IdleHolds, Outcomes
  <2>3. QED
    BY <2>1, <2>2
<1>7. ASSUME NEW c \in Awaited, Attaches(c) PROVE BridgeInv'
  <2>1. OwedCounted'
    BY <1>7, CountStays DEF Attaches, Owing, Shape
  <2>2. QED
    BY <1>7, <2>1 DEF Attaches, Shape, Places, Owing, IdleHolds, Outcomes
<1>8. ASSUME NEW c \in Awaited, Posts(c) PROVE BridgeInv'
  <2>1. Owing(c) /\ DropGuard(c)
    BY <1>8 DEF Posts, Owing
  <2>2. OwedCounted'
    BY <2>1, CountsDown
  <2>3. QED
    BY <1>8, <2>1, <2>2 DEF Posts, DropGuard, Shape, Places, Owing, IdleHolds, Outcomes
<1>9. ASSUME NEW c \in Awaited, Settles(c) PROVE BridgeInv'
  <2>1. OwedCounted'
    BY <1>9, CountStays DEF Settles, Owing
  <2>2. QED
    BY <1>9, <2>1 DEF Settles, Shape, Places, Owing, IdleHolds, Outcomes
<1>10. ASSUME NEW c \in Awaited, Cancels(c) PROVE BridgeInv'
  <2>1. OwedCounted'
    BY <1>10, CountStays DEF Cancels, Owing
  <2>2. QED
    BY <1>10, <2>1 DEF Cancels, Shape, Places, Owing, IdleHolds, Outcomes
<1>11. ASSUME NEW c \in Awaited, Relays(c) PROVE BridgeInv'
  <2>1. OwedCounted'
    BY <1>11, CountStays DEF Relays, Owing
  <2>2. QED
    BY <1>11, <2>1 DEF Relays, Shape, Places, Owing, IdleHolds, Outcomes
<1>12. CASE Closes \/ Exit \/ Finalizes
  <2>1. OwedCounted'
    BY <1>12, CountStays DEF Closes, Exit, Finalizes, Owing
  <2>2. QED
    BY <1>12, <2>1 DEF Closes, Exit, Finalizes, OnLoop, Python, Shape, Places, Owing, IdleHolds, Outcomes
<1>13. ASSUME NEW late \in BOOLEAN, WaitIdle(late) PROVE BridgeInv'
  <2>1. OwedCounted'
    BY <1>13, CountStays DEF WaitIdle, Owing
  <2>2. owed = 0 => \A c \in Awaited : ~Owing(c)
    BY NothingOwed
  <2>3. QED
    BY <1>13, <2>1, <2>2 DEF WaitIdle, Shape, Places, Owing, IdleHolds, Outcomes
<1>14. CASE UNCHANGED bridgeVars
  <2>1. OwedCounted'
    BY <1>14, CountStays DEF bridgeVars, Owing
  <2>2. QED
    BY <1>14, <2>1 DEF bridgeVars, Shape, Places, Owing, IdleHolds, Outcomes
<1>15. QED
  BY <1>1, <1>2, <1>3, <1>4, <1>5, <1>6, <1>7, <1>8, <1>9, <1>10, <1>11, <1>12, <1>13, <1>14 DEF BridgeNext

\* The invariant, always.
LEMMA BridgeAlways == BridgeSpec => []BridgeInv
<1>1. QED
  BY BridgeStarts, BridgeStep, PTL DEF BridgeSpec

-----------------------------------------------------------------------------
\* The types of the variables; IN_FLIGHT (src/src/runtime.rs) never goes
\* below zero nor beyond the number of calls.
THEOREM BridgeTypes == BridgeSpec => []BridgeTypeOK
<1>1. BridgeInv => BridgeTypeOK
  <2>1. OwedCounted => owed \in 0..Cardinality(Awaited)
    BY BridgeAssumption, OwingFinite, FS_CardinalityType DEF OwedCounted, OwingSet
  <2>2. QED
    BY <2>1 DEF BridgeInv, Shape, BridgeTypeOK
<1>2. QED
  BY <1>1, BridgeAlways, PTL

\* IN_FLIGHT is the number of calls whose outcome is owed, in every
\* interleaving of the runtime, the loop, cancellations and the exit.
THEOREM CountExact == BridgeSpec => []OwedCounted
<1>1. BridgeInv => OwedCounted
  BY DEF BridgeInv
<1>2. QED
  BY <1>1, BridgeAlways, PTL

\* hand_to_asyncio's promise to Python: a future is settled once, never after
\* its cancellation, and only with an outcome the Rust future produced.
THEOREM SettlesOnce == BridgeSpec => SettledOnce
<1> DEFINE Settled == \A c \in Awaited :
             /\ fut[c] \in {"settled", "cancelled"} => fut'[c] = fut[c]
             /\ fut'[c] = "settled" => outcome'[c] \in Outcomes
<1>1. BridgeInv /\ BridgeInv' /\ [BridgeNext]_bridgeVars => [Settled]_bridgeVars
  <2>1. SUFFICES ASSUME BridgeInv, BridgeInv', BridgeNext, NEW c \in Awaited
                 PROVE  /\ fut[c] \in {"settled", "cancelled"} => fut'[c] = fut[c]
                        /\ fut'[c] = "settled" => outcome'[c] \in Outcomes
    OBVIOUS
  <2>2. fut'[c] = "settled" => outcome'[c] \in Outcomes
    BY <2>1 DEF BridgeInv, Places
  <2>3. fut[c] \in {"settled", "cancelled"} => fut'[c] = fut[c]
    BY <2>1 DEF BridgeInv, Shape, BridgeNext, Inline, HandOver, Completes,
                Dropped, ChildAttaches, ChildEnds, Checks, DropGuard, Attaches, Posts,
                Settles, Cancels, Relays, Closes, Exit,
                WaitIdle, Finalizes
  <2>4. QED
    BY <2>2, <2>3
<1>2. BridgeSpec => [][Settled]_bridgeVars
  <2> HIDE DEF Settled
  <2>1. QED
    BY <1>1, BridgeAlways, PTL DEF BridgeSpec
<1>3. QED
  BY <1>2 DEF SettledOnce

\* The promise of wait_idle (src/src/runtime.rs): once it has reported idle,
\* nothing of an earlier call is left on the runtime, but for the tasks that
\* join_all had spawned for a call cancelled since.
THEOREM ExitIsClean == BridgeSpec => []ExitClean
<1>1. ASSUME BridgeInv, exit = "idle", NEW c \in Awaited \ after
      PROVE  ~Owing(c) /\ (child[c] \in {"running", "attached"} => outcome[c] = "dropped")
  <2>1. ~Owing(c) /\ Places(c)
    BY <1>1 DEF BridgeInv, IdleHolds
  <2>2. QED
    BY <2>1 DEF Owing, Places
<1>2. BridgeInv => ExitClean
  BY <1>1 DEF ExitClean
<1>3. QED
  BY <1>2, BridgeAlways, PTL
=============================================================================
