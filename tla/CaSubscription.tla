--------------------------- MODULE CaSubscription ---------------------------
(***************************************************************************)
(* src/ca.rs: Drain, the one owner of "closed" for anything Python pulls   *)
(* from, with the monitor of a CaSubscription in it.                       *)
(*                                                                         *)
(* Any number of threads call recv, recv_batch, pause, resume and close on *)
(* one subscription.  All but close's first step go through the slot's     *)
(* lock, a tokio Mutex, which serves its waiters in order; a recv keeps it *)
(* while it is parked.  The n-th item of the client's handle is modelled   *)
(* as the number n.                                                        *)
(***************************************************************************)
EXTENDS Naturals, Sequences, SequencesExt

CONSTANTS
  Callers,   (* threads, each in at most one call at a time                *)
  Timed,     (* those whose recv has a timeout, or may be cancelled        *)
  Ops,       (* the calls they make, of Calls                              *)
  MaxBatch,  (* max_items of recv_batch                                    *)
  MaxItems   (* bound: items the handle produces                           *)

Calls == {"recv", "batch", "pause", "resume", "close"}

None == "none"

ASSUME SubscriptionAssumption ==
  /\ Timed \subseteq Callers /\ Ops \subseteq Calls
  /\ MaxBatch \in Nat \ {0} /\ MaxItems \in Nat
  /\ None \notin Callers

VARIABLES
  kinds,     \* kinds[n]: what the n-th item is, "value" or "error" (history)
  stream,    \* items in the handle
  ended,     \* the handle has ended: None follows its items
  paused,    \* the handle holds updates
  held,      \* it holds one, the latest
  stashed,   \* Monitor.stashed: empty, <<item>>, or <<End>>
  present,   \* the slot holds the monitor
  closed,    \* the token is cancelled
  pc,        \* pc[c]: where the call of c is
  op,        \* op[c]: which call it is
  waiters,   \* queue of the slot's lock
  holder,    \* the caller that has it, or none
  got,       \* items the pulls took, in order (history)
  shut       \* a close has returned (history)

handleVars == <<kinds, stream, ended, paused, held>>
slotVars   == <<stashed, present, closed>>
callVars   == <<pc, op, waiters, holder>>
vars == <<handleVars, slotVars, callVars, got, shut>>

Init ==
  /\ kinds = <<>>
  /\ stream = <<>>
  /\ ended = FALSE
  /\ paused = FALSE
  /\ held = FALSE
  /\ stashed = <<>>
  /\ present = TRUE
  /\ closed = FALSE
  /\ pc = [c \in Callers |-> "idle"]
  /\ op = [c \in Callers |-> None]
  /\ waiters = <<>>
  /\ holder = None
  /\ got = <<>>
  /\ shut = FALSE

-----------------------------------------------------------------------------
(* The client's handle: a paused one keeps the latest update for resume;   *)
(* errors, the disconnection, still come through.                          *)

Produce(kind) ==
  /\ kinds' = Append(kinds, kind)
  /\ stream' = Append(stream, Len(kinds) + 1)

Arrive(kind) ==
  /\ present /\ ~ended
  /\ Len(kinds) < MaxItems
  /\ IF paused /\ kind = "value"
     THEN held' = TRUE /\ UNCHANGED <<kinds, stream>>
     ELSE Produce(kind) /\ UNCHANGED held
  /\ UNCHANGED <<ended, paused, slotVars, callVars, got, shut>>

HandleEnds ==
  /\ present /\ ~ended
  /\ ended' = TRUE
  /\ UNCHANGED <<kinds, stream, paused, held, slotVars, callVars, got, shut>>

-----------------------------------------------------------------------------
(* Calls, up to the lock                                                   *)

(* pull looks at the token first; close cancels it first.                  *)
Cancel_Missing == UNCHANGED closed

Cancel == closed' = TRUE

Pulls(c) == op[c] \in {"recv", "batch"}

Call(c, o) ==
  /\ pc[c] = "idle"
  /\ o \in {"recv", "batch"} => ~closed   \* else None at once
  /\ op' = [op EXCEPT ![c] = o]
  /\ pc' = [pc EXCEPT ![c] = "called"]
  /\ IF o = "close" THEN Cancel ELSE UNCHANGED closed
  /\ UNCHANGED <<handleVars, stashed, present, waiters, holder, got, shut>>

LockSlot(c) ==
  /\ pc[c] = "called"
  /\ pc' = [pc EXCEPT ![c] = "locking"]
  /\ waiters' = Append(waiters, c)
  /\ UNCHANGED <<handleVars, slotVars, op, holder, got, shut>>

Acquire ==
  /\ holder = None /\ waiters # <<>>
  /\ holder' = Head(waiters)
  /\ waiters' = Tail(waiters)
  /\ pc' = [pc EXCEPT ![Head(waiters)] = "holding"]
  /\ UNCHANGED <<handleVars, slotVars, op, got, shut>>

(* The guard is dropped with the future of the call.                       *)
Release(c) ==
  /\ holder' = None
  /\ pc' = [pc EXCEPT ![c] = "idle"]
  /\ op' = [op EXCEPT ![c] = None]
  /\ UNCHANGED waiters

-----------------------------------------------------------------------------
(* pull, with the lock                                                     *)

End == 0

IsValue(n) == n # End /\ kinds[n] = "value"

After(n) == SubSeq(stream, n + 1, Len(stream))

Parked(c) == pc[c] = "holding" /\ present

Items(stash) == IF stash = <<End>> THEN <<>> ELSE stash

(* next(): the stash first.                                                *)
TakeOne ==
  IF stashed # <<>>
  THEN /\ stashed' = <<>>
       /\ got' = got \o Items(stashed)
       /\ UNCHANGED stream
  ELSE IF stream # <<>>
  THEN got' = Append(got, Head(stream)) /\ stream' = Tail(stream) /\ UNCHANGED stashed
  ELSE ended /\ UNCHANGED <<got, stream, stashed>>

Recv(c) ==
  /\ Parked(c) /\ op[c] = "recv"
  /\ TakeOne
  /\ Release(c)
  /\ UNCHANGED <<kinds, ended, paused, held, present, closed, shut>>

(* The first n are the values at the front, at most MaxBatch.              *)
IsRun(n) ==
  /\ n <= MaxBatch
  /\ \A i \in 1..n : IsValue(stream[i])
  /\ n < MaxBatch /\ n < Len(stream) => ~IsValue(stream[n + 1])

Stash_Dropped(item) == stashed' = <<>>

Stash(item) == stashed' = <<item>>

(* An item behind them that is no value was polled already: it waits for   *)
(* the next call.                                                          *)
TakeRun(n) ==
  /\ got' = got \o SubSeq(stream, 1, n)
  /\ IF n < MaxBatch /\ n < Len(stream)
     THEN Stash(stream[n + 1]) /\ stream' = After(n + 1)
     ELSE /\ stream' = After(n)
          /\ IF n < MaxBatch /\ ended THEN Stash(End) ELSE UNCHANGED stashed

RecvBatch(c) ==
  /\ Parked(c) /\ op[c] = "batch"
  /\ \E n \in 0..Len(stream) :
       /\ IsRun(n)
       /\ IF stashed = <<>> /\ n > 0 THEN TakeRun(n) ELSE TakeOne
  /\ Release(c)
  /\ UNCHANGED <<kinds, ended, paused, held, present, closed, shut>>

(* select! with the token, or an empty slot: None.                         *)
PullNone(c) ==
  /\ pc[c] = "holding" /\ Pulls(c)
  /\ closed \/ ~present
  /\ Release(c)
  /\ UNCHANGED <<handleVars, slotVars, got, shut>>

LeaveQueue(c) ==
  IF pc[c] = "locking"
  THEN \E i \in DOMAIN waiters : waiters[i] = c /\ waiters' = RemoveAt(waiters, i)
  ELSE UNCHANGED waiters

(* The future of the call is dropped, in the lock's queue or parked.       *)
TimesOut(c) ==
  /\ c \in Timed /\ Pulls(c) /\ pc[c] # "idle"
  /\ pc' = [pc EXCEPT ![c] = "idle"]
  /\ op' = [op EXCEPT ![c] = None]
  /\ LeaveQueue(c)
  /\ holder' = IF holder = c THEN None ELSE holder
  /\ UNCHANGED <<handleVars, slotVars, got, shut>>

-----------------------------------------------------------------------------
(* with: pause and resume, CaError when closed.                            *)

With(c) ==
  /\ pc[c] = "holding" /\ op[c] \in {"pause", "resume"}
  /\ IF present
     THEN /\ paused' = (op[c] = "pause")
          /\ IF op[c] = "resume" /\ held
             THEN Produce("value") /\ held' = FALSE
             ELSE UNCHANGED <<kinds, stream, held>>
     ELSE UNCHANGED <<paused, kinds, stream, held>>
  /\ Release(c)
  /\ UNCHANGED <<ended, slotVars, got, shut>>

TakeMonitor_Skipped == UNCHANGED <<present, stream, stashed>>

TakeMonitor ==
  /\ present' = FALSE
  /\ stream' = <<>>
  /\ stashed' = <<>>

(* close takes the monitor out of the slot and drops it.                   *)
Close(c) ==
  /\ pc[c] = "holding" /\ op[c] = "close"
  /\ TakeMonitor
  /\ shut' = TRUE
  /\ Release(c)
  /\ UNCHANGED <<kinds, ended, paused, held, closed, got>>

-----------------------------------------------------------------------------
CallStep(c) ==
  \/ LockSlot(c) \/ Recv(c) \/ RecvBatch(c) \/ PullNone(c) \/ With(c) \/ Close(c)

Next ==
  \/ \E kind \in {"value", "error"} : Arrive(kind)
  \/ HandleEnds \/ Acquire
  \/ \E c \in Callers :
       (\E o \in Ops : Call(c, o)) \/ CallStep(c) \/ TimesOut(c)

Spec == Init /\ [][Next]_vars

(* The runtime polls a call that can go on.  Nobody has to call, and no    *)
(* item has to arrive.                                                     *)
Fairness == WF_vars(Acquire) /\ \A c \in Callers : WF_vars(CallStep(c))

FairSpec == Spec /\ Fairness

-----------------------------------------------------------------------------
ItemsOK ==
  /\ kinds \in Seq({"value", "error"})
  /\ stream \in Seq(1..Len(kinds))
  /\ {ended, paused, held, present, closed, shut} \subseteq BOOLEAN
  /\ stashed \in Seq(0..Len(kinds)) /\ Len(stashed) <= 1
  /\ got \in Seq(1..Len(kinds))

LockOK ==
  /\ pc \in [Callers -> {"idle", "called", "locking", "holding"}]
  /\ op \in [Callers -> Calls \cup {None}]
  /\ waiters \in Seq(Callers)
  /\ holder \in Callers \cup {None}
  /\ \A i, j \in DOMAIN waiters : waiters[i] = waiters[j] => i = j
  /\ \A c \in Callers :
       /\ pc[c] = "idle" <=> op[c] = None
       /\ pc[c] = "holding" <=> holder = c
       /\ pc[c] = "locking" <=> \E i \in DOMAIN waiters : waiters[i] = c

(* Shape of the state; the lock has one holder, and a caller is in its     *)
(* queue once while it waits, and only then.                               *)
TypeOK == ItemsOK /\ LockOK

(* Nothing lost, nothing twice, oldest first (do_recv_batch: an item that  *)
(* ends a batch "is held for the next call"): what the calls took, the     *)
(* stash and the handle's queue are together the items the handle          *)
(* produced, whatever calls overlapped, timed out or were cancelled.       *)
NothingLost ==
  present => got \o Items(stashed) \o stream = [n \in DOMAIN kinds |-> n]

(* "None once closed": once a close has taken the monitor out of its slot  *)
(* no recv takes an item, the ones that passed the token before and queued *)
(* at the lock included.                                                   *)
ClosedForGood == [][shut => got' = got]_vars

(* "A parked recv returns None", and close itself returns: the token wakes *)
(* the recv that keeps the lock.                                           *)
CloseWakes ==
  \A c \in Callers :
    /\ op[c] = "close" ~> op[c] # "close"
    /\ (closed /\ pc[c] # "idle") ~> pc[c] = "idle"
=============================================================================
