---------------------------- MODULE PvaSharedPV ----------------------------
(***************************************************************************)
(* The value of one pvAccess SharedPV and its monitor subscribers          *)
(* (PvEntry and PvState of src/src/pva/server.rs).  open, close and        *)
(* current run on Python threads that keep the GIL, so they exclude one    *)
(* another; post runs with the GIL released; subscribes and PUTs arrive on *)
(* runtime workers.  The state lock orders them, except that close leaves  *)
(* it before it closes the library's PV.                                   *)
(*                                                                         *)
(* A value is its type and one number per field.  A plain subscriber is a  *)
(* marked one whose updates mark everything and whose seed is its first    *)
(* update.                                                                 *)
(***************************************************************************)
EXTENDS Naturals, Sequences

CONSTANTS Types, Fields, Numbers,
          Subs,       \* monitor subscriptions, each used once
          PlainSubs,  \* those made by the unmarked subscribe
          Limit,      \* their ring sizes
          Puts,       \* client PUTs, each issued once
          Closed,     \* no value, and no type
          MaxPosts    \* bound: openings and posts in a behaviour

ASSUME SharedAssumption == /\ PlainSubs \subseteq Subs /\ Limit \in [Subs -> Nat \ {0}]
                           /\ MaxPosts \in Nat
                           /\ Closed \notin Types
                           /\ Closed \notin [type : Types, val : [Fields -> Numbers]]

VARIABLES
  lib,     \* the library SharedPV: its value, or Closed
  opened,  \* PvState.opened: the type, or Closed
  marks,   \* PvState.marks
  subs,    \* PvState.subs
  closing, \* close() in progress: "no", "unlocked", "dropping"
  taken,   \* the subscribers close() took out of the state
  ring,    \* the updates each subscriber has not read yet
  stream,  \* "new", "open", "ended" (no producer left), "gone" (client left)
  view,    \* ghost: what a client that applies only marked fields has
  raced,   \* ghost: subscribers registered while a close was under way
  base,    \* ghost: the value opened with
  wrote,   \* ghost: each field as the last open, post or client that named it
           \* gave it, while the library's PV is open
  put,     \* each PUT: not issued, the merged operation (and, a ghost, what its
           \* client asked), answered
  posts    \* bound counter

vars == <<lib, opened, marks, subs, closing, taken, ring, stream, view, raced, base, wrote, put, posts>>

Value == [type : Types, val : [Fields -> Numbers]]
Update == [value : Value, marked : SUBSET Fields]

Init ==
  /\ lib = Closed /\ opened = Closed /\ marks = {} /\ subs = {} /\ base = Closed /\ wrote = Closed
  /\ closing = "no" /\ taken = {} /\ raced = {}
  /\ ring = [s \in Subs |-> <<>>] /\ stream = [s \in Subs |-> "new"]
  /\ view = [s \in Subs |-> Closed]
  /\ put = [u \in Puts |-> [st |-> "new"]]
  /\ posts = 0

(* --- helpers ------------------------------------------------------------- *)

\* The marked fields of `new` copied over `old` (post_delta, and what a
\* client does with an update).
Assign(old, new, F) == [old EXCEPT !.val = [f \in Fields |-> IF f \in F THEN new.val[f] ELSE @[f]]]

Offer_LastMarks(r, limit, u) == IF Len(r) < limit THEN Append(r, u) ELSE [r EXCEPT ![Len(r)] = u]

\* MonitorRing: a full ring folds the update into its tail, marks united.
Offer(r, limit, u) ==
  IF Len(r) < limit THEN Append(r, u)
  ELSE [r EXCEPT ![Len(r)] = [u EXCEPT !.marked = @ \cup r[Len(r)].marked]]

Deliver(s, value, F) ==
  Offer(ring[s], Limit[s], [value |-> value, marked |-> IF s \in PlainSubs THEN Fields ELSE F])

\* What each field was last given, with the fields of F given now.
Given(new, F) == [f \in Fields |-> IF f \in F THEN new[f] ELSE wrote[f]]

(* --- PvEntry ------------------------------------------------------------- *)

Open_RecordsFirst(v, F) ==
  /\ closing = "no" /\ posts < MaxPosts /\ posts' = posts + 1
  /\ marks' = F /\ opened' = v.type
  /\ IF lib = Closed THEN lib' = v /\ base' = v /\ wrote' = v.val ELSE UNCHANGED <<lib, base, wrote>>
  /\ UNCHANGED <<subs, closing, taken, ring, stream, view, raced, put>>

\* Refused by the library while open.
Open(v, F) ==
  /\ closing = "no" /\ lib = Closed /\ posts < MaxPosts
  /\ lib' = v /\ base' = v /\ wrote' = v.val /\ marks' = F /\ opened' = v.type
  /\ posts' = posts + 1
  /\ UNCHANGED <<subs, closing, taken, ring, stream, view, raced, put>>

Store_Whole(v, F) ==
  /\ lib' = v /\ marks' = marks \cup F
  /\ ring' = [s \in Subs |-> IF s \in subs THEN Deliver(s, v, F) ELSE ring[s]]
  /\ UNCHANGED <<subs, opened, closing, taken, stream, view, raced, base>>
\* PvEntry.post after its checks: store, unite the marks, deliver to every
\* subscriber whose client still has its ring, drop the others.
Store(v, F) ==
  LET cur == Assign(lib, v, F)
      listening == {s \in subs : stream[s] # "gone"} IN
  /\ lib' = cur
  /\ marks' = marks \cup F
  /\ ring' = [s \in Subs |-> IF s \in listening THEN Deliver(s, cur, F) ELSE ring[s]]
  /\ subs' = listening
  /\ UNCHANGED <<opened, closing, taken, stream, view, raced, base>>

\* Refused when closed or of another type; an unmarked value does nothing.
Postable(v, F) == opened # Closed /\ v.type = opened /\ F # {}

Post(v, F) ==
  /\ posts < MaxPosts /\ Postable(v, F)
  /\ posts' = posts + 1
  /\ Store(v, F) /\ wrote' = Given(v.val, F)
  /\ UNCHANGED put

\* close(): the state first, under its lock ...
CloseState ==
  /\ closing = "no"
  /\ marks' = {} /\ opened' = Closed /\ taken' = subs /\ subs' = {}
  /\ closing' = "unlocked"
  /\ UNCHANGED <<lib, ring, stream, view, raced, base, wrote, put, posts>>

\* ... then the library's PV, which disconnects the clients ...
CloseLib ==
  /\ closing = "unlocked"
  /\ lib' = Closed /\ base' = Closed /\ wrote' = Closed /\ closing' = "dropping"
  /\ UNCHANGED <<opened, marks, subs, taken, ring, stream, view, raced, put, posts>>

\* ... then the producer endpoints, which ends the streams.
CloseSubs ==
  /\ closing = "dropping"
  /\ stream' = [s \in Subs |-> IF s \in taken /\ stream[s] = "open" THEN "ended" ELSE stream[s]]
  /\ taken' = {} /\ closing' = "no"
  /\ UNCHANGED <<lib, opened, marks, subs, ring, view, raced, base, wrote, put, posts>>

\* The value a plain subscription starts with is its first update.
Seeded(s) == IF s \in PlainSubs THEN [ring EXCEPT ![s] = Deliver(s, lib, Fields)] ELSE ring

\* Register and snapshot under one lock.  The library's value decides, so a
\* close between its lock and the library's close does not refuse it.
Subscribe(s) ==
  /\ stream[s] = "new" /\ lib # Closed
  /\ stream' = [stream EXCEPT ![s] = "open"]
  /\ subs' = subs \cup {s}
  /\ view' = [view EXCEPT ![s] = lib]
  /\ ring' = Seeded(s)
  /\ raced' = IF closing = "no" THEN raced ELSE raced \cup {s}
  /\ UNCHANGED <<lib, opened, marks, closing, taken, base, wrote, put, posts>>

\* put_delta_checked: the operation carries the current value with the
\* client's fields over it, marked; the handler posts it later.
PutStarts(u, v, F) ==
  /\ put[u].st = "new" /\ lib # Closed /\ v.type = lib.type
  /\ put' = [put EXCEPT ![u] = [st |-> "op", value |-> Assign(lib, v, F), marked |-> F,
                                  asked |-> [f \in F |-> v.val[f]]]]
  /\ UNCHANGED <<lib, opened, marks, subs, closing, taken, ring, stream, view, raced, base, wrote, posts>>

\* The usual handler, pv.post(op.value()); op.done() (or an error).
PutPosted(u) ==
  /\ put[u].st = "op"
  /\ put' = [put EXCEPT ![u].st = "done"]
  /\ IF Postable(put[u].value, put[u].marked)
     THEN Store(put[u].value, put[u].marked) /\ wrote' = Given(put[u].asked, put[u].marked)
     ELSE UNCHANGED <<lib, opened, marks, subs, closing, taken, ring, stream, view, raced, base, wrote>>
  /\ UNCHANGED posts

(* --- clients ------------------------------------------------------------- *)

Read(s) ==
  /\ stream[s] \in {"open", "ended"} /\ ring[s] # <<>>
  /\ LET u == Head(ring[s]) IN view' = [view EXCEPT ![s] = Assign(@, u.value, u.marked)]
  /\ ring' = [ring EXCEPT ![s] = Tail(@)]
  /\ UNCHANGED <<lib, opened, marks, subs, closing, taken, stream, raced, base, wrote, put, posts>>

Leave(s) ==
  /\ stream[s] \in {"open", "ended"}
  /\ stream' = [stream EXCEPT ![s] = "gone"] /\ ring' = [ring EXCEPT ![s] = <<>>]
  /\ view' = [view EXCEPT ![s] = Closed]
  /\ UNCHANGED <<lib, opened, marks, subs, closing, taken, raced, base, wrote, put, posts>>

Next ==
  \/ \E v \in Value, F \in SUBSET Fields : Open(v, F) \/ Post(v, F)
  \/ \E u \in Puts, v \in Value, F \in (SUBSET Fields) \ {{}} : PutStarts(u, v, F)
  \/ \E u \in Puts : PutPosted(u)
  \/ CloseState \/ CloseLib \/ CloseSubs
  \/ \E s \in Subs : Subscribe(s) \/ Read(s) \/ Leave(s)

Spec == Init /\ [][Next]_vars

(* --- properties ---------------------------------------------------------- *)

\* Types of the variables; a call that is over leaves no subscriber taken.
TypeOK ==
  /\ lib \in Value \cup {Closed} /\ base \in Value \cup {Closed}
  /\ opened \in Types \cup {Closed} /\ marks \subseteq Fields
  /\ subs \subseteq Subs /\ taken \subseteq Subs /\ raced \subseteq Subs
  /\ closing \in {"no", "unlocked", "dropping"}
  /\ \A s \in Subs : ring[s] \in Seq(Update) /\ Len(ring[s]) <= Limit[s]
  /\ stream \in [Subs -> {"new", "open", "ended", "gone"}]
  /\ view \in [Subs -> Value \cup {Closed}]
  /\ \A u \in Puts : put[u].st \in {"new", "op", "done"}
  /\ posts \in 0..MaxPosts

\* The entry's own copy of the type and the library's PV agree whenever no
\* close is under way, whatever posts, subscribes and PUTs did meanwhile, and
\* current() marks every field that has left the value opened with.
OpenAgrees ==
  /\ TypeOK
  /\ closing = "no" => IF lib = Closed THEN opened = Closed /\ marks = {} ELSE opened = lib.type
  /\ opened # Closed => \A f \in Fields : lib.val[f] # base.val[f] => f \in marks

\* Update i of a ring is the last to mark field f.
LastMark(r, f, i) == f \in r[i].marked /\ \A j \in DOMAIN r : j > i => f \notin r[j].marked

\* What the client ends up with once it has read its ring: every field as
\* the last update to mark it carries it, or else as the client has it now.
CatchesUp(s, value) ==
  /\ view[s].type = value.type
  /\ \A f \in Fields :
       /\ \A i \in DOMAIN ring[s] : LastMark(ring[s], f, i) => ring[s][i].value.val[f] = value.val[f]
       /\ (\A i \in DOMAIN ring[s] : f \notin ring[s][i].marked) => view[s].val[f] = value.val[f]

\* "A subscriber sees every post either in its seed or in its ring, never
\* neither": a client that keeps its seed and applies only the marked fields
\* of what its ring holds, squashed or not, arrives at the current value, in the
\* type its stream began with.  A subscriber registered inside a close is
\* the exception: the library disconnects its client.
SeedOrRing ==
  \A s \in subs \ raced : stream[s] = "open" /\ lib # Closed => CatchesUp(s, lib)

\* A PUT is merged with the value of the moment it arrives, which posts, other
\* PUTs and a close and reopen may have replaced when its handler posts it.  Even so
\* every field stands as the last write that named it gave it: no handler
\* brings an older value of another field back.
LastWriteStands ==
  lib # Closed => \A f \in Fields : lib.val[f] = wrote[f]

=============================================================================
