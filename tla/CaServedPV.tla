---------------------------- MODULE CaServedPV ----------------------------
(***************************************************************************)
(* The Channel Access server's PVs (src/src/ca_server.rs): where the value *)
(* of a SharedPV lives and how servers adopt PVs.  The client PUTs its     *)
(* write hook hands to Python are CaWriteQueue's.                          *)
(*                                                                         *)
(* A call runs on a Python thread that holds the GIL except inside         *)
(* block_on and detach.  open, close and adopt keep the entry's mutex over *)
(* block_on; a thread that meets the mutex taken waits for it with the     *)
(* GIL, which the owner needs to go on, and then neither continues.        *)
(*                                                                         *)
(* A cell is a ProcessVariable of the database library; a database stands  *)
(* for the server that creates it.  What the library does inside a         *)
(* block_on is one step with the return from it.                           *)
(***************************************************************************)
EXTENDS Naturals, Sequences, FiniteSets

CONSTANTS Entries, Threads, Dbs, Cells, Values,
          Namings,   \* the ways entries are named in the servers' databases
          None,
          MaxCalls   \* bound: calls in a behaviour

ASSUME ServedAssumption == /\ None \notin Entries \cup Threads \cup Cells \cup Dbs \cup Values
                           /\ IsFiniteSet(Entries) /\ MaxCalls \in Nat

VARIABLES
  nameOf,   \* the name each entry is listed under
  gil,      \* the thread that holds the GIL
  mutex,    \* the owner of each CaPvEntry.state's mutex
  state,    \* ValueState of each entry
  reg,      \* the database of its Registration
  db,       \* the names each database has, and their cells
  cell,     \* the value of each cell, None before it is made
  running,  \* databases whose server runs
  started,  \* databases given to a server so far
  call,     \* the call each thread is in
  last,     \* ghost: the value each entry was last given
  calls     \* bound counter

vars == <<nameOf, gil, mutex, state, reg, db, cell, running, started, call, last, calls>>
servers == <<nameOf, running, started>>

Shut == [st |-> "closed"]
Detached(v) == [st |-> "detached", value |-> v]
Serving(c) == [st |-> "serving", cell |-> c]
NoCall == [do |-> "none"]

Init ==
  /\ nameOf \in Namings
  /\ gil = None /\ mutex = [e \in Entries |-> None]
  /\ state = [e \in Entries |-> Shut] /\ reg = [e \in Entries |-> None]
  /\ db = [d \in Dbs |-> <<>>] /\ cell = [c \in Cells |-> None]
  /\ running = {} /\ started = {}
  /\ call = [t \in Threads |-> NoCall]
  /\ last = [e \in Entries |-> None]
  /\ calls = 0

(* --- calls and the GIL --------------------------------------------------- *)

Lists == {es \in UNION {[1..n -> Entries] : n \in 1..Cardinality(Entries)} :
            \A i, j \in DOMAIN es : es[i] = es[j] => i = j}

Methods == [do : {"open", "post"}, on : Entries, value : Values]
           \cup [do : {"close", "current"}, on : Entries]
           \cup [do : {"new"}, db : Dbs, left : Lists]

\* A thread with the GIL enters a method.
Enter(t, c) ==
  /\ gil = None /\ call[t] = NoCall /\ calls < MaxCalls
  /\ c.do = "new" => c.db \notin started
  /\ gil' = t /\ call' = [call EXCEPT ![t] = c] /\ calls' = calls + 1
  /\ started' = IF c.do = "new" THEN started \cup {c.db} ELSE started
  /\ UNCHANGED <<nameOf, mutex, state, reg, db, cell, running, last>>

\* lock_state() with the GIL held; it waits while the mutex is taken.
Locked(t, do, e) == gil = t /\ call[t].do = do /\ mutex[e] = None

Return(t) == gil' = None /\ call' = [call EXCEPT ![t] = NoCall]

\* The entry's value changes under the mutex and the method is over.
Instant(t, e, s, v) ==
  /\ Return(t)
  /\ state' = [state EXCEPT ![e] = s] /\ last' = [last EXCEPT ![e] = v]
  /\ UNCHANGED <<servers, mutex, reg, db, cell, calls>>

Outside_Unlocked(t, e, work) ==
  /\ gil' = None /\ call' = [call EXCEPT ![t] = work]
  /\ UNCHANGED <<servers, mutex, state, reg, db, cell, last, calls>>

\* Leave the GIL for work that keeps the mutex over block_on ...
Outside(t, e, work) ==
  /\ mutex' = [mutex EXCEPT ![e] = t]
  /\ gil' = None /\ call' = [call EXCEPT ![t] = work]
  /\ UNCHANGED <<servers, state, reg, db, cell, last, calls>>

\* ... or that has dropped it and detached.
Detach(t, work) ==
  /\ gil' = None /\ call' = [call EXCEPT ![t] = work]
  /\ UNCHANGED <<servers, mutex, state, reg, db, cell, last, calls>>

Set(e, v) == [do |-> "set", on |-> e, cell |-> state[e].cell, value |-> v]

(* --- under the lock ------------------------------------------------------ *)

Open(t) ==
  LET e == call[t].on  v == call[t].value IN
  /\ Locked(t, "open", e)
  /\ CASE state[e].st = "serving" -> Detach(t, Set(e, v))
       [] state[e].st # "serving" /\ reg[e] # None ->
            Outside(t, e, [do |-> "install", on |-> e, db |-> reg[e], value |-> v, left |-> <<>>])
       [] OTHER -> Instant(t, e, Detached(v), v)

\* Refused while closed.
Post(t) ==
  LET e == call[t].on  v == call[t].value IN
  /\ Locked(t, "post", e)
  /\ CASE state[e].st = "serving" -> Detach(t, Set(e, v))
       [] state[e].st = "detached" -> Instant(t, e, Detached(v), v)
       [] OTHER -> Instant(t, e, Shut, None)

\* close(), also as CaProvider.remove calls it.
Close(t) ==
  LET e == call[t].on IN
  /\ Locked(t, "close", e)
  /\ IF state[e].st = "serving" THEN Outside(t, e, [do |-> "remove", on |-> e])
     ELSE Instant(t, e, Shut, None)

\* current(), and is_open().
Current(t) ==
  LET e == call[t].on IN
  /\ Locked(t, "current", e)
  /\ IF state[e].st = "serving" THEN Detach(t, [do |-> "get"])
     ELSE Instant(t, e, state[e], last[e])

\* CaServer.new adopts its entries in turn.  One that is closed or already
\* served ends it with an error; those adopted before it stay adopted.
Adopt(t) ==
  LET e == Head(call[t].left) IN
  /\ gil = t /\ call[t].do = "new" /\ call[t].left # <<>> /\ mutex[e] = None
  /\ IF state[e].st = "detached"
     THEN Outside(t, e, [do |-> "install", on |-> e, db |-> call[t].db,
                         value |-> state[e].value, left |-> call[t].left])
     ELSE Instant(t, e, state[e], last[e])

StartServer(t) ==
  /\ gil = t /\ call[t].do = "new" /\ call[t].left = <<>>
  /\ Detach(t, [do |-> "start", db |-> call[t].db])

(* --- back from block_on with the GIL ------------------------------------- *)

Back(t, do) == gil = None /\ call[t].do = do

\* pv.set on the cell looked up earlier, still served or not.
SetCell(t) ==
  /\ Back(t, "set") /\ Return(t)
  /\ cell' = [cell EXCEPT ![call[t].cell] = call[t].value]
  /\ last' = IF state[call[t].on] = Serving(call[t].cell)
             THEN [last EXCEPT ![call[t].on] = call[t].value] ELSE last
  /\ UNCHANGED <<servers, mutex, state, reg, db, calls>>

GetCell(t) ==
  /\ Back(t, "get") /\ Return(t)
  /\ UNCHANGED <<servers, mutex, state, reg, db, cell, last, calls>>

RemoveCell_FromEntry(t) ==
  LET e == call[t].on IN
  /\ Back(t, "remove") /\ Return(t)
  /\ state' = [state EXCEPT ![e] = Shut] /\ last' = [last EXCEPT ![e] = None]
  /\ mutex' = [mutex EXCEPT ![e] = None]
  /\ UNCHANGED <<servers, reg, db, cell, calls>>

\* remove_simple_pv; the registration stays for a later open.
RemoveCell(t) ==
  LET e == call[t].on IN
  /\ Back(t, "remove") /\ Return(t)
  /\ db' = [db EXCEPT ![reg[e]] = [n \in DOMAIN @ \ {nameOf[e]} |-> @[n]]]
  /\ state' = [state EXCEPT ![e] = Shut] /\ last' = [last EXCEPT ![e] = None]
  /\ mutex' = [mutex EXCEPT ![e] = None]
  /\ UNCHANGED <<servers, reg, cell, calls>>

\* add_pv_with_hook refuses a name the database has; the entry is as before.
Clash(t) ==
  LET e == call[t].on IN
  /\ Back(t, "install") /\ Return(t) /\ nameOf[e] \in DOMAIN db[call[t].db]
  /\ mutex' = [mutex EXCEPT ![e] = None]
  /\ UNCHANGED <<servers, state, reg, db, cell, last, calls>>

\* The new cell becomes the value; a starting server goes on with the GIL.
InstallCell(t, c) ==
  LET e == call[t].on  d == call[t].db  adopting == call[t].left # <<>> IN
  /\ Back(t, "install") /\ nameOf[e] \notin DOMAIN db[d] /\ cell[c] = None
  /\ cell' = [cell EXCEPT ![c] = call[t].value]
  /\ db' = [db EXCEPT ![d] = [n \in DOMAIN @ \cup {nameOf[e]} |-> IF n = nameOf[e] THEN c ELSE @[n]]]
  /\ state' = [state EXCEPT ![e] = Serving(c)] /\ reg' = [reg EXCEPT ![e] = d]
  /\ mutex' = [mutex EXCEPT ![e] = None]
  /\ IF adopting
     THEN /\ gil' = t /\ UNCHANGED last
          /\ call' = [call EXCEPT ![t] = [do |-> "new", db |-> d, left |-> Tail(@.left)]]
     ELSE Return(t) /\ last' = [last EXCEPT ![e] = call[t].value]
  /\ UNCHANGED <<servers, calls>>

\* from_parts may fail to bind.
ServerStarts(t, ok) ==
  /\ Back(t, "start") /\ Return(t)
  /\ running' = IF ok THEN running \cup {call[t].db} ELSE running
  /\ UNCHANGED <<nameOf, started, mutex, state, reg, db, cell, last, calls>>

\* CaServer.stop: the PVs it adopted are not told.
StopServer(d) ==
  /\ gil = None /\ d \in running
  /\ running' = running \ {d}
  /\ UNCHANGED <<nameOf, started, gil, mutex, state, reg, db, cell, call, last, calls>>

Next ==
  \/ \E t \in Threads :
       \/ \E c \in Methods : Enter(t, c)
       \/ Open(t) \/ Post(t) \/ Close(t) \/ Current(t) \/ Adopt(t) \/ StartServer(t)
       \/ SetCell(t) \/ GetCell(t) \/ RemoveCell(t) \/ Clash(t)
       \/ \E c \in Cells : InstallCell(t, c)
       \/ \E ok \in BOOLEAN : ServerStarts(t, ok)
  \/ \E d \in Dbs : StopServer(d)

Spec == Init /\ [][Next]_vars

(* --- properties ---------------------------------------------------------- *)

\* Types of the variables; a thread outside the GIL with a mutex is in work
\* that keeps it.
TypeOK ==
  /\ nameOf \in Namings /\ gil \in Threads \cup {None}
  /\ state \in [Entries -> {Shut} \cup {Detached(v) : v \in Values} \cup {Serving(c) : c \in Cells}]
  /\ reg \in [Entries -> Dbs \cup {None}]
  /\ cell \in [Cells -> Values \cup {None}] /\ last \in [Entries -> Values \cup {None}]
  /\ \A d \in Dbs : \A n \in DOMAIN db[d] : db[d][n] \in Cells
  /\ running \subseteq started /\ started \subseteq Dbs
  /\ \A e \in Entries : mutex[e] # None => /\ call[mutex[e]].do \in {"install", "remove"}
                                           /\ call[mutex[e]].on = e
  /\ calls \in 0..MaxCalls

\* "The value lives in exactly one place": with no call inside the entry,
\* it serves a cell exactly when that cell is registered under its name in
\* the database of its registration, and no cell serves two entries.
OneHome ==
  TypeOK /\ \A e \in Entries : mutex[e] = None =>
    /\ state[e].st = "serving" =>
         /\ reg[e] # None /\ nameOf[e] \in DOMAIN db[reg[e]]
         /\ db[reg[e]][nameOf[e]] = state[e].cell
    /\ \A d \in Dbs : \A n \in DOMAIN db[d] :
         \E f \in Entries : \/ state[f] = Serving(db[d][n]) /\ reg[f] = d /\ nameOf[f] = n
                            \/ mutex[f] # None
    /\ \A f \in Entries : state[e].st = "serving" /\ state[f] = state[e] => e = f

\* Why the mutex stays locked over block_on: no value given to a PV is lost
\* to an adoption, an open or a close that was waiting for the library.
ValueKept ==
  \A e \in Entries : mutex[e] = None =>
    last[e] = CASE state[e].st = "closed" -> None
                [] state[e].st = "detached" -> state[e].value
                [] OTHER -> cell[state[e].cell]

\* docs/index.md: every non-_async method of the extension classes releases
\* the GIL while it waits.
WaitsWithoutGil ==
  \A t \in Threads : gil = t =>
    /\ call[t].do \in {"open", "post", "close", "current"} => mutex[call[t].on] = None
    /\ call[t].do = "new" /\ call[t].left # <<>> => mutex[Head(call[t].left)] = None

=============================================================================
