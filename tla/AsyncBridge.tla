---------------------------- MODULE AsyncBridge ----------------------------
(***************************************************************************)
(* How a Rust future becomes an asyncio future and back                    *)
(* (src/src/runtime.rs): the first poll on the calling thread, the hand    *)
(* over to the runtime, the blocking thread that posts the outcome to the  *)
(* loop, cancellation in both directions, and the count of owed outcomes   *)
(* that interpreter exit waits on (_shutdown_all of _monitor.py).          *)
(*                                                                         *)
(* A call on several channels gathers tasks of their own (join_all), which *)
(* the count does not cover and a cancellation does not reach; one task    *)
(* stands for all of a call's.                                             *)
(*                                                                         *)
(* One event loop; the futures are independent calls.  What a Rust future  *)
(* waits for is nondeterministic.  The names that every specification has  *)
(* start with Bridge, for this one is extended next to another's.          *)
(***************************************************************************)
EXTENDS Naturals, FiniteSets

CONSTANTS Awaited,  \* calls of a coroutine method, each made once
          Endless,  \* calls whose Rust future may never complete
          Gathering \* calls that gather spawned tasks, as get_many_async does

ASSUME BridgeAssumption ==
  IsFiniteSet(Awaited) /\ Endless \subseteq Awaited /\ Gathering \subseteq Awaited

VARIABLES
  rust,      \* each call's Rust side: "none", "running", "ended", "checked",
             \* "attached", "over"
  child,     \* a task it gathers: "none", "running", "attached", "over"
  outcome,   \* what it produced: "none" yet, "value", "error", "dropped"
  fut,       \* the asyncio future: "none", "pending", "settled", "cancelled"
  relay,     \* the CancelRelay: "idle", "called" by the loop later, "sent"
  posted,    \* calls whose Completor is queued on the loop
  owed,      \* IN_FLIGHT
  loop,      \* "open" or "closed"
  exit,      \* "no", "waiting" in wait_idle, "idle" or "late" as it returned
  finalized, \* the interpreter is gone
  after      \* ghost: calls made when wait_idle had returned

bridgeVars == <<rust, child, outcome, fut, relay, posted, owed, loop, exit, finalized, after>>

BridgeInit ==
  /\ rust = [c \in Awaited |-> "none"] /\ child = [c \in Awaited |-> "none"]
  /\ outcome = [c \in Awaited |-> "none"]
  /\ fut = [c \in Awaited |-> "none"] /\ relay = [c \in Awaited |-> "idle"]
  /\ posted = {} /\ owed = 0 /\ loop = "open" /\ exit = "no" /\ finalized = FALSE
  /\ after = {}

Python == ~finalized
OnLoop == Python /\ loop = "open"

(* --- into_py_future ------------------------------------------------------ *)

\* The first poll was enough: a future that is already done, or an exception.
Inline(c, out) ==
  /\ OnLoop /\ fut[c] = "none"
  /\ outcome' = [outcome EXCEPT ![c] = out] /\ fut' = [fut EXCEPT ![c] = "settled"]
  /\ UNCHANGED <<rust, child, relay, posted, owed, loop, exit, finalized, after>>

\* hand_to_asyncio: the asyncio future, its CancelRelay, the in-flight guard.
HandOver(c) ==
  /\ OnLoop /\ fut[c] = "none"
  /\ fut' = [fut EXCEPT ![c] = "pending"]
  /\ rust' = [rust EXCEPT ![c] = "running"]
  /\ child' = IF c \in Gathering THEN [child EXCEPT ![c] = "running"] ELSE child
  /\ owed' = owed + 1
  /\ after' = IF exit \in {"idle", "late"} THEN after \cup {c} ELSE after
  /\ UNCHANGED <<outcome, relay, posted, loop, exit, finalized>>

(* --- the runtime --------------------------------------------------------- *)

\* The future completes.  The select is biased: it wins over a cancellation
\* that has already been sent.  A gathering call has seen its tasks end.
Completes(c, out) ==
  /\ rust[c] = "running" /\ child[c] \in {"none", "over"}
  /\ rust' = [rust EXCEPT ![c] = "ended"] /\ outcome' = [outcome EXCEPT ![c] = out]
  /\ UNCHANGED <<child, fut, relay, posted, owed, loop, exit, finalized, after>>

\* The cancellation arrives first: the Rust future is dropped.  The tasks it
\* gathers were spawned on the runtime; with their handles dropped they go on.
Dropped(c) ==
  /\ rust[c] = "running" /\ relay[c] = "sent"
  /\ rust' = [rust EXCEPT ![c] = "ended"] /\ outcome' = [outcome EXCEPT ![c] = "dropped"]
  /\ UNCHANGED <<child, fut, relay, posted, owed, loop, exit, finalized, after>>

\* A gathered task converts the value it got: it takes the interpreter, and
\* does not look whether there still is one.
ChildAttaches(c) ==
  /\ child[c] = "running"
  /\ child' = [child EXCEPT ![c] = "attached"]
  /\ UNCHANGED <<rust, outcome, fut, relay, posted, owed, loop, exit, finalized, after>>

\* It ends: with the value, or before with an error or nothing to convert.
ChildEnds(c) ==
  /\ child[c] = "running" \/ (child[c] = "attached" /\ Python)
  /\ child' = [child EXCEPT ![c] = "over"]
  /\ UNCHANGED <<rust, outcome, fut, relay, posted, owed, loop, exit, finalized, after>>

\* Drop of the guard.
DropGuard(c) == rust' = [rust EXCEPT ![c] = "over"] /\ owed' = owed - 1

\* The guard is forgotten on the early return.
Checks_KeepsGuard(c) ==
  /\ rust[c] = "ended"
  /\ rust' = [rust EXCEPT ![c] = IF outcome[c] = "dropped" \/ finalized THEN "over" ELSE "checked"]
  /\ UNCHANGED <<child, outcome, fut, relay, posted, owed, loop, exit, finalized, after>>

\* The blocking thread: nothing to post, or no interpreter to post it to ...
Checks(c) ==
  /\ rust[c] = "ended"
  /\ IF outcome[c] = "dropped" \/ finalized
     THEN DropGuard(c)
     ELSE rust' = [rust EXCEPT ![c] = "checked"] /\ UNCHANGED owed
  /\ UNCHANGED <<child, outcome, fut, relay, posted, loop, exit, finalized, after>>

\* ... else it attaches to the interpreter, which must still be there ...
Attaches(c) ==
  /\ rust[c] = "checked"
  /\ rust' = [rust EXCEPT ![c] = "attached"]
  /\ UNCHANGED <<child, outcome, fut, relay, posted, owed, loop, exit, finalized, after>>

\* An error is not posted.
Posts_ValuesOnly(c) ==
  /\ rust[c] = "attached" /\ Python
  /\ posted' = IF fut[c] # "cancelled" /\ loop = "open" /\ outcome[c] = "value"
               THEN posted \cup {c} ELSE posted
  /\ DropGuard(c)
  /\ UNCHANGED <<child, outcome, fut, relay, loop, exit, finalized, after>>

\* ... and asks the loop to settle the future, unless it was cancelled.  A
\* closed loop refuses.
Posts(c) ==
  /\ rust[c] = "attached" /\ Python
  /\ posted' = IF fut[c] # "cancelled" /\ loop = "open" THEN posted \cup {c} ELSE posted
  /\ DropGuard(c)
  /\ UNCHANGED <<child, outcome, fut, relay, loop, exit, finalized, after>>

(* --- the loop ------------------------------------------------------------ *)

\* Completor without its second look at cancelled().
Settles_Unchecked(c) ==
  /\ OnLoop /\ c \in posted
  /\ posted' = posted \ {c} /\ fut' = [fut EXCEPT ![c] = "settled"]
  /\ UNCHANGED <<rust, child, outcome, relay, owed, loop, exit, finalized, after>>

\* Completor: the future may have been cancelled since it was posted.
Settles(c) ==
  /\ OnLoop /\ c \in posted
  /\ posted' = posted \ {c}
  /\ fut' = IF fut[c] = "cancelled" THEN fut ELSE [fut EXCEPT ![c] = "settled"]
  /\ UNCHANGED <<rust, child, outcome, relay, owed, loop, exit, finalized, after>>

\* No done callback was added.
Cancels_Unheard(c) ==
  /\ OnLoop /\ fut[c] = "pending" /\ fut' = [fut EXCEPT ![c] = "cancelled"]
  /\ UNCHANGED <<rust, child, outcome, relay, posted, owed, loop, exit, finalized, after>>

\* cancel() settles the future at once and schedules its done callbacks.
Cancels(c) ==
  /\ OnLoop /\ fut[c] = "pending"
  /\ fut' = [fut EXCEPT ![c] = "cancelled"] /\ relay' = [relay EXCEPT ![c] = "called"]
  /\ UNCHANGED <<rust, child, outcome, posted, owed, loop, exit, finalized, after>>

\* CancelRelay: tell the Rust side, if it is still there.
Relays(c) ==
  /\ OnLoop /\ relay[c] = "called"
  /\ relay' = [relay EXCEPT ![c] = "sent"]
  /\ UNCHANGED <<rust, child, outcome, fut, posted, owed, loop, exit, finalized, after>>

\* asyncio.run closes its loop: what is queued on it never runs.
Closes ==
  /\ OnLoop
  /\ loop' = "closed" /\ posted' = {}
  /\ UNCHANGED <<rust, child, outcome, fut, relay, owed, exit, finalized, after>>

(* --- interpreter exit ---------------------------------------------------- *)

Exit == /\ exit = "no" /\ exit' = "waiting"
        /\ UNCHANGED <<rust, child, outcome, fut, relay, posted, owed, loop, finalized, after>>

\* A timeout is taken for idle.
WaitIdle_Hopeful(late) ==
  /\ exit = "waiting" /\ (late \/ owed = 0) /\ exit' = "idle"
  /\ UNCHANGED <<rust, child, outcome, fut, relay, posted, owed, loop, finalized, after>>

\* wait_idle returns: nothing is owed, or the second has passed.
WaitIdle(late) ==
  /\ exit = "waiting" /\ (late \/ owed = 0)
  /\ exit' = IF owed = 0 THEN "idle" ELSE "late"
  /\ UNCHANGED <<rust, child, outcome, fut, relay, posted, owed, loop, finalized, after>>

\* Threads that hold the interpreter finish what they do with it first.
Finalizes ==
  /\ exit \in {"idle", "late"} /\ Python
  /\ \A c \in Awaited : rust[c] # "attached" /\ child[c] # "attached"
  /\ finalized' = TRUE
  /\ UNCHANGED <<rust, child, outcome, fut, relay, posted, owed, loop, exit, after>>

Outcomes == {"value", "error"}

BridgeNext ==
  \/ \E c \in Awaited : \/ \E o \in Outcomes : Inline(c, o) \/ Completes(c, o)
                        \/ HandOver(c) \/ Dropped(c) \/ ChildAttaches(c) \/ ChildEnds(c)
                        \/ Checks(c) \/ Attaches(c) \/ Posts(c)
                        \/ Settles(c) \/ Cancels(c) \/ Relays(c)
  \/ Closes \/ Exit \/ (\E late \in BOOLEAN : WaitIdle(late)) \/ Finalizes

BridgeSpec == BridgeInit /\ [][BridgeNext]_bridgeVars

\* The runtime and the loop run what is ready, and a wait that is bounded
\* returns.  Futures outside Endless complete.
BridgeFairness ==
  /\ \A c \in Awaited : /\ WF_bridgeVars(Dropped(c)) /\ WF_bridgeVars(Checks(c)) /\ WF_bridgeVars(Attaches(c))
                        /\ WF_bridgeVars(Posts(c)) /\ WF_bridgeVars(Settles(c)) /\ WF_bridgeVars(Relays(c))
  /\ \A c \in Awaited \ Endless : /\ WF_bridgeVars(\E o \in Outcomes : Completes(c, o))
                                  /\ WF_bridgeVars(ChildEnds(c))
  /\ WF_bridgeVars(\E late \in BOOLEAN : WaitIdle(late))

BridgeFairSpec == BridgeSpec /\ BridgeFairness

(* --- properties ---------------------------------------------------------- *)

\* Types of the variables.
BridgeTypeOK ==
  /\ rust \in [Awaited -> {"none", "running", "ended", "checked", "attached", "over"}]
  /\ child \in [Awaited -> {"none", "running", "attached", "over"}]
  /\ outcome \in [Awaited -> {"none", "value", "error", "dropped"}]
  /\ fut \in [Awaited -> {"none", "pending", "settled", "cancelled"}]
  /\ relay \in [Awaited -> {"idle", "called", "sent"}]
  /\ posted \subseteq Awaited /\ after \subseteq Awaited
  /\ owed \in 0..Cardinality(Awaited)
  /\ loop \in {"open", "closed"} /\ exit \in {"no", "waiting", "idle", "late"}
  /\ finalized \in BOOLEAN

Owing(c) == rust[c] \in {"running", "ended", "checked", "attached"}

\* IN_FLIGHT counts the calls handed over whose outcome is neither posted nor
\* found moot, whatever was cancelled or closed meanwhile.
OwedCounted == owed = Cardinality({c \in Awaited : Owing(c)})

\* An asyncio future is settled at most once, never after a cancellation,
\* and only with the outcome of a Rust future that completed.
SettledOnce ==
  [][\A c \in Awaited : /\ fut[c] \in {"settled", "cancelled"} => fut'[c] = fut[c]
                        /\ fut'[c] = "settled" => outcome'[c] \in Outcomes]_bridgeVars

\* What wait_idle is for: after it has reported idle nothing of a call made
\* before it is left on the runtime, but for the tasks that a call gathered and
\* a cancellation then left behind.
ExitClean ==
  exit = "idle" => \A c \in Awaited \ after :
                     ~Owing(c) /\ (child[c] \in {"running", "attached"} => outcome[c] = "dropped")

\* Cancelling an asyncio future ends its Rust future, even one that would
\* never complete, so nothing is owed for it; unless the loop closed before
\* the relay ran.  The tasks it gathers are not meant: they go on.
CancelReleases ==
  \A c \in Awaited : fut[c] = "cancelled" ~> ~Owing(c) \/ loop = "closed" \/ finalized

\* A completed Rust future settles its asyncio future, unless the caller
\* cancelled it or its loop is gone.
OutcomeDelivered ==
  \A c \in Awaited :
    outcome[c] \in Outcomes ~> fut[c] \in {"settled", "cancelled"} \/ loop = "closed" \/ finalized

=============================================================================
