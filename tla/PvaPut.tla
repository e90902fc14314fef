------------------------------- MODULE PvaPut -------------------------------
(***************************************************************************)
(* Context.put of the blocking pvAccess client over a list of names        *)
(* (_put_many of src/python/repics/pva/__init__.py) on the two phase put   *)
(* of src/src/pva/client.rs, with the Values it sends (ValueMarks): the    *)
(* caller's own Value, which it assigns and marks before the call, the     *)
(* items of a dict assigned to the value read from the server, or a bare   *)
(* array, assigned to an NTNDArray through its helper.                     *)
(*                                                                         *)
(* One call.  The puts of a batch run concurrently, each against a server  *)
(* of its own, which other clients write too; circuits are lost, and the   *)
(* reply of an executed put may be what is lost.                           *)
(***************************************************************************)
EXTENDS ValueMarks

CONSTANTS
  Entries,    \* the names of the list
  Contended,  \* the leaves other clients write too, with their names
  OwnValue,   \* the entries whose value is the caller's Value, mine
  Dicts,      \* what the other entries may put, sequences of items
  MaxMarks    \* bound: marks of the caller's Value when it puts it

ASSUME PutAssumption ==
  /\ OwnValue \subseteq Entries /\ Contended \subseteq Entries \X Leaves /\ MaxMarks \in Nat
  /\ \A d \in Dicts : d # <<>> /\ d \in Seq([leaf : Leaves, obj : Data \cup {Bad}])

VARIABLES
  mine,     \* the caller's Value: data, marks
  base,     \* ghost: its leaves as they were when last found unmarked
  pc,       \* "build" mine, then "begin" and "commit", "returned", "raised"
  throw, get, dict,  \* arguments of the call
  bare,     \* the entries whose items are those of a bare array
  deadline, \* FALSE: the timeout is None
  pending,  \* entries of this round
  op,       \* each entry's PutOp: "none", "opening", "open", "failed", "sent",
            \* "executed", "acked", "refused", "lost"
  value,    \* the Value an open op sends
  result,   \* "none" yet, "ok", "failed" or "lost"
  late,     \* the timeout has passed since the call started
  server,   \* each name's leaves
  ran       \* ghost, each put: "never" executed, "ran" since its circuit was
            \* last lost while it committed, "lost" after it ran, ran "twice"

call == <<throw, get, dict, bare, deadline>>
vars == <<mine, base, pc, call, pending, op, value, result, late, server, ran>>

AnyDict == CHOOSE d \in Dicts : TRUE
Fresh == [data |-> [l \in Leaves |-> CHOOSE d \in Data : TRUE], marks |-> {}]

Init ==
  /\ mine = Fresh /\ base = Fresh.data /\ pc = "build"
  /\ throw = FALSE /\ get = FALSE /\ bare = {} /\ deadline = FALSE
  /\ dict = [e \in Entries |-> <<>>]
  /\ pending = {} /\ op = [e \in Entries |-> "none"] /\ value = [e \in Entries |-> Fresh]
  /\ result = [e \in Entries |-> "none"] /\ late = FALSE
  /\ server = [e \in Entries |-> Fresh.data]
  /\ ran = [e \in Entries |-> "never"]

Rest == <<call, pending, op, value, result, late, server, ran>>

(* --- the caller builds its Value ----------------------------------------- *)

\* The leaves a step leaves no mark over start over in base.
Becomes(v) ==
  /\ pc = "build" /\ mine' = v
  /\ base' = [l \in Leaves |-> IF Changed(v.marks, l) \/ ~Changed(mine.marks, l)
                               THEN base[l] ELSE v.data[l]]
  /\ UNCHANGED <<pc, Rest>>

MarkIt(f) == Becomes([mine EXCEPT !.marks = MarkField(@, f)])
MarkView(f) == Becomes([mine EXCEPT !.marks = MarkSpan(@, f, TRUE)])
Unmark(f) == Becomes([mine EXCEPT !.marks = MarkSpan(@, f, FALSE)])
SetItems(items) == Becomes(Assign(mine, items))
\* select() of a union field: it holds the member's default.
Select(l, x) == l \in Leaves /\ Becomes([data |-> [mine.data EXCEPT ![l] = x],
                                        marks |-> MarkField(mine.marks, l)])
\* From a detached Value, all of whose leaves hold x.
SetValue(f, x) == f \in Structs /\ SetItems(ItemsOf(f, [l \in Leaves |-> x]))

(* --- the call ------------------------------------------------------------ *)

\* put_begin_many over the entries of es.
Opens(es) ==
  /\ pending' = es /\ pc' = "begin"
  /\ op' = [e \in Entries |-> IF e \in es THEN "opening" ELSE "none"]

Put ==
  /\ pc = "build" /\ Opens(Entries)
  /\ Cardinality(mine.marks) <= MaxMarks
  /\ throw' \in BOOLEAN /\ get' \in BOOLEAN /\ deadline' \in BOOLEAN
  /\ bare' \in SUBSET (Entries \ OwnValue)
  /\ dict' \in [Entries -> Dicts] /\ \A e \in OwnValue : dict'[e] = AnyDict
  /\ base' = mine.data
  /\ UNCHANGED <<mine, value, result, late, server, ran>>

\* The type is known and, with fetch, the current value read, all of it
\* marked.  Without, the op's value starts from the type alone.
Current(e) == IF get THEN [data |-> server[e], marks |-> Fields] ELSE Fresh

Begun(e, ok) ==
  /\ pc = "begin" /\ op[e] = "opening"
  /\ op' = [op EXCEPT ![e] = IF ok THEN "open" ELSE "failed"]
  /\ value' = IF ok THEN [value EXCEPT ![e] = IF e \in OwnValue THEN mine ELSE Current(e)] ELSE value
  /\ UNCHANGED <<mine, base, pc, call, pending, result, late, server, ran>>

\* NTNDArray.assign: a whole structure is wrapped around the array, and every
\* field of that is assigned.  The other helpers assign what they were given.
Wrapped(items) == ItemsOf(0, Assign(Fresh, items).data)
Helped(e) == IF e \in bare THEN Wrapped(dict[e]) ELSE dict[e]

\* Wrapping.assign without its V.unmark().
Filled_Marked(e) == IF e \in OwnValue THEN value[e] ELSE Assign(value[e], Helped(e))

\* Wrapping.assign: unmarked, then assigned through the NT helper.
Filled(e) ==
  IF e \in OwnValue THEN value[e]
  ELSE Assign([value[e] EXCEPT !.marks = MarkSpan(@, 0, FALSE)], Helped(e))

Ready == {e \in pending : op[e] = "open"}

Raises == /\ pc' = "raised" /\ op' = [e \in Entries |-> "none"]
          /\ pending' = {} /\ value' = [e \in Entries |-> Fresh]
          /\ UNCHANGED <<mine, base, call, result, late, server, ran>>

\* What fails before anything is sent: a begin, with throw; an assignment;
\* a Value with nothing marked, at which put_commit_many fails as a whole.
BatchFails ==
  \/ throw /\ \E e \in pending : op[e] = "failed"
  \/ \E e \in Ready : \/ e \notin OwnValue /\ Refused(dict[e])
                      \/ MarkedLeaves(Filled(e).marks) = {}

AllBegun == pc = "begin" /\ \A e \in pending : op[e] \in {"open", "failed"}

Abort == AllBegun /\ BatchFails /\ Raises

Commit ==
  /\ AllBegun /\ ~BatchFails /\ pc' = "commit"
  /\ value' = [e \in Entries |-> IF e \in Ready THEN Filled(e) ELSE value[e]]
  /\ op' = [e \in Entries |-> IF e \in Ready THEN "sent" ELSE "none"]
  /\ result' = [e \in Entries |-> IF e \in pending \ Ready THEN "failed" ELSE result[e]]
  /\ pending' = Ready
  /\ UNCHANGED <<mine, base, call, late, server, ran>>

\* The server takes the marked leaves ...
Executes(e) ==
  /\ op[e] = "sent" /\ pc = "commit"
  /\ server' = [server EXCEPT ![e] = [l \in Leaves |-> IF l \in MarkedLeaves(value[e].marks)
                                                       THEN value[e].data[l] ELSE @[l]]]
  /\ op' = [op EXCEPT ![e] = "executed"] /\ ran' = [ran EXCEPT ![e] = IF @ = "ran" THEN "twice" ELSE "ran"]
  /\ UNCHANGED <<mine, base, pc, call, pending, value, result, late>>

\* ... and its status arrives, or an error does: the server refuses, the
\* timeout passes, or the circuit is lost before or after the server acted.
Answered(e, how) ==
  /\ pc = "commit"
  /\ \/ op[e] = "executed" /\ how \in {"acked", "lost", "refused"}
     \/ op[e] = "sent" /\ how \in {"lost", "refused"}
  /\ op' = [op EXCEPT ![e] = how]
  /\ ran' = IF how = "lost" /\ ran[e] = "ran" THEN [ran EXCEPT ![e] = "lost"] ELSE ran
  /\ UNCHANGED <<mine, base, pc, call, pending, value, result, late, server>>

AllAnswered == pc = "commit" /\ \A e \in pending : op[e] \in {"acked", "lost", "refused"}

\* Begun again: every exception.
Again_Errors == {e \in pending : op[e] \in {"lost", "refused"} /\ ~late}

\* Begun again: every circuit lost, however late.
Again_Tireless == {e \in pending : op[e] = "lost"}

\* Begun again: the circuits lost before the timeout passed; all, without one.
Again == {e \in pending : op[e] = "lost" /\ (~deadline \/ ~late)}

Verdict(e) == CASE op[e] = "acked" -> "ok" [] op[e] = "lost" -> "lost" [] OTHER -> "failed"

Failing == AllAnswered /\ throw /\ (\E e \in pending \ Again : op[e] # "acked") /\ Raises

Returns == pc' = "returned" /\ pending' = {} /\ op' = [e \in Entries |-> "none"]

Settle ==
  /\ AllAnswered /\ ~(throw /\ \E e \in pending \ Again : op[e] # "acked")
  /\ result' = [e \in Entries |-> IF e \in pending \ Again THEN Verdict(e) ELSE result[e]]
  /\ IF Again = {} THEN Returns ELSE Opens(Again)
  /\ value' = [e \in Entries |-> Fresh]
  /\ UNCHANGED <<mine, base, call, late, server, ran>>

(* --- around it ----------------------------------------------------------- *)

Expires == /\ deadline /\ pc \in {"begin", "commit"} /\ ~late /\ late' = TRUE
           /\ UNCHANGED <<mine, base, pc, call, pending, op, value, result, server, ran>>

OthersPut(e, l, x) ==
  /\ <<e, l>> \in Contended /\ pc \in {"begin", "commit"} /\ server' = [server EXCEPT ![e][l] = x]
  /\ UNCHANGED <<mine, base, pc, call, pending, op, value, result, late, ran>>

Next ==
  \/ \E f \in Fields : MarkIt(f) \/ MarkView(f) \/ Unmark(f) \/ (\E x \in Data : SetValue(f, x) \/ Select(f, x))
  \/ \E d \in Dicts : SetItems(d)
  \/ Put \/ Abort \/ Commit \/ Failing \/ Settle \/ Expires
  \/ \E e \in Entries : \/ \E ok \in BOOLEAN : Begun(e, ok)
                        \/ Executes(e) \/ (\E how \in {"acked", "lost", "refused"} : Answered(e, how))
                        \/ \E l \in Leaves, x \in Data : OthersPut(e, l, x)

Spec == Init /\ [][Next]_vars

\* Conversions end and time passes; with a timeout, servers and circuits
\* answer or it does.
Fairness ==
  /\ WF_vars(Abort) /\ WF_vars(Commit) /\ WF_vars(Failing) /\ WF_vars(Settle) /\ WF_vars(Expires)
  /\ \A e \in Entries :
       /\ WF_vars(deadline /\ \E ok \in BOOLEAN : Begun(e, ok))
       /\ WF_vars(deadline /\ \E how \in {"acked", "lost", "refused"} : Answered(e, how))

FairSpec == Spec /\ Fairness

(* --- properties ---------------------------------------------------------- *)

Values == [data: [Leaves -> Data], marks: SUBSET Fields]

\* Types, and which ops a phase has.
TypeOK ==
  /\ mine \in Values /\ base \in [Leaves -> Data]
  /\ pc \in {"build", "begin", "commit", "returned", "raised"}
  /\ throw \in BOOLEAN /\ get \in BOOLEAN /\ deadline \in BOOLEAN /\ late \in BOOLEAN
  /\ bare \in SUBSET (Entries \ OwnValue)
  /\ dict \in [Entries -> Dicts \cup {<<>>}] /\ pending \subseteq Entries
  /\ value \in [Entries -> Values]
  /\ op \in [Entries -> {"none", "opening", "open", "failed", "sent", "executed", "acked", "refused", "lost"}]
  /\ result \in [Entries -> {"none", "ok", "failed", "lost"}]
  /\ ran \in [Entries -> {"never", "ran", "lost", "twice"}]
  /\ server \in [Entries -> [Leaves -> Data]]
  /\ pc = "commit" => \A e \in pending : op[e] \notin {"none", "opening", "open", "failed"}

Under(f) == {l \in Leaves : l = f \/ f \in PathUp[l]}
Marked(marks, l) == l \in marks \/ PathUp[l] \cap marks # {}

\* changed(), changedSet() and what a put sends tell one story: a field has
\* changed when a leaf under it would be sent, and changedSet(expand=True)
\* of a view lists just those leaves.  And no change escapes them: a leaf
\* that differs from what it was when last unmarked would be sent, also
\* after an assignment that failed half way.
MarksAgree ==
  LET sent == MarkedLeaves(mine.marks)
  IN  /\ \A l \in Leaves : mine.data[l] # base[l] => l \in sent
      /\ sent = {l \in Leaves : Marked(mine.marks, l)}
      /\ \A f \in Fields : /\ Changed(mine.marks, f) <=> Under(f) \cap sent # {}
                           /\ ChangedSet(mine.marks, f, TRUE) = (Under(f) \cap sent) \ {f}

\* Unmarking a field leaves every leaf outside it as marked as it was.
UnmarkSpares ==
  [][\A f \in Fields : Unmark(f) =>
       \A l \in Leaves \ Under(f) : Marked(mine.marks, l) = Marked(mine'.marks, l)]_vars

\* The leaves the caller gave.
Given(e) == IF e \in OwnValue THEN MarkedLeaves(mine.marks) ELSE {dict[e][i].leaf : i \in DOMAIN dict[e]}

\* A bare array stands for the whole structure its helper wraps around it.
Named(e) == IF e \in bare THEN Leaves ELSE Given(e)

\* A put changes at the server only what its caller named: the current
\* value it was built from, which another client may have overwritten
\* since, is not written back.  A bare array counts as naming every field,
\* though docs/pva-client.md (line 78) speaks of its value field only.
PutSendsNamed ==
  [][\A e \in Entries : Executes(e) =>
       \A l \in Leaves \ Named(e) : server'[e][l] = server[e][l]]_vars

\* What the verdicts say of the servers: "one entry per name", None only for
\* a put the server executed and whose circuit was not lost since; and a put is
\* executed again only after its circuit was lost under it.
VerdictsTrue ==
  /\ TypeOK
  /\ pc = "returned" => \A e \in Entries : result[e] # "none" /\ (throw => result[e] = "ok")
  /\ \A e \in Entries : ran[e] # "twice" /\ (result[e] = "ok" => ran[e] = "ran")

\* A call with a timeout ends, whatever circuits are lost: with the timeout
\* passed nothing is begun again.  With timeout=None it may go on for ever.
PutEnds == pc = "begin" /\ deadline ~> pc \in {"returned", "raised"}
=============================================================================
