----------------------------- MODULE ValueMarks -----------------------------
(***************************************************************************)
(* The change marks of a pvAccess Value (src/src/pva/value.rs).  A type is *)
(* a tree of fields numbered in pre-order, the numbers being the bits of   *)
(* the mark set; field 0 is the root.  A Value is the contents of its      *)
(* leaves and its marks.  A leaf is a scalar, an array, a union or a       *)
(* variant: whatever is assigned as a whole under one bit.                 *)
(***************************************************************************)
EXTENDS Naturals, SequencesExt

CONSTANTS
  Size,  \* number of fields of the type
  Up,    \* the parent of every field but the root
  Data,  \* contents of a leaf
  Bad    \* an object the conversion to a field refuses

Fields == 0..(Size - 1)
Structs == {0} \cup {Up[f] : f \in Fields \ {0}}
Leaves == Fields \ Structs

\* Field numbers are a pre-order: the parent of f is f - 1 or above f - 1.
PathUp[f \in Fields] == IF f = 0 THEN {} ELSE {Up[f]} \cup PathUp[Up[f]]

ASSUME ValueAssumption ==
  /\ Size \in Nat \ {0, 1} /\ Up \in [1..(Size - 1) -> 0..(Size - 2)]
  /\ \A f \in 1..(Size - 1) : Up[f] < f /\ (Up[f] = f - 1 \/ Up[f] \in PathUp[f - 1])
  /\ Data # {} /\ Bad \notin Data

Members(f) == {c \in Fields \ {0} : Up[c] = f}

\* total_bits counts a field and everything below it; its bits are as many
\* from its own on.
Below(f) == {g \in Fields : g = f \/ f \in PathUp[g]}
TotalBits(f) == Cardinality(Below(f))
SpanOf(f) == f..(f + TotalBits(f) - 1)

(* --- marks --------------------------------------------------------------- *)

\* mark(field) sets one bit; everything else works on the field's span.
MarkField(marks, f) == marks \cup {f}

\* The span ends one bit late.
MarkSpan_Overlong(marks, f, on) ==
  LET span == f..(f + TotalBits(f)) \cap Fields IN IF on THEN marks \cup span ELSE marks \ span

MarkSpan(marks, f, on) == IF on THEN marks \cup SpanOf(f) ELSE marks \ SpanOf(f)

Changed(marks, f) == SpanOf(f) \cap marks # {} \/ PathUp[f] \cap marks # {}

\* collect_marked: the marked fields from f down; with expand, a marked
\* structure stands for its leaves.
Collect(marks, expand) ==
  LET walk[f \in Fields] ==
        [inherited \in BOOLEAN |->
           LET marked == inherited \/ f \in marks
           IN  IF marked /\ ~(expand /\ f \in Structs)
               THEN {f}
               ELSE UNION {walk[c][marked /\ expand] : c \in Members(f)}]
  IN  walk

\* changedSet of the view f: its own path is empty and left out.
ChangedSet(marks, f, expand) ==
  Collect(marks, expand)[f][PathUp[f] \cap marks # {}] \ {f}

\* What a put sends.
MarkedLeaves(marks) == Collect(marks, TRUE)[0][FALSE]

(* --- assignment ---------------------------------------------------------- *)

\* The dict's items in order, down to leaves: the first object a field
\* refuses ends the assignment, what was assigned before it stays.
Taken(items) == {i \in DOMAIN items : \A j \in 1..i : items[j].obj # Bad}

\* Marks are set only when the whole object was taken.
Assign_MarksLast(v, items) ==
  [data  |-> [l \in Leaves |->
                IF \E i \in Taken(items) : items[i].leaf = l
                THEN items[CHOOSE i \in Taken(items) : items[i].leaf = l].obj ELSE v.data[l]],
   marks |-> IF Taken(items) = DOMAIN items
             THEN v.marks \cup {items[i].leaf : i \in DOMAIN items} ELSE v.marks]

Assign(v, items) ==
  [data  |-> [l \in Leaves |->
                IF \E i \in Taken(items) : items[i].leaf = l
                THEN items[CHOOSE i \in Taken(items) : items[i].leaf = l].obj ELSE v.data[l]],
   marks |-> v.marks \cup {items[i].leaf : i \in Taken(items)}]

Refused(items) == Taken(items) # DOMAIN items

\* A structure assigned from a Value takes every field of it (todict),
\* marked there or not.
ItemsOf(f, data) ==
  LET leaf == SetToSeq(Leaves \cap SpanOf(f))
  IN  [i \in DOMAIN leaf |-> [leaf |-> leaf[i], obj |-> data[leaf[i]]]]
=============================================================================
