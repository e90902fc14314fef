----------------------------- MODULE MC_PvaPut -----------------------------
(***************************************************************************)
(* Small instances of PvaPut.  The type is a structure in a structure:     *)
(*   0 root, 1 alarm, 2 inner, 3 a leaf of inner, 4 value,                 *)
(* and where liveness is checked 0 root, 1 inner, 2 its leaf, 3 value.     *)
(***************************************************************************)
EXTENDS PvaPut

CONSTANTS e1, e2

Nested == [f \in 1..4 |-> IF f = 4 THEN 0 ELSE f - 1]
Shallow == [f \in 1..3 |-> IF f = 3 THEN 0 ELSE f - 1]
Bits == {0, 1}

Both == {e1, e2}
First == {e1}
Second == {<<e2, 3>>}
None == {}
Item(l, x) == [leaf |-> l, obj |-> x]
Some == {<<Item(4, 1)>>, <<Item(3, 1), Item(4, Bad)>>}
Few == {<<Item(3, 1)>>, <<Item(2, 1), Item(3, Bad)>>}
=============================================================================
