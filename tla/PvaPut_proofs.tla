---------------------------- MODULE PvaPut_proofs ----------------------------
(***************************************************************************)
(* Theorems about PvaPut and the marks of the Values it sends, for types   *)
(* of any size and shape, any entries, contents, dicts and bounds.         *)
(*                                                                         *)
(* First the tree of fields: its numbers are a pre-order, so the span that *)
(* mark, unmark and changed work on is the field and all that is below it. *)
(* Then the walk behind changedSet and put, which finds the marked leaves: *)
(* by induction from the last field to the root.  Then what an assignment  *)
(* does to the marks, and with that the invariant of the call.             *)
(***************************************************************************)
EXTENDS PvaPut, FiniteSetTheorems, SequenceTheorems, WellFoundedInduction, TLAPS

-----------------------------------------------------------------------------
(* Induction over the naturals, with a set for the predicate.              *)
NatLess == {p \in Nat \X Nat : p[1] < p[2]}

(* What holds of 0, and of n + 1 if of n, holds of every natural number.   *)
LEMMA Climb ==
  ASSUME NEW T, 0 \in T, \A n \in Nat : n \in T => n + 1 \in T
  PROVE  \A n \in Nat : n \in T
<1>1. IsWellFoundedOn(NatLess, Nat)
  BY NatLessThanWellFounded DEF OpToRel, NatLess
<1> DEFINE Out == {n \in Nat : n \notin T}
<1>2. SUFFICES ASSUME Out # {} PROVE FALSE
  OBVIOUS
<1>3. PICK m \in Out : \A y \in Out : ~(<<y, m>> \in NatLess)
  <2>1. Out \subseteq Nat
    OBVIOUS
  <2> HIDE DEF Out
  <2> QED BY <1>1, <1>2, <2>1, WFMin
<1>4. m \in Nat /\ m # 0 /\ m \notin T
  OBVIOUS
<1>5. m - 1 \in Nat /\ m - 1 < m /\ (m - 1) + 1 = m
  BY <1>4
<1>6. <<m - 1, m>> \in NatLess
  BY <1>4, <1>5 DEF NatLess
<1>7. m - 1 \in T
  BY <1>3, <1>5, <1>6
<1> QED BY <1>4, <1>5, <1>7

(* Fields are numbers from the root's 0 on.                                *)
LEMMA Numbered ==
  /\ Size \in Nat /\ Size >= 2 /\ 0 \in Fields
  /\ \A f \in Fields : f \in Nat /\ f < Size
  /\ \A n \in Nat : n < Size => n \in Fields
BY ValueAssumption DEF Fields

(* A parent has a smaller number than its members.                         *)
LEMMA Parent ==
  ASSUME NEW f \in Fields, f # 0
  PROVE  /\ Up[f] \in Fields /\ Up[f] \in Nat /\ Up[f] < f /\ f - 1 \in Fields
         /\ Up[f] = f - 1 \/ Up[f] \in PathUp[f - 1]
<1>1. f \in 1..(Size - 1)
  BY Numbered
<1> QED BY <1>1, ValueAssumption DEF Fields

LEMMA MemberIs ==
  ASSUME NEW f \in Fields, NEW c \in Members(f)
  PROVE  c \in Fields /\ c # 0 /\ Up[c] = f /\ f < c
<1>1. c \in Fields /\ c # 0 /\ Up[c] = f
  BY DEF Members
<1> QED BY <1>1, Parent

(* A structure has members and a leaf none.                                *)
LEMMA StructIs ==
  /\ 0 \in Structs /\ Structs \subseteq Fields /\ Leaves \subseteq Fields
  /\ \A f \in Fields : /\ f \in Structs <=> Members(f) # {}
                       /\ f \in Leaves <=> f \notin Structs
<1>1. Structs \subseteq Fields /\ Leaves \subseteq Fields /\ 0 \in Structs
  BY Numbered, Parent DEF Structs, Leaves
<1>2. 1 \in Members(0)
  <2>1. 1 \in Fields /\ 1 # 0
    BY Numbered
  <2>2. Up[1] = 0
    BY <2>1, Parent
  <2> QED BY <2>1, <2>2 DEF Members
<1>3. ASSUME NEW f \in Fields PROVE f \in Structs <=> Members(f) # {}
  <2>1. CASE f = 0
    BY <1>1, <1>2, <2>1
  <2>2. CASE f # 0
    BY <2>2 DEF Structs, Members
  <2> QED BY <2>1, <2>2
<1> QED BY <1>1, <1>3 DEF Leaves

-----------------------------------------------------------------------------
(* The path to the root: the recursion that defines it has an answer.      *)
IsPaths(u, m) == u = [f \in 0..m |-> IF f = 0 THEN {} ELSE {Up[f]} \cup u[Up[f]]]

LEMMA PathsExist == \E u : IsPaths(u, Size - 1)
<1> DEFINE T == {k \in Nat : k < Size => \E u : IsPaths(u, k)}
<1>1. 0 \in T
  <2> DEFINE h == [f \in 0..0 |-> {}]
  <2>1. h = [f \in 0..0 |-> IF f = 0 THEN {} ELSE {Up[f]} \cup h[Up[f]]]
    OBVIOUS
  <2> HIDE DEF h
  <2>2. IsPaths(h, 0)
    BY <2>1 DEF IsPaths
  <2> QED BY <2>2
<1>2. ASSUME NEW k \in Nat, k \in T PROVE k + 1 \in T
  <2> SUFFICES ASSUME k + 1 < Size PROVE \E u : IsPaths(u, k + 1)
    OBVIOUS
  <2>1. PICK u : IsPaths(u, k)
    BY <1>2, Numbered
  <2>2. \A f \in 0..k : u[f] = IF f = 0 THEN {} ELSE {Up[f]} \cup u[Up[f]]
    BY <2>1 DEF IsPaths
  <2> DEFINE h == [f \in 0..(k + 1) |-> IF f <= k THEN u[f] ELSE {Up[f]} \cup u[Up[f]]]
  <2>3. /\ h = [f \in 0..(k + 1) |-> h[f]]
        /\ \A f \in 0..k : h[f] = u[f]
        /\ h[k + 1] = {Up[k + 1]} \cup u[Up[k + 1]]
    OBVIOUS
  <2> HIDE DEF h
  <2>4. ASSUME NEW f \in 0..(k + 1)
        PROVE  h[f] = IF f = 0 THEN {} ELSE {Up[f]} \cup h[Up[f]]
    <3>1. CASE f = 0
      <4>1. 0 \in 0..k
        OBVIOUS
      <4>2. h[0] = {}
        BY <2>2, <2>3, <4>1
      <4> QED BY <3>1, <4>2
    <3>2. CASE f # 0
      <4>1. f \in Fields
        BY Numbered
      <4>2. Up[f] \in Nat /\ Up[f] < f
        BY <3>2, <4>1, Parent
      <4>3. CASE f <= k
        <5>1. f \in 0..k /\ Up[f] \in 0..k
          BY <4>2, <4>3
        <5> QED BY <2>2, <2>3, <3>2, <4>2, <5>1
      <4>4. CASE f = k + 1
        <5>1. Up[f] \in 0..k
          BY <4>2, <4>4
        <5> QED BY <2>3, <3>2, <4>4, <5>1
      <4> QED BY <4>3, <4>4
    <3> QED BY <3>1, <3>2
  <2>5. IsPaths(h, k + 1)
    BY <2>3, <2>4 DEF IsPaths
  <2> QED BY <2>5
<1>3. \A k \in Nat : k \in T
  <2> HIDE DEF T
  <2> QED BY <1>1, <1>2, Climb
<1>4. Size - 1 \in Nat /\ Size - 1 < Size
  BY Numbered
<1> QED BY <1>3, <1>4

LEMMA PathIs ==
  /\ PathUp[0] = {}
  /\ \A f \in Fields \ {0} : PathUp[f] = {Up[f]} \cup PathUp[Up[f]]
<1> DEFINE u == CHOOSE u : u = [f \in Fields |-> IF f = 0 THEN {} ELSE {Up[f]} \cup u[Up[f]]]
<1>1. u = [f \in Fields |-> IF f = 0 THEN {} ELSE {Up[f]} \cup u[Up[f]]]
  BY PathsExist DEF IsPaths, Fields
<1>2. PathUp = u
  BY DEF PathUp
<1> HIDE DEF u
<1>3. 0 \in Fields
  BY Numbered
<1> QED BY <1>1, <1>2, <1>3

(* Whatever is above a field has a smaller number, and so has what is      *)
(* above that.                                                             *)
LEMMA PathAbove ==
  \A f \in Fields : /\ PathUp[f] \subseteq Fields
                    /\ \A g \in PathUp[f] : g < f /\ PathUp[g] \subseteq PathUp[f]
<1> DEFINE Good(f) == /\ PathUp[f] \subseteq Fields
                      /\ \A g \in PathUp[f] : g < f /\ PathUp[g] \subseteq PathUp[f]
           T == {k \in Nat : \A f \in Fields : f <= k => Good(f)}
<1>1. 0 \in T
  <2> SUFFICES ASSUME NEW f \in Fields, f <= 0 PROVE Good(f)
    OBVIOUS
  <2>1. f = 0
    BY Numbered
  <2> QED BY <2>1, PathIs
<1>2. ASSUME NEW k \in Nat, k \in T PROVE k + 1 \in T
  <2> SUFFICES ASSUME NEW f \in Fields, f <= k + 1 PROVE Good(f)
    OBVIOUS
  <2>1. CASE f <= k
    BY <1>2, <2>1
  <2>2. CASE f = k + 1
    <3>1. f # 0 /\ f \in Nat
      BY <2>2
    <3>2. Up[f] \in Fields /\ Up[f] < f /\ Up[f] \in Nat
      BY <3>1, Parent
    <3>6. Up[f] <= k
      BY <2>2, <3>2
    <3>3. Good(Up[f])
      BY <1>2, <3>2, <3>6
    <3>4. PathUp[f] = {Up[f]} \cup PathUp[Up[f]]
      BY <3>1, PathIs
    <3>5. ASSUME NEW g \in PathUp[f] PROVE g < f
      <4>1. CASE g = Up[f]
        BY <3>2, <4>1
      <4>2. CASE g \in PathUp[Up[f]]
        <5>1. g < Up[f] /\ g \in Nat
          BY <3>3, <4>2, Numbered
        <5> QED BY <3>1, <3>2, <5>1
      <4> QED BY <3>4, <4>1, <4>2
    <3> QED BY <3>2, <3>3, <3>4, <3>5
  <2>3. f \in Nat
    BY Numbered
  <2> QED BY <2>1, <2>2, <2>3
<1>3. \A k \in Nat : k \in T
  <2> HIDE DEF T
  <2> QED BY <1>1, <1>2, Climb
<1>4. ASSUME NEW f \in Fields PROVE Good(f)
  <2>1. f \in Nat /\ f <= f
    BY Numbered
  <2>2. f \in T
    BY <1>3, <2>1
  <2> QED BY <2>1, <2>2
<1> QED BY <1>4

-----------------------------------------------------------------------------
(* A field is below itself; below a field is what has it on its path.      *)
LEMMA BelowIs ==
  ASSUME NEW f \in Fields
  PROVE  /\ f \in Below(f) /\ Below(f) \subseteq Fields
         /\ \A g \in Below(f) : g \in Nat /\ f <= g
         /\ \A g \in Below(f) : Below(g) \subseteq Below(f)
<1>1. f \in Below(f) /\ Below(f) \subseteq Fields
  BY DEF Below
<1>2. ASSUME NEW g \in Below(f) PROVE g \in Nat /\ f <= g
  <2>1. g \in Fields /\ (g = f \/ f \in PathUp[g])
    BY DEF Below
  <2> QED BY <2>1, PathAbove, Numbered
<1>3. ASSUME NEW g \in Below(f), NEW h \in Below(g) PROVE h \in Below(f)
  BY PathAbove DEF Below
<1> QED BY <1>1, <1>2, <1>3

(* In pre-order the field before one below f is below f, or f itself.      *)
LEMMA OneBefore ==
  ASSUME NEW f \in Fields, NEW g \in Below(f), g # f
  PROVE  g - 1 \in Below(f)
<1>1. g \in Fields /\ f \in PathUp[g] /\ g # 0
  BY PathIs DEF Below
<1>2. f = Up[g] \/ f \in PathUp[Up[g]]
  BY <1>1, PathIs
<1>3. g - 1 \in Fields /\ (Up[g] = g - 1 \/ Up[g] \in PathUp[g - 1])
  BY <1>1, Parent
<1>4. CASE Up[g] = g - 1
  BY <1>2, <1>3, <1>4 DEF Below
<1>5. CASE Up[g] \in PathUp[g - 1]
  <2>1. PathUp[Up[g]] \subseteq PathUp[g - 1]
    BY <1>3, <1>5, PathAbove
  <2> QED BY <1>2, <1>3, <1>5, <2>1 DEF Below
<1> QED BY <1>3, <1>4, <1>5

(* So nothing between a field and one below it is elsewhere ...            *)
LEMMA Between ==
  ASSUME NEW f \in Fields, NEW g \in Below(f), NEW h \in Nat, f <= h, h <= g
  PROVE  h \in Below(f)
<1> DEFINE T == {k \in Nat : k <= g - f => g - k \in Below(f)}
<1>0. f \in Nat /\ g \in Nat /\ f <= g
  BY BelowIs, Numbered
<1>1. 0 \in T
  BY <1>0
<1>2. ASSUME NEW k \in Nat, k \in T PROVE k + 1 \in T
  <2> SUFFICES ASSUME k + 1 <= g - f PROVE g - (k + 1) \in Below(f)
    OBVIOUS
  <2>1. g - k \in Below(f) /\ g - k # f
    BY <1>0, <1>2
  <2>2. (g - k) - 1 \in Below(f)
    BY <2>1, OneBefore
  <2>3. (g - k) - 1 = g - (k + 1)
    BY <1>0
  <2> QED BY <2>2, <2>3
<1>3. \A k \in Nat : k \in T
  <2> HIDE DEF T
  <2> QED BY <1>1, <1>2, Climb
<1>4. g - h \in Nat /\ g - h <= g - f /\ g - (g - h) = h
  BY <1>0
<1> QED BY <1>3, <1>4

(* ... and what is below is an interval: it ends somewhere, ...            *)
LEMMA LastBelow ==
  ASSUME NEW f \in Fields
  PROVE  \E m \in Below(f) : \A g \in Below(f) : g <= m
<1> DEFINE T == {k \in Nat : \/ \E g \in Below(f) : f + k <= g
                             \/ \E m \in Below(f) : \A g \in Below(f) : g <= m}
<1>0. f \in Nat
  BY Numbered
<1>1. 0 \in T
  BY <1>0, BelowIs
<1>2. ASSUME NEW k \in Nat, k \in T PROVE k + 1 \in T
  <2>1. CASE \E g \in Below(f) : f + k <= g
    <3>1. PICK g \in Below(f) : f + k <= g
      BY <2>1
    <3>2. CASE \E h \in Below(f) : f + (k + 1) <= h
      BY <3>2
    <3>3. CASE ~\E h \in Below(f) : f + (k + 1) <= h
      <4>1. \A h \in Below(f) : h <= f + k
        BY <1>0, <3>3, BelowIs
      <4>2. \A h \in Below(f) : h <= g
        BY <1>0, <3>1, <4>1, BelowIs
      <4> QED BY <4>2
    <3> QED BY <3>2, <3>3
  <2> QED BY <1>2, <2>1
<1>3. \A k \in Nat : k \in T
  <2> HIDE DEF T
  <2> QED BY <1>1, <1>2, Climb
<1>4. Size \in T
  BY <1>3, Numbered
<1>5. ~\E g \in Below(f) : f + Size <= g
  <2> SUFFICES ASSUME NEW g \in Below(f), f + Size <= g PROVE FALSE
    OBVIOUS
  <2>1. g \in Nat /\ g < Size /\ Size \in Nat
    BY BelowIs, Numbered
  <2> QED BY <1>0, <2>1
<1> QED BY <1>4, <1>5

(* ... after as many bits as there are fields in it: the span that mark,   *)
(* unmark and changed work on is the field and what is below it.           *)
LEMMA SpanIsBelow ==
  ASSUME NEW f \in Fields PROVE SpanOf(f) = Below(f)
<1>1. PICK m \in Below(f) : \A g \in Below(f) : g <= m
  BY LastBelow
<1>2. f \in Nat /\ m \in Nat /\ f <= m
  BY BelowIs, Numbered
<1>3. Below(f) = f..m
  <2>1. \A g \in Below(f) : g \in f..m
    BY <1>1, <1>2, BelowIs
  <2>2. \A h \in f..m : h \in Nat /\ f <= h /\ h <= m
    BY <1>2
  <2> QED BY <2>1, <2>2, Between
<1>4. Cardinality(Below(f)) = m - f + 1
  <2>1. f \in Int /\ m \in Int
    BY <1>2
  <2>2. Cardinality(f..m) = IF f > m THEN 0 ELSE m - f + 1
    BY <2>1, FS_Interval
  <2> QED BY <1>2, <1>3, <2>2
<1>5. f + TotalBits(f) - 1 = m
  BY <1>2, <1>4 DEF TotalBits
<1> QED BY <1>3, <1>5 DEF SpanOf

(* Of two fields above a third, or the same, one is below the other.       *)
LEMMA Comparable ==
  ASSUME NEW f \in Fields, NEW g \in Fields, NEW l, l \in Below(f), l \in Below(g), f <= g
  PROVE  g \in Below(f)
<1>1. g \in Nat /\ g <= l
  BY BelowIs
<1> QED BY <1>1, Between

(* Everything is below the root.                                           *)
LEMMA RootIsAll == Below(0) = Fields
<1> DEFINE T == {k \in Nat : \A f \in Fields : f <= k => f \in Below(0)}
<1>0. 0 \in Fields
  BY Numbered
<1>1. 0 \in T
  BY <1>0, BelowIs, Numbered
<1>2. ASSUME NEW k \in Nat, k \in T PROVE k + 1 \in T
  <2> SUFFICES ASSUME NEW f \in Fields, f <= k + 1 PROVE f \in Below(0)
    OBVIOUS
  <2>1. CASE f = 0
    BY <1>0, <2>1, BelowIs
  <2>2. CASE f # 0
    <3>1. Up[f] \in Fields /\ Up[f] \in Nat /\ Up[f] < f /\ f \in Nat
      BY <2>2, Parent, Numbered
    <3>2. Up[f] <= k
      BY <3>1
    <3>3. Up[f] \in Below(0)
      BY <1>2, <3>1, <3>2
    <3>4. f \in Below(Up[f])
      BY <2>2, PathIs DEF Below
    <3> QED BY <1>0, <3>3, <3>4, BelowIs
  <2> QED BY <2>1, <2>2
<1>3. \A k \in Nat : k \in T
  <2> HIDE DEF T
  <2> QED BY <1>1, <1>2, Climb
<1>4. ASSUME NEW f \in Fields PROVE f \in Below(0)
  <2>1. f \in Nat /\ f <= f
    BY Numbered
  <2>2. f \in T
    BY <1>3, <2>1
  <2> QED BY <2>1, <2>2
<1> QED BY <1>0, <1>4, BelowIs

(* What is below a structure, and not itself, is below a member of it.     *)
LEMMA BelowMember ==
  ASSUME NEW f \in Fields, NEW g \in Below(f), g # f
  PROVE  \E c \in Members(f) : g \in Below(c)
<1> DEFINE T == {k \in Nat : \A h \in Below(f) : h <= k /\ h # f => \E c \in Members(f) : h \in Below(c)}
<1>1. 0 \in T
  <2> SUFFICES ASSUME NEW h \in Below(f), h <= 0, h # f PROVE FALSE
    OBVIOUS
  <2>1. h \in Nat /\ f <= h /\ f \in Nat
    BY BelowIs, Numbered
  <2> QED BY <2>1
<1>2. ASSUME NEW k \in Nat, k \in T PROVE k + 1 \in T
  <2> SUFFICES ASSUME NEW h \in Below(f), h <= k + 1, h # f
               PROVE  \E c \in Members(f) : h \in Below(c)
    OBVIOUS
  <2>1. h \in Fields /\ f \in PathUp[h] /\ h # 0
    BY PathIs DEF Below
  <2>2. Up[h] \in Fields /\ Up[h] \in Nat /\ Up[h] < h /\ h \in Nat
    BY <2>1, Parent, Numbered
  <2>3. f = Up[h] \/ f \in PathUp[Up[h]]
    BY <2>1, PathIs
  <2>4. CASE f = Up[h]
    <3>1. h \in Members(f) /\ h \in Below(h)
      BY <2>1, <2>4, BelowIs DEF Members
    <3> QED BY <3>1
  <2>5. CASE f # Up[h]
    <3>1. Up[h] \in Below(f) /\ Up[h] <= k
      BY <2>2, <2>3, <2>5 DEF Below
    <3>2. PICK c \in Members(f) : Up[h] \in Below(c)
      BY <1>2, <2>5, <3>1
    <3>3. c \in Fields
      BY MemberIs
    <3>4. h \in Below(Up[h])
      BY <2>1, PathIs DEF Below
    <3>5. h \in Below(c)
      BY <3>2, <3>3, <3>4, BelowIs
    <3> QED BY <3>5
  <2> QED BY <2>4, <2>5
<1>3. \A k \in Nat : k \in T
  <2> HIDE DEF T
  <2> QED BY <1>1, <1>2, Climb
<1>4. g \in Nat /\ g <= g
  BY BelowIs
<1>5. g \in T
  BY <1>3, <1>4
<1> QED BY <1>4, <1>5

LEMMA MemberBelow ==
  ASSUME NEW f \in Fields, NEW c \in Members(f)
  PROVE  c \in Below(f) /\ Below(c) \subseteq Below(f) /\ f \notin Below(c)
<1>1. c \in Fields /\ c # 0 /\ Up[c] = f /\ f < c /\ f \in Nat /\ c \in Nat
  BY MemberIs, Numbered
<1>2. c \in Below(f)
  BY <1>1, PathIs DEF Below
<1>3. f \notin Below(c)
  BY <1>1, BelowIs
<1> QED BY <1>2, <1>3, BelowIs

(* Every field has a leaf below it, or is one.                             *)
LEMMA LeafBelow ==
  ASSUME NEW f \in Fields PROVE \E l \in Leaves : l \in Below(f)
<1>1. PICK m \in Below(f) : \A g \in Below(f) : g <= m
  BY LastBelow
<1>2. m \in Fields /\ m \in Nat
  BY BelowIs
<1>3. Members(m) = {}
  <2> SUFFICES ASSUME NEW c \in Members(m) PROVE FALSE
    OBVIOUS
  <2>1. c \in Below(m) /\ m < c /\ c \in Nat
    BY <1>2, MemberBelow, MemberIs, Numbered
  <2>2. c <= m
    BY <1>1, <2>1, BelowIs
  <2> QED BY <1>2, <2>1, <2>2
<1>4. m \in Leaves
  BY <1>2, <1>3, StructIs
<1> QED BY <1>4

-----------------------------------------------------------------------------
(* The walk over the marked fields, whose members have larger numbers: the *)
(* recursion that defines it has an answer too.                            *)
StepOf(u, marks, f, inherited) ==
  LET marked == inherited \/ f \in marks
  IN  IF marked /\ ~(TRUE /\ f \in Structs)
      THEN {f} ELSE UNION {u[c][marked /\ TRUE] : c \in Members(f)}

IsWalk(u, marks, m) == u = [f \in m..(Size - 1) |-> [inherited \in BOOLEAN |-> StepOf(u, marks, f, inherited)]]

LEMMA SameStep ==
  ASSUME NEW u, NEW h, NEW marks, NEW f, NEW i \in BOOLEAN, \A c \in Members(f) : u[c] = h[c]
  PROVE  StepOf(u, marks, f, i) = StepOf(h, marks, f, i)
<1>1. ASSUME NEW b \in BOOLEAN
      PROVE  UNION {u[c][b] : c \in Members(f)} = UNION {h[c][b] : c \in Members(f)}
  BY SMT
<1> DEFINE m == (i \/ f \in marks) /\ TRUE
<1>2. m \in BOOLEAN
  BY Zenon
<1>3. UNION {u[c][m] : c \in Members(f)} = UNION {h[c][m] : c \in Members(f)}
  <2> HIDE DEF m
  <2> QED BY <1>1, <1>2
<1> QED BY <1>3, Zenon DEF StepOf

LEMMA WalkExists == ASSUME NEW marks PROVE \E u : IsWalk(u, marks, 0)
<1> DEFINE T == {k \in Nat : k <= Size => \E u : IsWalk(u, marks, Size - k)}
<1>0. Size \in Nat /\ Size >= 2
  BY Numbered
<1>1. 0 \in T
  <2> DEFINE h == [f \in (Size - 0)..(Size - 1) |-> [inherited \in BOOLEAN |-> {}]]
  <2>1. (Size - 0)..(Size - 1) = {}
    BY <1>0
  <2>2. h = [f \in (Size - 0)..(Size - 1) |-> [inherited \in BOOLEAN |-> StepOf(h, marks, f, inherited)]]
    BY <2>1
  <2> HIDE DEF h
  <2>3. IsWalk(h, marks, Size - 0)
    BY <2>2 DEF IsWalk
  <2> QED BY <2>3
<1>2. ASSUME NEW k \in Nat, k \in T PROVE k + 1 \in T
  <2> SUFFICES ASSUME k + 1 <= Size PROVE \E u : IsWalk(u, marks, Size - (k + 1))
    OBVIOUS
  <2>1. PICK u : IsWalk(u, marks, Size - k)
    BY <1>0, <1>2
  <2> DEFINE a == Size - (k + 1)
  <2>2. a \in Nat /\ Size - k = a + 1 /\ a + 1 <= Size
    BY <1>0
  <2>3. \A f \in (a + 1)..(Size - 1) : u[f] = [inherited \in BOOLEAN |-> StepOf(u, marks, f, inherited)]
    BY <2>1, <2>2 DEF IsWalk
  <2> HIDE DEF a
  <2> DEFINE h == [f \in a..(Size - 1) |->
                     IF f > a THEN u[f] ELSE [inherited \in BOOLEAN |-> StepOf(u, marks, f, inherited)]]
  <2>4. /\ h = [f \in a..(Size - 1) |-> h[f]]
        /\ \A f \in a..(Size - 1) : f > a => h[f] = u[f]
        /\ \A f \in a..(Size - 1) : f = a => h[f] = [inherited \in BOOLEAN |-> StepOf(u, marks, f, inherited)]
    BY <2>2
  <2> HIDE DEF h
  <2>5. ASSUME NEW f \in a..(Size - 1)
        PROVE  h[f] = [inherited \in BOOLEAN |-> StepOf(h, marks, f, inherited)]
    <3>0. f \in Nat /\ f \in Fields
      BY <2>2, <1>0 DEF Fields
    <3>1. \A c \in Members(f) : u[c] = h[c]
      <4> TAKE c \in Members(f)
      <4>1. c \in Nat /\ c < Size /\ f < c
        BY <3>0, MemberIs, Numbered
      <4>2. c \in a..(Size - 1) /\ c > a
        BY <4>1, <2>2, <1>0
      <4> QED BY <4>2, <2>4
    <3>2. \A i \in BOOLEAN : StepOf(u, marks, f, i) = StepOf(h, marks, f, i)
      BY <3>1, SameStep
    <3>3. h[f] = [inherited \in BOOLEAN |-> StepOf(u, marks, f, inherited)]
      <4>1. CASE f > a
        <5>1. f \in (a + 1)..(Size - 1)
          BY <4>1, <2>2, <1>0
        <5> QED BY <4>1, <5>1, <2>3, <2>4
      <4>2. CASE f = a
        BY <4>2, <2>4
      <4> QED BY <4>1, <4>2, <2>2
    <3> QED BY <3>2, <3>3
  <2>6. IsWalk(h, marks, a)
    <3>1. h = [f \in a..(Size - 1) |-> [inherited \in BOOLEAN |-> StepOf(h, marks, f, inherited)]]
      BY <2>4, <2>5
    <3> QED BY <3>1 DEF IsWalk
  <2> QED BY <2>6 DEF a
<1>3. \A k \in Nat : k \in T
  <2> HIDE DEF T
  <2> QED BY <1>1, <1>2, Climb
<1>4. Size \in T /\ Size - Size = 0
  BY <1>0, <1>3
<1> QED BY <1>0, <1>4

LEMMA CollectIs ==
  ASSUME NEW marks, NEW f \in Fields, NEW i \in BOOLEAN
  PROVE  Collect(marks, TRUE)[f][i] = StepOf(Collect(marks, TRUE), marks, f, i)
<1> DEFINE u == CHOOSE u : u = [g \in Fields |-> [inherited \in BOOLEAN |-> StepOf(u, marks, g, inherited)]]
<1>1. u = [g \in Fields |-> [inherited \in BOOLEAN |-> StepOf(u, marks, g, inherited)]]
  BY WalkExists DEF IsWalk, Fields
<1>2. Collect(marks, TRUE) = u
  BY DEF Collect, StepOf
<1> HIDE DEF u
<1>3. u[f] = [inherited \in BOOLEAN |-> StepOf(u, marks, f, inherited)]
  <2> DEFINE F(g) == [inherited \in BOOLEAN |-> StepOf(u, marks, g, inherited)]
  <2>1. u = [g \in Fields |-> F(g)]
    BY <1>1
  <2> HIDE DEF F
  <2>2. u[f] = F(f)
    BY <2>1
  <2> QED BY <2>2 DEF F
<1>4. u[f][i] = StepOf(u, marks, f, i)
  BY <1>3
<1> QED BY <1>2, <1>4

(* Where a field is marked itself, or one on the way down to it, the walk  *)
(* finds it.                                                               *)
Way(marks, f, l) == \E g \in marks : g \in Below(f) /\ l \in Below(g)
Found(marks, f, i) == {l \in Leaves : l \in Below(f) /\ (i \/ Way(marks, f, l))}

(* One step of the way.                                                    *)
LEMMA OneDown ==
  ASSUME NEW marks \in SUBSET Fields, NEW f \in Fields, NEW c \in Members(f), NEW l \in Below(c)
  PROVE  Way(marks, f, l) <=> f \in marks \/ Way(marks, c, l)
<1>0. /\ c \in Fields /\ Below(c) \subseteq Below(f) /\ c \in Below(f)
      /\ f \in Below(f) /\ l \in Below(f)
  BY MemberIs, MemberBelow, BelowIs
<1>1. ASSUME f \in marks PROVE Way(marks, f, l)
  BY <1>0, <1>1 DEF Way
<1>2. ASSUME Way(marks, c, l) PROVE Way(marks, f, l)
  BY <1>0, <1>2 DEF Way
<1>3. ASSUME Way(marks, f, l), f \notin marks PROVE Way(marks, c, l)
  <2>1. PICK g \in marks : g \in Below(f) /\ l \in Below(g)
    BY <1>3 DEF Way
  <2>2. g \in Fields /\ g # f
    BY <1>3, <2>1
  <2>3. PICK d \in Members(f) : g \in Below(d)
    BY <2>1, <2>2, BelowMember
  <2>4. d \in Fields /\ l \in Below(d)
    BY <2>1, <2>3, MemberIs, BelowIs
  <2>5. d = c
    <3>1. ASSUME NEW x \in Members(f), NEW y \in Members(f), l \in Below(x), l \in Below(y), x <= y
          PROVE  x = y
      <4>1. x \in Fields /\ y \in Fields /\ y # 0 /\ Up[y] = f /\ f < x /\ x \in Nat /\ f \in Nat
        BY MemberIs, Numbered
      <4>2. y \in Below(x)
        BY <3>1, <4>1, Comparable
      <4>3. SUFFICES ASSUME x # y PROVE FALSE
        OBVIOUS
      <4>4. x \in PathUp[y]
        BY <4>2, <4>3 DEF Below
      <4>5. x = f \/ x \in PathUp[f]
        BY <4>1, <4>4, PathIs
      <4>6. x <= f
        BY <4>1, <4>5, PathAbove
      <4> QED BY <4>1, <4>6
    <3>2. c \in Nat /\ d \in Nat
      BY <1>0, <2>4, Numbered
    <3>3. c <= d \/ d <= c
      BY <3>2
    <3> QED BY <2>4, <3>1, <3>3
  <2> QED BY <2>1, <2>3, <2>5 DEF Way
<1> QED BY <1>1, <1>2, <1>3

LEMMA CollectLeaves ==
  ASSUME NEW marks \in SUBSET Fields, NEW f \in Fields, NEW i \in BOOLEAN
  PROVE  Collect(marks, TRUE)[f][i] = Found(marks, f, i)
<1> DEFINE Good(g) == \A j \in BOOLEAN : Collect(marks, TRUE)[g][j] = Found(marks, g, j)
           T == {k \in Nat : \A g \in Fields : g >= Size - k => Good(g)}
<1>0. Size \in Nat
  BY Numbered
<1>1. 0 \in T
  <2> SUFFICES ASSUME NEW g \in Fields, g >= Size - 0 PROVE FALSE
    OBVIOUS
  <2> QED BY <1>0, Numbered
<1>2. ASSUME NEW k \in Nat, k \in T PROVE k + 1 \in T
  <2>5. SUFFICES ASSUME NEW g \in Fields, g >= Size - (k + 1) PROVE Good(g)
    <3> HIDE DEF Good
    <3>1. k + 1 \in Nat
      OBVIOUS
    <3> QED BY <3>1
  <2> SUFFICES ASSUME NEW j \in BOOLEAN PROVE Collect(marks, TRUE)[g][j] = Found(marks, g, j)
    OBVIOUS
  <2> DEFINE m == j \/ g \in marks
  <2>0. m \in BOOLEAN
    OBVIOUS
  <2>1. ASSUME NEW c \in Members(g) PROVE Collect(marks, TRUE)[c][m] = Found(marks, c, m)
    <3>1. c \in Fields /\ c \in Nat /\ g \in Nat /\ g < c
      BY MemberIs, Numbered
    <3>2. c >= Size - k
      BY <1>0, <2>5, <3>1
    <3>3. Good(c)
      BY <1>2, <3>1, <3>2
    <3> QED BY <2>0, <3>3
  <2>2. Collect(marks, TRUE)[g][j] = IF m /\ g \notin Structs THEN {g}
                                     ELSE UNION {Found(marks, c, m) : c \in Members(g)}
    <3>1. Collect(marks, TRUE)[g][j] = IF m /\ g \notin Structs THEN {g}
                                       ELSE UNION {Collect(marks, TRUE)[c][m] : c \in Members(g)}
      <4> DEFINE w == Collect(marks, TRUE)
      <4>1. w[g][j] = StepOf(w, marks, g, j)
        BY CollectIs
      <4>2. StepOf(w, marks, g, j) = IF m /\ g \notin Structs THEN {g} ELSE UNION {w[c][m] : c \in Members(g)}
        <5> HIDE DEF w
        <5>1. (m /\ TRUE) = m
          BY Zenon
        <5>2. ~(TRUE /\ g \in Structs) <=> g \notin Structs
          OBVIOUS
        <5>3. StepOf(w, marks, g, j) = IF m /\ ~(TRUE /\ g \in Structs) THEN {g}
                                       ELSE UNION {w[c][m /\ TRUE] : c \in Members(g)}
          BY Zenon DEF StepOf
        <5> HIDE DEF m
        <5> QED BY <5>1, <5>2, <5>3
      <4> QED BY <4>1, <4>2
    <3> HIDE DEF m
    <3>2. UNION {Collect(marks, TRUE)[c][m] : c \in Members(g)} = UNION {Found(marks, c, m) : c \in Members(g)}
      BY <2>1
    <3> QED BY <3>1, <3>2
  <2>3. CASE g \notin Structs
    <3>1. g \in Leaves /\ Members(g) = {}
      BY <2>3, StructIs
    <3>2. Below(g) = {g}
      BY <3>1, BelowIs, BelowMember
    <3>3. Way(marks, g, g) <=> g \in marks
      BY <3>2 DEF Way
    <3>4. Found(marks, g, j) = IF m THEN {g} ELSE {}
      BY <3>1, <3>2, <3>3 DEF Found
    <3> HIDE DEF m
    <3>5. UNION {Found(marks, c, m) : c \in Members(g)} = {}
      BY <3>1
    <3> QED BY <2>2, <2>3, <3>4, <3>5
  <2>4. CASE g \in Structs
    <3>1. g \notin Leaves
      BY <2>4, StructIs
    <3>2. ASSUME NEW l \in Leaves, NEW c \in Members(g), l \in Below(c)
          PROVE  (m \/ Way(marks, c, l)) <=> (j \/ Way(marks, g, l))
      BY <3>2, OneDown
    <3>3. ASSUME NEW l \in Found(marks, g, j) PROVE \E c \in Members(g) : l \in Found(marks, c, m)
      <4>1. l \in Leaves /\ l \in Below(g) /\ (j \/ Way(marks, g, l)) /\ l # g
        BY <3>1 DEF Found
      <4>2. PICK c \in Members(g) : l \in Below(c)
        BY <4>1, BelowMember
      <4>3. m \/ Way(marks, c, l)
        BY <3>2, <4>1, <4>2
      <4> QED BY <4>1, <4>2, <4>3 DEF Found
    <3>4. ASSUME NEW c \in Members(g), NEW l \in Found(marks, c, m) PROVE l \in Found(marks, g, j)
      <4>1. l \in Leaves /\ l \in Below(c) /\ (m \/ Way(marks, c, l))
        BY DEF Found
      <4>2. l \in Below(g)
        BY <4>1, MemberBelow
      <4>3. j \/ Way(marks, g, l)
        BY <3>2, <4>1
      <4> QED BY <4>1, <4>2, <4>3 DEF Found
    <3> HIDE DEF m
    <3>5. UNION {Found(marks, c, m) : c \in Members(g)} = Found(marks, g, j)
      BY <3>3, <3>4
    <3> QED BY <2>2, <2>4, <3>5
  <2> QED BY <2>3, <2>4
<1>3. \A k \in Nat : k \in T
  <2> HIDE DEF T
  <2> QED BY <1>1, <1>2, Climb
<1>4. Size \in T
  BY <1>0, <1>3
<1>5. f >= Size - Size
  BY <1>0, Numbered
<1> QED BY <1>4, <1>5

-----------------------------------------------------------------------------
(* What the walk finds from the root on, and from any view.                *)
LEMMA MarkedIs ==
  ASSUME NEW marks \in SUBSET Fields, NEW l \in Leaves
  PROVE  Marked(marks, l) <=> \E g \in marks : l \in Below(g)
<1>1. l \in Fields
  BY StructIs
<1> QED BY <1>1 DEF Marked, Below

LEMMA SentIs ==
  ASSUME NEW marks \in SUBSET Fields
  PROVE  MarkedLeaves(marks) = {l \in Leaves : Marked(marks, l)}
<1>1. 0 \in Fields /\ FALSE \in BOOLEAN
  BY Numbered
<1>2. MarkedLeaves(marks) = Found(marks, 0, FALSE)
  BY <1>1, CollectLeaves DEF MarkedLeaves
<1>3. ASSUME NEW l \in Leaves
      PROVE  l \in Found(marks, 0, FALSE) <=> Marked(marks, l)
  <2>1. l \in Below(0) /\ \A g \in marks : g \in Below(0)
    BY RootIsAll, StructIs
  <2>2. Way(marks, 0, l) <=> \E g \in marks : l \in Below(g)
    BY <2>1 DEF Way
  <2> QED BY <2>1, <2>2, MarkedIs DEF Found
<1>4. Found(marks, 0, FALSE) \subseteq Leaves
  BY DEF Found
<1> QED BY <1>2, <1>3, <1>4

LEMMA UnderIs ==
  ASSUME NEW f \in Fields PROVE Under(f) = {l \in Leaves : l \in Below(f)}
BY StructIs DEF Under, Below

(* A leaf below f is marked by what marks f, or by something below f.      *)
LEMMA MarkedUnder ==
  ASSUME NEW marks \in SUBSET Fields, NEW f \in Fields, NEW l \in Leaves, l \in Below(f)
  PROVE  Marked(marks, l) <=> PathUp[f] \cap marks # {} \/ Way(marks, f, l)
<1>1. ASSUME Marked(marks, l) PROVE PathUp[f] \cap marks # {} \/ Way(marks, f, l)
  <2>1. PICK g \in marks : l \in Below(g)
    BY <1>1, MarkedIs
  <2>2. g \in Fields /\ g \in Nat /\ f \in Nat
    BY Numbered
  <2>3. CASE f <= g
    <3>1. g \in Below(f)
      BY <2>1, <2>2, <2>3, Comparable
    <3> QED BY <2>1, <3>1 DEF Way
  <2>4. CASE g <= f
    <3>1. f \in Below(g)
      BY <2>1, <2>2, <2>4, Comparable
    <3>2. CASE g = f
      BY <2>1, <3>2, BelowIs DEF Way
    <3>3. CASE g # f
      BY <2>1, <3>1, <3>3 DEF Below
    <3> QED BY <3>2, <3>3
  <2> QED BY <2>2, <2>3, <2>4
<1>2. ASSUME NEW g \in PathUp[f], g \in marks PROVE Marked(marks, l)
  <2>1. g \in Fields /\ f \in Below(g)
    BY <1>2 DEF Below
  <2>2. l \in Below(g)
    BY <2>1, BelowIs
  <2> QED BY <1>2, <2>2, MarkedIs
<1>3. ASSUME Way(marks, f, l) PROVE Marked(marks, l)
  BY <1>3, MarkedIs DEF Way
<1> QED BY <1>1, <1>2, <1>3

LEMMA ChangedIs ==
  ASSUME NEW marks \in SUBSET Fields, NEW f \in Fields
  PROVE  Changed(marks, f) <=> Under(f) \cap MarkedLeaves(marks) # {}
<1>1. Changed(marks, f) <=> Below(f) \cap marks # {} \/ PathUp[f] \cap marks # {}
  BY SpanIsBelow DEF Changed
<1>2. Under(f) \cap MarkedLeaves(marks) = {l \in Leaves : l \in Below(f) /\ Marked(marks, l)}
  BY SentIs, UnderIs
<1>3. ASSUME NEW g \in marks, g \in Below(f)
      PROVE  \E l \in Leaves : l \in Below(f) /\ Marked(marks, l)
  <2>1. PICK l \in Leaves : l \in Below(g)
    BY LeafBelow
  <2>2. l \in Below(f) /\ Marked(marks, l)
    BY <1>3, <2>1, BelowIs, MarkedIs
  <2> QED BY <2>2
<1>4. ASSUME PathUp[f] \cap marks # {}
      PROVE  \E l \in Leaves : l \in Below(f) /\ Marked(marks, l)
  <2>1. PICK l \in Leaves : l \in Below(f)
    BY LeafBelow
  <2> QED BY <1>4, <2>1, MarkedUnder
<1>5. ASSUME NEW l \in Leaves, l \in Below(f), Marked(marks, l)
      PROVE  Below(f) \cap marks # {} \/ PathUp[f] \cap marks # {}
  BY <1>5, MarkedUnder DEF Way
<1> QED BY <1>1, <1>2, <1>3, <1>4, <1>5

LEMMA ChangedSetIs ==
  ASSUME NEW marks \in SUBSET Fields, NEW f \in Fields
  PROVE  ChangedSet(marks, f, TRUE) = (Under(f) \cap MarkedLeaves(marks)) \ {f}
<1> DEFINE i == PathUp[f] \cap marks # {}
<1>1. i \in BOOLEAN
  OBVIOUS
<1>2. ChangedSet(marks, f, TRUE) = Found(marks, f, i) \ {f}
  BY <1>1, CollectLeaves DEF ChangedSet
<1>3. Found(marks, f, i) = {l \in Leaves : l \in Below(f) /\ Marked(marks, l)}
  BY MarkedUnder DEF Found
<1>4. Under(f) \cap MarkedLeaves(marks) = {l \in Leaves : l \in Below(f) /\ Marked(marks, l)}
  BY SentIs, UnderIs
<1> QED BY <1>2, <1>3, <1>4

(* Only structures are above anything: of a leaf only its own bit counts.  *)
LEMMA AboveIsStruct ==
  ASSUME NEW f \in Fields, NEW g \in PathUp[f] PROVE g \in Structs
<1>1. g \in Fields /\ g < f /\ g \in Nat /\ f \in Nat
  BY PathAbove, Numbered
<1>2. f \in Below(g) /\ f # g
  BY <1>1 DEF Below
<1> QED BY <1>1, <1>2, BelowMember, StructIs

LEMMA ChangedLeaf ==
  ASSUME NEW marks \in SUBSET Fields, NEW l \in Leaves
  PROVE  Changed(marks, l) <=> Marked(marks, l)
<1>1. l \in Fields /\ Members(l) = {}
  BY StructIs
<1>2. Below(l) = {l}
  BY <1>1, BelowIs, BelowMember
<1> QED BY <1>1, <1>2, SpanIsBelow DEF Changed, Marked

(* Leaves marked on their own are sent, and nothing else.                  *)
LEMMA SentLeaves ==
  ASSUME NEW marks \in SUBSET Leaves PROVE MarkedLeaves(marks) = marks
<1>1. marks \in SUBSET Fields
  BY StructIs
<1>2. ASSUME NEW l \in Leaves PROVE Marked(marks, l) <=> l \in marks
  <2>1. l \in Fields
    BY StructIs
  <2>2. PathUp[l] \cap marks = {}
    BY <2>1, AboveIsStruct, StructIs
  <2> QED BY <2>2 DEF Marked
<1> QED BY <1>1, <1>2, SentIs

(* Unmarking a field takes away nothing that marks a leaf elsewhere.       *)
LEMMA UnmarkedElsewhere ==
  ASSUME NEW marks \in SUBSET Fields, NEW f \in Fields, NEW l \in Leaves, l \notin Under(f)
  PROVE  Marked(marks, l) <=> Marked(MarkSpan(marks, f, FALSE), l)
<1>1. MarkSpan(marks, f, FALSE) = marks \ Below(f)
  BY SpanIsBelow DEF MarkSpan
<1>2. ASSUME NEW g \in Below(f) PROVE l \notin Below(g)
  BY UnderIs, BelowIs
<1>3. marks \ Below(f) \in SUBSET Fields
  OBVIOUS
<1> QED BY <1>1, <1>2, <1>3, MarkedIs

LEMMA RootUnmarks ==
  ASSUME NEW marks \in SUBSET Fields PROVE MarkSpan(marks, 0, FALSE) = {}
BY SpanIsBelow, RootIsAll, Numbered DEF MarkSpan

-----------------------------------------------------------------------------
(* Assignment: what it may change it marks, also where it stops half way.  *)
PutItem == [leaf : Leaves, obj : Data \cup {Bad}]
PutItems == Seq(PutItem)

LEMMA TakenIs ==
  ASSUME NEW items \in PutItems, NEW i \in Taken(items)
  PROVE  i \in DOMAIN items /\ items[i].leaf \in Leaves /\ items[i].obj \in Data
<1>1. i \in DOMAIN items /\ i \in 1..Len(items)
  BY DEF Taken, PutItems
<1>2. i \in 1..i
  BY <1>1
<1>3. items[i].obj # Bad
  BY <1>2 DEF Taken
<1>4. items[i] \in PutItem
  BY <1>1 DEF PutItems
<1> QED BY <1>1, <1>3, <1>4 DEF PutItem

LEMMA AssignIs ==
  ASSUME NEW v \in Values, NEW items \in PutItems
  PROVE  /\ Assign(v, items) \in Values
         /\ \A l \in Leaves : Assign(v, items).data[l] # v.data[l] => Marked(Assign(v, items).marks, l)
<1> DEFINE at(l) == CHOOSE i \in Taken(items) : items[i].leaf = l
           data == [l \in Leaves |-> IF \E i \in Taken(items) : items[i].leaf = l
                                     THEN items[at(l)].obj ELSE v.data[l]]
           marks == v.marks \cup {items[i].leaf : i \in Taken(items)}
<1>1. Assign(v, items) = [data |-> data, marks |-> marks]
  BY DEF Assign
<1>2. v.data \in [Leaves -> Data] /\ v.marks \in SUBSET Fields
  BY DEF Values
<1>3. ASSUME NEW l \in Leaves, \E i \in Taken(items) : items[i].leaf = l
      PROVE  at(l) \in Taken(items) /\ items[at(l)].leaf = l
  BY <1>3
<1>4. data \in [Leaves -> Data]
  <2>1. ASSUME NEW l \in Leaves
        PROVE  (IF \E i \in Taken(items) : items[i].leaf = l THEN items[at(l)].obj ELSE v.data[l]) \in Data
    <3>1. CASE \E i \in Taken(items) : items[i].leaf = l
      <4>1. at(l) \in Taken(items)
        BY <1>3, <3>1
      <4> HIDE DEF at
      <4>2. items[at(l)].obj \in Data
        BY <4>1, TakenIs
      <4> QED BY <3>1, <4>2
    <3>2. CASE ~\E i \in Taken(items) : items[i].leaf = l
      BY <1>2, <3>2
    <3> QED BY <3>1, <3>2
  <2> HIDE DEF at
  <2> QED BY <2>1
<1>5. marks \in SUBSET Fields
  <2>1. \A i \in Taken(items) : items[i].leaf \in Fields
    BY TakenIs, StructIs
  <2> QED BY <1>2, <2>1
<1>6. ASSUME NEW l \in Leaves, data[l] # v.data[l] PROVE Marked(marks, l)
  <2>1. \E i \in Taken(items) : items[i].leaf = l
    BY <1>6
  <2> QED BY <2>1 DEF Marked
<1>7. Assign(v, items).data = data /\ Assign(v, items).marks = marks
  BY <1>1
<1> HIDE DEF data, marks
<1> QED BY <1>1, <1>4, <1>5, <1>6, <1>7 DEF Values

(* With all of it taken, the leaves it named are what it marked.           *)
LEMMA AssignAll ==
  ASSUME NEW v \in Values, NEW items \in PutItems, ~Refused(items)
  PROVE  Assign(v, items).marks = v.marks \cup {items[i].leaf : i \in DOMAIN items}
BY DEF Assign, Refused

LEMMA ItemsOfIs ==
  ASSUME NEW f \in Fields, NEW data \in [Leaves -> Data]
  PROVE  ItemsOf(f, data) \in PutItems
<1> DEFINE S == Leaves \cap SpanOf(f)
           leaf == SetToSeq(S)
<1>1. IsFiniteSet(S)
  <2>1. IsFiniteSet(Fields)
    BY FS_Interval, Numbered DEF Fields
  <2>2. S \in SUBSET Fields
    BY StructIs
  <2> QED BY <2>1, <2>2, FS_Subset
<1>2. Cardinality(S) \in Nat /\ \E b : b \in [1..Cardinality(S) -> S] /\ IsInjective(b)
  <2> HIDE DEF S
  <2>1. Cardinality(S) \in Nat /\ ExistsBijection(1..Cardinality(S), S)
    BY <1>1, FS_CardinalityType
  <2> QED BY <2>1 DEF ExistsBijection, Bijection, Injection
<1>3. leaf \in [1..Cardinality(S) -> S]
  <2> HIDE DEF S
  <2> QED BY <1>2 DEF SetToSeq
<1>4. ItemsOf(f, data)
        = [i \in 1..Cardinality(S) |-> [leaf |-> leaf[i], obj |-> data[leaf[i]]]]
  BY <1>3 DEF ItemsOf
<1>5. S \subseteq Leaves
  OBVIOUS
<1> HIDE DEF S, leaf
<1>6. \A i \in 1..Cardinality(S) : leaf[i] \in Leaves
  BY <1>3, <1>5
<1>7. \A i \in 1..Cardinality(S) :
        [leaf |-> leaf[i], obj |-> data[leaf[i]]] \in PutItem
  BY <1>6 DEF PutItem
<1>8. ItemsOf(f, data) \in [1..Cardinality(S) -> PutItem]
  BY <1>4, <1>7
<1> QED BY <1>2, <1>8 DEF PutItems

LEMMA DictItems == Dicts \subseteq PutItems /\ Dicts \cup {<<>>} \subseteq PutItems
<1>1. <<>> \in PutItems
  BY DEF PutItems
<1> QED BY <1>1, PutAssumption DEF PutItems, PutItem

LEMMA FreshIs == Fresh \in Values /\ Fresh.data \in [Leaves -> Data] /\ Fresh.marks = {}
BY ValueAssumption DEF Fresh, Values

-----------------------------------------------------------------------------
(* The steps of the caller: each gives mine a value whose changes it marks.*)
Sound(v) == v \in Values /\ \A l \in Leaves : v.data[l] # mine.data[l] => Marked(v.marks, l)

LEMMA Built ==
  ASSUME mine \in Values, Next
  PROVE  \/ \E v : Becomes(v) /\ Sound(v)
         \/ Put \/ Abort \/ Commit \/ Failing \/ Settle \/ Expires
         \/ \E e \in Entries : \/ \E ok \in BOOLEAN : Begun(e, ok)
                               \/ Executes(e) \/ (\E how \in {"acked", "lost", "refused"} : Answered(e, how))
                               \/ \E l \in Leaves, x \in Data : OthersPut(e, l, x)
<1> DEFINE Done == \E v : Becomes(v) /\ Sound(v)
<1>1. ASSUME NEW marks \in SUBSET Fields, Becomes([mine EXCEPT !.marks = marks]) PROVE Done
  <2>1. Sound([mine EXCEPT !.marks = marks])
    BY DEF Sound, Values
  <2> QED BY <1>1, <2>1
<1>2. mine.marks \in SUBSET Fields /\ mine.data \in [Leaves -> Data]
  BY DEF Values
<1>3. ASSUME NEW f \in Fields, MarkIt(f) PROVE Done
  <2>1. MarkField(mine.marks, f) \in SUBSET Fields
    BY <1>2 DEF MarkField
  <2>2. Becomes([mine EXCEPT !.marks = MarkField(mine.marks, f)])
    BY <1>3 DEF MarkIt
  <2> QED BY <1>1, <2>1, <2>2
<1>4. ASSUME NEW f \in Fields, MarkView(f) PROVE Done
  <2>1. MarkSpan(mine.marks, f, TRUE) \in SUBSET Fields
    BY <1>2, SpanIsBelow, BelowIs DEF MarkSpan
  <2>2. Becomes([mine EXCEPT !.marks = MarkSpan(mine.marks, f, TRUE)])
    BY <1>4 DEF MarkView
  <2> QED BY <1>1, <2>1, <2>2
<1>5. ASSUME NEW f \in Fields, Unmark(f) PROVE Done
  <2>1. MarkSpan(mine.marks, f, FALSE) \in SUBSET Fields
    BY <1>2 DEF MarkSpan
  <2>2. Becomes([mine EXCEPT !.marks = MarkSpan(mine.marks, f, FALSE)])
    BY <1>5 DEF Unmark
  <2> QED BY <1>1, <2>1, <2>2
<1>6. ASSUME NEW items \in PutItems, SetItems(items) PROVE Done
  <2>1. Becomes(Assign(mine, items))
    BY <1>6 DEF SetItems
  <2>2. Sound(Assign(mine, items))
    BY AssignIs DEF Sound
  <2> QED BY <2>1, <2>2
<1>7. ASSUME NEW f \in Fields, NEW x \in Data, SetValue(f, x) PROVE Done
  <2>1. [l \in Leaves |-> x] \in [Leaves -> Data]
    OBVIOUS
  <2>2. ItemsOf(f, [l \in Leaves |-> x]) \in PutItems
    BY <2>1, ItemsOfIs
  <2> QED BY <1>6, <1>7, <2>2 DEF SetValue
<1>8. ASSUME NEW l \in Fields, NEW x \in Data, Select(l, x) PROVE Done
  <2> DEFINE v == [data |-> [mine.data EXCEPT ![l] = x], marks |-> MarkField(mine.marks, l)]
  <2>1. l \in Leaves /\ Becomes(v)
    BY <1>8 DEF Select
  <2>2. v \in Values
    BY <1>2 DEF Values, MarkField
  <2>3. \A k \in Leaves : v.data[k] # mine.data[k] => k = l
    BY <1>2
  <2>4. l \in v.marks
    BY DEF MarkField
  <2>5. Sound(v)
    BY <2>2, <2>3, <2>4 DEF Sound, Marked
  <2> QED BY <2>1, <2>5
<1>9. ASSUME NEW d \in Dicts, SetItems(d) PROVE Done
  BY <1>6, <1>9, DictItems
<1> HIDE DEF Done
<1>10. \/ Done
       \/ Put \/ Abort \/ Commit \/ Failing \/ Settle \/ Expires
       \/ \E e \in Entries : \/ \E ok \in BOOLEAN : Begun(e, ok)
                             \/ Executes(e) \/ (\E how \in {"acked", "lost", "refused"} : Answered(e, how))
                             \/ \E l \in Leaves, x \in Data : OthersPut(e, l, x)
  BY <1>3, <1>4, <1>5, <1>7, <1>8, <1>9 DEF Next
<1> QED BY <1>10 DEF Done

-----------------------------------------------------------------------------
(* The invariant, in the parts the properties rest on.                     *)

Ops == {"none", "opening", "open", "failed", "sent", "executed", "acked", "refused", "lost"}

\* No change escapes the marks.
Escapes == \A l \in Leaves : mine.data[l] # base[l] => Marked(mine.marks, l)

\* While the caller builds its Value, nothing has begun; after, an open op
\* of a Value sends it as the caller left it, and what is sent was named.
Sending ==
  /\ pc = "build" => \A e \in Entries : op[e] = "none"
  /\ \A e \in Entries : /\ op[e] = "open" /\ e \in OwnValue => value[e] = mine
                        /\ op[e] = "sent" /\ e \notin bare => MarkedLeaves(value[e].marks) = Named(e)

\* A put that is still to be executed, or begun again, has not been executed
\* since its circuit was last lost.
Tally ==
  \A e \in Entries :
    /\ ran[e] # "twice"
    /\ op[e] \in {"opening", "open", "failed", "sent", "lost"} => ran[e] # "ran"
    /\ op[e] \in {"executed", "acked"} => ran[e] = "ran"
    /\ pc = "build" => ran[e] = "never"

\* The entries that are not pending have their verdict, and no op any more.
Settled ==
  /\ pc \in {"begin", "commit", "returned"} =>
       \A e \in Entries \ pending : result[e] # "none" /\ (throw => result[e] = "ok")
  /\ pc = "returned" => pending = {}
  /\ \A e \in Entries : /\ result[e] = "ok" => ran[e] = "ran"
                        /\ op[e] # "none" => result[e] = "none"
                        /\ e \in pending => result[e] = "none"
                        /\ pc = "build" => result[e] = "none"

PutInv == TypeOK /\ Escapes /\ Sending /\ Tally /\ Settled

LEMMA PutInit == Init => PutInv
<1> SUFFICES ASSUME Init PROVE PutInv
  OBVIOUS
<1>1. mine \in Values /\ base \in [Leaves -> Data] /\ mine.data = base
  BY FreshIs DEF Init
<1>2. /\ dict \in [Entries -> Dicts \cup {<<>>}] /\ value \in [Entries -> Values]
      /\ op \in [Entries -> Ops]
      /\ result \in [Entries -> {"none", "ok", "failed", "lost"}] /\ server \in [Entries -> [Leaves -> Data]]
  BY FreshIs DEF Init, Ops
<1>3. ran \in [Entries -> {"never", "ran", "lost", "twice"}] /\ bare \in SUBSET (Entries \ OwnValue)
  BY DEF Init
<1>4. TypeOK
  BY <1>1, <1>2, <1>3 DEF TypeOK, Init, Ops
<1>5. Escapes
  BY <1>1 DEF Escapes
<1>6. Sending /\ Settled
  BY DEF Sending, Settled, Init
<1>7. Tally
  BY DEF Tally, Init
<1> QED BY <1>4, <1>5, <1>6, <1>7 DEF PutInv

(* The caller's steps.                                                     *)
LEMMA BecomesKeeps ==
  ASSUME PutInv, NEW v, Becomes(v), Sound(v) PROVE PutInv'
<1> USE DEF PutInv
<1>1. /\ pc = "build" /\ pc' = pc /\ mine' = v /\ v \in Values
      /\ base' = [l \in Leaves |-> IF Changed(v.marks, l) \/ ~Changed(mine.marks, l) THEN base[l] ELSE v.data[l]]
      /\ UNCHANGED Rest
  BY DEF Becomes, Sound
<1>2. UNCHANGED <<throw, get, dict, bare, deadline, pending, op, value, result, late, server, ran>>
  BY <1>1 DEF Rest, call
<1>3. mine \in Values /\ base \in [Leaves -> Data] /\ v.data \in [Leaves -> Data]
  BY <1>1 DEF TypeOK, Values
<1>4. TypeOK'
  <2>1. base' \in [Leaves -> Data]
    BY <1>1, <1>3
  <2> QED BY <1>1, <1>2, <2>1 DEF TypeOK
<1>5. Escapes'
  <2> SUFFICES ASSUME NEW l \in Leaves, v.data[l] # base'[l], ~Marked(v.marks, l) PROVE FALSE
    BY <1>1 DEF Escapes
  <2>1. mine.marks \in SUBSET Fields /\ v.marks \in SUBSET Fields
    BY <1>1, <1>3 DEF Values
  <2>2. ~Changed(v.marks, l)
    BY <2>1, ChangedLeaf
  <2>3. ~Changed(mine.marks, l) /\ base'[l] = base[l]
    BY <1>1, <2>2
  <2>4. mine.data[l] = base[l]
    BY <2>1, <2>3, ChangedLeaf DEF Escapes
  <2>5. v.data[l] = mine.data[l]
    BY DEF Sound
  <2> QED BY <2>3, <2>4, <2>5
<1>6. Sending'
  BY <1>1, <1>2 DEF Sending
<1>7. Tally' /\ Settled'
  BY <1>1, <1>2 DEF Tally, Settled
<1> QED BY <1>4, <1>5, <1>6, <1>7

(* A step that leaves mine and base alone.                                 *)
LEMMA EscapesKept ==
  ASSUME Escapes, mine' = mine, base' = base PROVE Escapes'
BY DEF Escapes

LEMMA NamedKept ==
  ASSUME mine' = mine, dict' = dict, bare' = bare, NEW e \in Entries PROVE Named(e)' = Named(e)
BY DEF Named, Given

LEMMA OpensAll ==
  ASSUME NEW es \in SUBSET Entries, Opens(es)
  PROVE  /\ op' \in [Entries -> Ops]
         /\ pending' \in SUBSET Entries /\ pc' = "begin" /\ pending' = es
         /\ \A e \in es : op'[e] = "opening"
         /\ \A e \in Entries \ es : op'[e] = "none"
BY DEF Opens, Ops

LEMMA PutKeeps ==
  ASSUME PutInv, Put PROVE PutInv'
<1> USE DEF PutInv
<1>1. /\ pc = "build" /\ Opens(Entries) /\ base' = mine.data
      /\ throw' \in BOOLEAN /\ get' \in BOOLEAN /\ deadline' \in BOOLEAN
      /\ dict' \in [Entries -> Dicts] /\ bare' \in SUBSET (Entries \ OwnValue)
      /\ UNCHANGED <<mine, value, result, late, server, ran>>
  BY DEF Put
<1>2. /\ op' \in [Entries -> Ops]
      /\ pc' = "begin" /\ pending' = Entries
      /\ \A e \in Entries : op'[e] = "opening"
  BY <1>1, OpensAll
<1>3. TypeOK'
  <2>1. mine.data \in [Leaves -> Data]
    BY DEF TypeOK, Values
  <2>2. dict' \in [Entries -> Dicts \cup {<<>>}]
    BY <1>1
  <2> QED BY <1>1, <1>2, <2>1, <2>2 DEF TypeOK, Ops
<1>4. Escapes'
  BY <1>1 DEF Escapes
<1>5. Sending' /\ Settled' /\ Tally'
  <2>1. \A e \in Entries : result[e] = "none" /\ ran[e] = "never"
    BY <1>1 DEF Settled, Tally
  <2> QED BY <1>1, <1>2, <2>1 DEF Sending, Settled, Tally
<1> QED BY <1>3, <1>4, <1>5

LEMMA RaisesKeeps ==
  ASSUME PutInv, Raises PROVE PutInv'
<1> USE DEF PutInv
<1>1. /\ pc' = "raised" /\ op' = [e \in Entries |-> "none"] /\ pending' = {}
      /\ value' = [e \in Entries |-> Fresh]
      /\ UNCHANGED <<mine, base, throw, get, dict, bare, deadline, result, late, server, ran>>
  BY DEF Raises, call
<1>2. TypeOK'
  <2>1. value' \in [Entries -> Values]
    BY <1>1, FreshIs
  <2>2. op' \in [Entries -> Ops]
    BY <1>1 DEF Ops
  <2> QED BY <1>1, <2>1, <2>2 DEF TypeOK
<1>3. Escapes' /\ Sending' /\ Tally' /\ Settled'
  BY <1>1, EscapesKept DEF Sending, Tally, Settled
<1> QED BY <1>2, <1>3

LEMMA ExpiresKeeps ==
  ASSUME PutInv, Expires PROVE PutInv'
<1> USE DEF PutInv
<1>1. /\ late' = TRUE
      /\ UNCHANGED <<mine, base, pc, throw, get, dict, bare, deadline, pending, op, value, result, server, ran>>
  BY DEF Expires, call
<1>2. TypeOK'
  BY <1>1 DEF TypeOK
<1>3. Escapes' /\ Tally' /\ Settled'
  BY <1>1, EscapesKept DEF Tally, Settled
<1>4. Sending'
  BY <1>1, NamedKept DEF Sending
<1> QED BY <1>2, <1>3, <1>4

LEMMA OthersKeep ==
  ASSUME PutInv, NEW e \in Entries, NEW l \in Leaves, NEW x \in Data, OthersPut(e, l, x) PROVE PutInv'
<1> USE DEF PutInv
<1>1. /\ server' = [server EXCEPT ![e][l] = x]
      /\ UNCHANGED <<mine, base, pc, throw, get, dict, bare, deadline, pending, op, value, result, late, ran>>
  BY DEF OthersPut, call
<1>2. server' \in [Entries -> [Leaves -> Data]]
  BY <1>1 DEF TypeOK
<1>3. TypeOK'
  BY <1>1, <1>2 DEF TypeOK
<1>4. Escapes' /\ Tally' /\ Settled'
  BY <1>1, EscapesKept DEF Tally, Settled
<1>5. Sending'
  BY <1>1, NamedKept DEF Sending
<1> QED BY <1>3, <1>4, <1>5

(* What an op sends: the caller's Value, or the value it read.             *)
LEMMA CurrentIs ==
  ASSUME TypeOK, NEW e \in Entries PROVE Current(e) \in Values
<1>1. server[e] \in [Leaves -> Data]
  BY DEF TypeOK
<1>2. [data |-> server[e], marks |-> Fields] \in Values
  BY <1>1 DEF Values
<1> QED BY <1>2, FreshIs DEF Current

LEMMA BegunKeeps ==
  ASSUME PutInv, NEW e \in Entries, NEW ok \in BOOLEAN, Begun(e, ok) PROVE PutInv'
<1> USE DEF PutInv
<1>1. /\ pc = "begin" /\ op[e] = "opening"
      /\ op' = [op EXCEPT ![e] = IF ok THEN "open" ELSE "failed"]
      /\ value' = IF ok THEN [value EXCEPT ![e] = IF e \in OwnValue THEN mine ELSE Current(e)] ELSE value
      /\ UNCHANGED <<mine, base, pc, throw, get, dict, bare, deadline, pending, result, late, server, ran>>
  BY DEF Begun, call
<1>2. op \in [Entries -> Ops] /\ value \in [Entries -> Values] /\ mine \in Values /\ Current(e) \in Values
  BY CurrentIs DEF TypeOK, Ops
<1>3. op' \in [Entries -> Ops] /\ value' \in [Entries -> Values]
  BY <1>1, <1>2 DEF Ops
<1>4. /\ op'[e] \in {"open", "failed"}
      /\ op'[e] = "open" /\ e \in OwnValue => value'[e] = mine
      /\ \A d \in Entries \ {e} : op'[d] = op[d] /\ value'[d] = value[d]
  BY <1>1, <1>2
<1>5. TypeOK'
  BY <1>1, <1>3 DEF TypeOK, Ops
<1>6. Sending'
  <2>1. ASSUME NEW d \in Entries
        PROVE  /\ op'[d] = "open" /\ d \in OwnValue => value'[d] = mine'
               /\ op'[d] = "sent" /\ d \notin bare' => MarkedLeaves(value'[d].marks) = Named(d)'
    <3>1. Named(d)' = Named(d)
      BY <1>1, NamedKept
    <3>2. CASE d = e
      BY <1>1, <1>4, <3>2
    <3>3. CASE d # e
      <4>1. op'[d] = op[d] /\ value'[d] = value[d]
        BY <1>4, <3>3
      <4> QED BY <1>1, <3>1, <4>1 DEF Sending
    <3> QED BY <3>2, <3>3
  <2> QED BY <1>1, <2>1 DEF Sending
<1>7. Tally'
  <2>1. ASSUME NEW d \in Entries
        PROVE  op'[d] = op[d] \/ (op[d] = "opening" /\ op'[d] \in {"open", "failed"})
    BY <1>1, <1>4
  <2> QED BY <1>1, <2>1 DEF Tally
<1>8. Escapes' /\ Settled'
  BY <1>1, EscapesKept DEF Settled
<1> QED BY <1>5, <1>6, <1>7, <1>8

(* A filled value is one; outside bare arrays it names what it was given.  *)
LEMMA HelpedIs ==
  ASSUME TypeOK, NEW e \in Entries PROVE Helped(e) \in PutItems
<1>1. dict[e] \in PutItems
  BY DictItems DEF TypeOK
<1>2. Assign(Fresh, dict[e]) \in Values
  BY <1>1, FreshIs, AssignIs
<1>3. Assign(Fresh, dict[e]).data \in [Leaves -> Data]
  BY <1>2 DEF Values
<1>4. 0 \in Fields
  BY Numbered DEF Fields
<1>5. Wrapped(dict[e]) \in PutItems
  BY <1>3, <1>4, ItemsOfIs DEF Wrapped
<1> QED BY <1>1, <1>5 DEF Helped

LEMMA FilledIs ==
  ASSUME TypeOK, NEW e \in Entries
  PROVE  /\ Filled(e) \in Values
         /\ e \notin OwnValue /\ e \notin bare /\ ~Refused(dict[e]) =>
              MarkedLeaves(Filled(e).marks) = Named(e)
<1>1. value[e] \in Values /\ dict[e] \in PutItems /\ Helped(e) \in PutItems
  BY DictItems, HelpedIs DEF TypeOK
<1> DEFINE empty == [value[e] EXCEPT !.marks = MarkSpan(@, 0, FALSE)]
<1>2. empty \in Values /\ empty.marks = {}
  <2>1. value[e].marks \in SUBSET Fields
    BY <1>1 DEF Values
  <2>2. MarkSpan(value[e].marks, 0, FALSE) = {}
    BY <2>1, RootUnmarks
  <2> QED BY <1>1, <2>2 DEF Values
<1> HIDE DEF empty
<1>3. Filled(e) = IF e \in OwnValue THEN value[e] ELSE Assign(empty, Helped(e))
  BY DEF Filled, empty
<1>4. Filled(e) \in Values
  BY <1>1, <1>2, <1>3, AssignIs
<1>5. ASSUME e \notin OwnValue, e \notin bare, ~Refused(dict[e])
      PROVE  MarkedLeaves(Filled(e).marks) = Named(e)
  <2> DEFINE leaves == {dict[e][i].leaf : i \in DOMAIN dict[e]}
  <2>0. Filled(e) = Assign(empty, dict[e])
    BY <1>3, <1>5 DEF Helped
  <2>1. Filled(e).marks = leaves
    BY <1>1, <1>2, <1>5, <2>0, AssignAll
  <2>2. \A i \in DOMAIN dict[e] : dict[e][i].leaf \in Leaves
    BY <1>1, <1>5, TakenIs DEF Refused
  <2>3. leaves \in SUBSET Leaves
    BY <2>2
  <2>4. Named(e) = leaves
    BY <1>5 DEF Named, Given
  <2> HIDE DEF leaves
  <2> QED BY <2>1, <2>3, <2>4, SentLeaves
<1> QED BY <1>4, <1>5

LEMMA CommitKeeps ==
  ASSUME PutInv, Commit PROVE PutInv'
<1> USE DEF PutInv
<1>1. /\ pc = "begin" /\ pc' = "commit" /\ ~BatchFails
      /\ \A e \in pending : op[e] \in {"open", "failed"}
      /\ value' = [e \in Entries |-> IF e \in Ready THEN Filled(e) ELSE value[e]]
      /\ op' = [e \in Entries |-> IF e \in Ready THEN "sent" ELSE "none"]
      /\ result' = [e \in Entries |-> IF e \in pending \ Ready THEN "failed" ELSE result[e]]
      /\ pending' = Ready
      /\ UNCHANGED <<mine, base, throw, get, dict, bare, deadline, late, server, ran>>
  BY DEF Commit, AllBegun, call
<1>2. Ready \subseteq pending /\ pending \subseteq Entries /\ \A e \in Ready : op[e] = "open"
  BY DEF Ready, TypeOK
<1>3. /\ \A e \in Ready : op'[e] = "sent" /\ value'[e] = Filled(e)
      /\ \A e \in Entries \ Ready : op'[e] = "none"
      /\ \A e \in pending \ Ready : result'[e] = "failed" /\ op[e] = "failed"
      /\ \A e \in Entries : e \notin pending \ Ready => result'[e] = result[e]
  BY <1>1, <1>2 DEF Ready
<1>4. TypeOK'
  <2>1. value' \in [Entries -> Values]
    BY <1>1, FilledIs DEF TypeOK
  <2>2. op' \in [Entries -> Ops]
    BY <1>1 DEF Ops
  <2>3. result' \in [Entries -> {"none", "ok", "failed", "lost"}]
    BY <1>1 DEF TypeOK
  <2> QED BY <1>1, <1>2, <1>3, <2>1, <2>2, <2>3 DEF TypeOK, Ops
<1>5. Sending'
  <2>1. ASSUME NEW e \in Entries, op'[e] = "sent", e \notin bare PROVE MarkedLeaves(value'[e].marks) = Named(e)'
    <3>1. e \in Ready /\ value'[e] = Filled(e)
      BY <1>3, <2>1
    <3>2. Named(e)' = Named(e)
      BY <1>1, NamedKept
    <3>3. CASE e \in OwnValue
      <4>1. Filled(e) = mine
        BY <1>2, <3>1, <3>3 DEF Filled, Sending
      <4> QED BY <2>1, <3>1, <3>2, <3>3, <4>1 DEF Named, Given
    <3>4. CASE e \notin OwnValue
      <4>1. ~Refused(dict[e])
        BY <1>1, <3>1, <3>4 DEF BatchFails
      <4> QED BY <2>1, <3>1, <3>2, <3>4, <4>1, FilledIs
    <3> QED BY <3>3, <3>4
  <2>2. \A e \in Entries : op'[e] # "open"
    BY <1>3
  <2> QED BY <1>1, <2>1, <2>2 DEF Sending
<1>6. Tally'
  <2>1. ASSUME NEW e \in Entries PROVE op'[e] = "none" \/ (op[e] = "open" /\ op'[e] = "sent")
    BY <1>2, <1>3
  <2> QED BY <1>1, <2>1 DEF Tally
<1>7. Settled'
  <2>1. ASSUME NEW e \in Entries \ Ready
        PROVE  result'[e] # "none" /\ (throw => result'[e] = "ok")
    <3>1. CASE e \in pending
      <4>1. result'[e] = "failed" /\ op[e] = "failed"
        BY <1>3, <3>1
      <4>2. ~throw
        BY <1>1, <3>1, <4>1 DEF BatchFails
      <4> QED BY <4>1, <4>2
    <3>2. CASE e \notin pending
      BY <1>1, <1>3, <3>2 DEF Settled
    <3> QED BY <3>1, <3>2
  <2>2. ASSUME NEW e \in Entries
        PROVE  /\ result'[e] = "ok" => ran[e] = "ran"
               /\ op'[e] # "none" => result'[e] = "none"
               /\ e \in Ready => result'[e] = "none"
    BY <1>2, <1>3 DEF Settled
  <2> QED BY <1>1, <2>1, <2>2 DEF Settled
<1>8. Escapes'
  BY <1>1, EscapesKept
<1> QED BY <1>4, <1>5, <1>6, <1>7, <1>8

LEMMA ExecutesKeeps ==
  ASSUME PutInv, NEW e \in Entries, Executes(e) PROVE PutInv'
<1> USE DEF PutInv
<1>1. /\ op[e] = "sent" /\ pc = "commit"
      /\ server' = [server EXCEPT ![e] = [l \in Leaves |-> IF l \in MarkedLeaves(value[e].marks)
                                                           THEN value[e].data[l] ELSE @[l]]]
      /\ op' = [op EXCEPT ![e] = "executed"]
      /\ ran' = [ran EXCEPT ![e] = IF @ = "ran" THEN "twice" ELSE "ran"]
      /\ UNCHANGED <<mine, base, pc, throw, get, dict, bare, deadline, pending, value, result, late>>
  BY DEF Executes, call
<1>2. op \in [Entries -> Ops] /\ ran \in [Entries -> {"never", "ran", "lost", "twice"}]
  BY DEF TypeOK, Ops
<1>3. ran[e] # "ran" /\ result[e] = "none"
  BY <1>1 DEF Tally, Settled
<1>4. /\ op'[e] = "executed" /\ ran'[e] = "ran"
      /\ \A d \in Entries \ {e} : op'[d] = op[d] /\ ran'[d] = ran[d]
  BY <1>1, <1>2, <1>3
<1>5. TypeOK'
  <2>1. server' \in [Entries -> [Leaves -> Data]]
    <3>1. server \in [Entries -> [Leaves -> Data]] /\ value[e].data \in [Leaves -> Data]
      BY DEF TypeOK, Values
    <3> QED BY <1>1, <3>1
  <2>2. op' \in [Entries -> Ops] /\ ran' \in [Entries -> {"never", "ran", "lost", "twice"}]
    BY <1>1, <1>2 DEF Ops
  <2>3. \A d \in pending : op'[d] \notin {"none", "opening", "open", "failed"}
    BY <1>1, <1>4 DEF TypeOK
  <2> QED BY <1>1, <2>1, <2>2, <2>3 DEF TypeOK, Ops
<1>6. Sending'
  <2>1. ASSUME NEW d \in Entries PROVE Named(d)' = Named(d) /\ (op'[d] = op[d] \/ op'[d] = "executed")
    BY <1>1, <1>4, NamedKept
  <2> QED BY <1>1, <2>1 DEF Sending
<1>7. Tally' /\ Settled'
  <2>1. ASSUME NEW d \in Entries
        PROVE  \/ op'[d] = "executed" /\ ran'[d] = "ran" /\ result[d] = "none"
               \/ op'[d] = op[d] /\ ran'[d] = ran[d]
    BY <1>3, <1>4
  <2> QED BY <1>1, <2>1 DEF Tally, Settled
<1>8. Escapes'
  BY <1>1, EscapesKept
<1> QED BY <1>5, <1>6, <1>7, <1>8

LEMMA AnsweredKeeps ==
  ASSUME PutInv, NEW e \in Entries, NEW how \in {"acked", "lost", "refused"}, Answered(e, how) PROVE PutInv'
<1> USE DEF PutInv
<1>1. /\ pc = "commit" /\ (op[e] = "executed" \/ (op[e] = "sent" /\ how # "acked"))
      /\ op' = [op EXCEPT ![e] = how]
      /\ ran' = IF how = "lost" /\ ran[e] = "ran" THEN [ran EXCEPT ![e] = "lost"] ELSE ran
      /\ UNCHANGED <<mine, base, pc, throw, get, dict, bare, deadline, pending, value, result, late, server>>
  BY DEF Answered, call
<1>2. op \in [Entries -> Ops] /\ ran \in [Entries -> {"never", "ran", "lost", "twice"}]
  BY DEF TypeOK, Ops
<1>3. /\ result[e] = "none" /\ ran[e] # "twice"
      /\ how = "acked" => ran[e] = "ran"
  BY <1>1 DEF Tally, Settled
<1>4. /\ op'[e] = how /\ ran'[e] # "twice"
      /\ how = "acked" => ran'[e] = "ran"
      /\ how = "lost" => ran'[e] # "ran"
      /\ \A d \in Entries \ {e} : op'[d] = op[d] /\ ran'[d] = ran[d]
  BY <1>1, <1>2, <1>3
<1>5. TypeOK'
  <2>1. op' \in [Entries -> Ops] /\ ran' \in [Entries -> {"never", "ran", "lost", "twice"}]
    BY <1>1, <1>2 DEF Ops
  <2>2. \A d \in pending : op'[d] \notin {"none", "opening", "open", "failed"}
    BY <1>1, <1>4 DEF TypeOK
  <2> QED BY <1>1, <2>1, <2>2 DEF TypeOK, Ops
<1>6. Sending'
  <2>1. ASSUME NEW d \in Entries PROVE Named(d)' = Named(d) /\ (op'[d] = op[d] \/ op'[d] \in {"acked", "lost", "refused"})
    BY <1>1, <1>4, NamedKept
  <2> QED BY <1>1, <2>1 DEF Sending
<1>7. Tally' /\ Settled'
  <2>1. ASSUME NEW d \in Entries
        PROVE  \/ /\ op'[d] = how /\ result[d] = "none" /\ ran'[d] # "twice"
                  /\ how = "acked" => ran'[d] = "ran"
                  /\ how = "lost" => ran'[d] # "ran"
               \/ op'[d] = op[d] /\ ran'[d] = ran[d]
    BY <1>3, <1>4
  <2> QED BY <1>1, <2>1 DEF Tally, Settled
<1>8. Escapes'
  BY <1>1, EscapesKept
<1> QED BY <1>5, <1>6, <1>7, <1>8

LEMMA SettleKeeps ==
  ASSUME PutInv, Settle PROVE PutInv'
<1> USE DEF PutInv
<1>1. /\ pc = "commit" /\ ~(throw /\ \E e \in pending \ Again : op[e] # "acked")
      /\ result' = [e \in Entries |-> IF e \in pending \ Again THEN Verdict(e) ELSE result[e]]
      /\ IF Again = {} THEN Returns ELSE Opens(Again)
      /\ value' = [e \in Entries |-> Fresh]
      /\ UNCHANGED <<mine, base, throw, get, dict, bare, deadline, late, server, ran>>
  BY DEF Settle, AllAnswered, call
<1>2. Again \subseteq pending /\ pending \subseteq Entries /\ \A e \in Again : op[e] = "lost"
  BY DEF Again, TypeOK
<1>3. /\ op' \in [Entries -> Ops] /\ pending' = Again /\ pc' \in {"begin", "returned"}
      /\ pc' = "returned" => Again = {}
      /\ \A e \in Again : op'[e] = "opening"
      /\ \A e \in Entries \ Again : op'[e] = "none"
  <2>1. CASE Again = {}
    <3>1. pc' = "returned" /\ pending' = {} /\ op' = [e \in Entries |-> "none"]
      BY <1>1, <2>1 DEF Returns
    <3> QED BY <2>1, <3>1 DEF Ops
  <2>2. CASE Again # {}
    BY <1>1, <1>2, <2>2, OpensAll
  <2> QED BY <2>1, <2>2
<1>4. /\ \A e \in pending \ Again : result'[e] = Verdict(e)
      /\ \A e \in Entries : e \notin pending \ Again => result'[e] = result[e]
  BY <1>1, <1>2
<1>5. \A e \in Entries : Verdict(e) \in {"ok", "failed", "lost"} /\ (Verdict(e) = "ok" <=> op[e] = "acked")
  BY DEF Verdict
<1>6. TypeOK'
  <2>1. value' \in [Entries -> Values]
    BY <1>1, FreshIs
  <2>2. result' \in [Entries -> {"none", "ok", "failed", "lost"}]
    BY <1>1, <1>5 DEF TypeOK
  <2>3. pending' \subseteq Entries /\ pc' # "commit"
    BY <1>2, <1>3
  <2> QED BY <1>1, <1>3, <2>1, <2>2, <2>3 DEF TypeOK, Ops
<1>7. Sending'
  BY <1>2, <1>3 DEF Sending
<1>8. Tally'
  <2>1. ASSUME NEW e \in Entries PROVE op'[e] = "none" \/ (op[e] = "lost" /\ op'[e] = "opening")
    BY <1>2, <1>3
  <2> QED BY <1>1, <1>3, <2>1 DEF Tally
<1>9. Settled'
  <2>1. ASSUME NEW e \in Entries \ Again
        PROVE  result'[e] # "none" /\ (throw => result'[e] = "ok")
    <3>1. CASE e \in pending
      BY <1>1, <1>4, <1>5, <3>1
    <3>2. CASE e \notin pending
      BY <1>1, <1>4, <3>2 DEF Settled
    <3> QED BY <3>1, <3>2
  <2>2. ASSUME NEW e \in Entries, result'[e] = "ok" PROVE ran[e] = "ran"
    <3>1. CASE e \in pending \ Again
      BY <1>4, <1>5, <2>2, <3>1 DEF Tally
    <3>2. CASE e \notin pending \ Again
      BY <1>4, <2>2, <3>2 DEF Settled
    <3> QED BY <3>1, <3>2
  <2>3. ASSUME NEW e \in Again PROVE result'[e] = "none"
    BY <1>2, <1>4, <2>3 DEF Settled
  <2>4. \A e \in Entries : op'[e] # "none" => e \in Again
    BY <1>3
  <2> QED BY <1>1, <1>2, <1>3, <2>1, <2>2, <2>3, <2>4 DEF Settled
<1>10. Escapes'
  BY <1>1, EscapesKept
<1> QED BY <1>6, <1>7, <1>8, <1>9, <1>10

LEMMA StutterKeeps ==
  ASSUME PutInv, UNCHANGED vars PROVE PutInv'
<1>1. UNCHANGED <<mine, base, pc, throw, get, dict, bare, deadline, pending, op, value, result, late, server, ran>>
  BY DEF vars, call
<1>2. TypeOK'
  BY <1>1 DEF PutInv, TypeOK
<1>3. Escapes' /\ Tally' /\ Settled'
  BY <1>1, EscapesKept DEF PutInv, Tally, Settled
<1>4. Sending'
  BY <1>1, NamedKept DEF PutInv, Sending
<1> QED BY <1>2, <1>3, <1>4 DEF PutInv

LEMMA PutStep == PutInv /\ [Next]_vars => PutInv'
<1> SUFFICES ASSUME PutInv, [Next]_vars PROVE PutInv'
  OBVIOUS
<1>1. CASE UNCHANGED vars
  BY <1>1, StutterKeeps
<1>2. CASE Next
  <2>0. mine \in Values
    BY DEF PutInv, TypeOK
  <2>1. ASSUME NEW v, Becomes(v), Sound(v) PROVE PutInv'
    BY <2>1, BecomesKeeps
  <2>2. CASE Put
    BY <2>2, PutKeeps
  <2>3. CASE Abort
    BY <2>3, RaisesKeeps DEF Abort
  <2>4. CASE Commit
    BY <2>4, CommitKeeps
  <2>5. CASE Failing
    BY <2>5, RaisesKeeps DEF Failing
  <2>6. CASE Settle
    BY <2>6, SettleKeeps
  <2>7. CASE Expires
    BY <2>7, ExpiresKeeps
  <2>8. ASSUME NEW e \in Entries, NEW ok \in BOOLEAN, Begun(e, ok) PROVE PutInv'
    BY <2>8, BegunKeeps
  <2>9. ASSUME NEW e \in Entries, Executes(e) PROVE PutInv'
    BY <2>9, ExecutesKeeps
  <2>10. ASSUME NEW e \in Entries, NEW how \in {"acked", "lost", "refused"}, Answered(e, how) PROVE PutInv'
    BY <2>10, AnsweredKeeps
  <2>11. ASSUME NEW e \in Entries, NEW l \in Leaves, NEW x \in Data, OthersPut(e, l, x) PROVE PutInv'
    BY <2>11, OthersKeep
  <2> QED BY <1>2, <2>0, <2>1, <2>2, <2>3, <2>4, <2>5, <2>6, <2>7, <2>8, <2>9, <2>10, <2>11, Built
<1> QED BY <1>1, <1>2

-----------------------------------------------------------------------------
(* The invariant holds of every behaviour.                                 *)
LEMMA PutHolds == Spec => []PutInv
BY PutInit, PutStep, PTL DEF Spec

(* MarksAgree: for every type, changed() and changedSet(expand=True) of    *)
(* every view (src/src/pva/value.rs) agree with what a put sends, and     *)
(* no assignment, taken whole or refused half way, changes a leaf that a   *)
(* put then would not send.                                                *)
THEOREM MarksTellTheChanges == Spec => []MarksAgree
<1>1. PutInv => MarksAgree
  <2> SUFFICES ASSUME PutInv PROVE MarksAgree
    OBVIOUS
  <2>1. mine.marks \in SUBSET Fields
    BY DEF PutInv, TypeOK, Values
  <2>2. MarkedLeaves(mine.marks) = {l \in Leaves : Marked(mine.marks, l)}
    BY <2>1, SentIs
  <2>3. \A l \in Leaves : mine.data[l] # base[l] => l \in MarkedLeaves(mine.marks)
    BY <2>2 DEF PutInv, Escapes
  <2>4. \A f \in Fields :
          /\ Changed(mine.marks, f) <=> Under(f) \cap MarkedLeaves(mine.marks) # {}
          /\ ChangedSet(mine.marks, f, TRUE) = (Under(f) \cap MarkedLeaves(mine.marks)) \ {f}
    BY <2>1, ChangedIs, ChangedSetIs
  <2> QED BY <2>2, <2>3, <2>4 DEF MarksAgree
<1> QED BY <1>1, PutHolds, PTL

(* VerdictsTrue: a put over a list (_put_many, pva/__init__.py) gives one  *)
(* verdict per name, all of them ok with throw; ok only if the server      *)
(* executed the put and its circuit was not lost since; and a put is       *)
(* executed again only after its circuit was lost under it, whatever       *)
(* timeouts, losses and refusals come together.                            *)
THEOREM PutVerdicts == Spec => []VerdictsTrue
<1>1. PutInv => VerdictsTrue
  <2> SUFFICES ASSUME PutInv PROVE VerdictsTrue
    OBVIOUS
  <2>1. pc = "returned" => \A e \in Entries : result[e] # "none" /\ (throw => result[e] = "ok")
    BY DEF PutInv, Settled
  <2>2. \A e \in Entries : ran[e] # "twice" /\ (result[e] = "ok" => ran[e] = "ran")
    BY DEF PutInv, Settled, Tally
  <2> QED BY <2>1, <2>2 DEF PutInv, VerdictsTrue
<1> QED BY <1>1, PutHolds, PTL

(* UnmarkSpares: unmark of a view, which clears a span of bits, leaves     *)
(* every leaf outside the view as marked as it was.                        *)
THEOREM UnmarkIsLocal == Spec => UnmarkSpares
<1> DEFINE Spares == \A f \in Fields : Unmark(f) =>
                       \A l \in Leaves \ Under(f) : Marked(mine.marks, l) = Marked(mine'.marks, l)
<1>1. PutInv => Spares
  <2> SUFFICES ASSUME PutInv, NEW f \in Fields, Unmark(f), NEW l \in Leaves \ Under(f)
               PROVE  Marked(mine.marks, l) = Marked(mine'.marks, l)
    OBVIOUS
  <2>1. mine \in Values /\ mine.marks \in SUBSET Fields
    BY DEF PutInv, TypeOK, Values
  <2>2. mine' = [mine EXCEPT !.marks = MarkSpan(mine.marks, f, FALSE)]
    BY DEF Unmark, Becomes
  <2>3. mine'.marks = MarkSpan(mine.marks, f, FALSE)
    BY <2>1, <2>2 DEF Values
  <2>4. l \in Leaves /\ l \notin Under(f)
    OBVIOUS
  <2>5. Marked(mine.marks, l) <=> Marked(MarkSpan(mine.marks, f, FALSE), l)
    BY <2>1, <2>4, UnmarkedElsewhere
  <2>6. Marked(mine.marks, l) <=> Marked(mine'.marks, l)
    BY <2>3, <2>5
  <2>7. Marked(mine.marks, l) \in BOOLEAN /\ Marked(mine'.marks, l) \in BOOLEAN
    BY DEF Marked
  <2> QED BY <2>6, <2>7
<1>2. PutInv => [Spares]_vars
  BY <1>1
<1> QED BY <1>2, PutHolds, PTL DEF UnmarkSpares

(* PutSendsNamed: what a put executes at the server changes no leaf that   *)
(* its caller did not name, though the value it was built from is marked   *)
(* all over when it is read (Wrapping.assign unmarks it first).  Of a bare *)
(* array nothing is claimed: NTNDArray.assign (nt.py) names every leaf.    *)
THEOREM PutIsExact == Spec => PutSendsNamed
<1> DEFINE Exact == \A e \in Entries : Executes(e) =>
                      \A l \in Leaves \ Named(e) : server'[e][l] = server[e][l]
<1>1. PutInv => Exact
  <2> SUFFICES ASSUME PutInv, NEW e \in Entries, Executes(e), NEW l \in Leaves \ Named(e)
               PROVE  server'[e][l] = server[e][l]
    OBVIOUS
  <2>0. e \notin bare
    BY DEF Named
  <2>1. MarkedLeaves(value[e].marks) = Named(e)
    BY <2>0 DEF PutInv, Sending, Executes
  <2>2. server \in [Entries -> [Leaves -> Data]]
    BY DEF PutInv, TypeOK
  <2>3. server' = [server EXCEPT ![e] = [k \in Leaves |-> IF k \in MarkedLeaves(value[e].marks)
                                                          THEN value[e].data[k] ELSE server[e][k]]]
    BY DEF Executes
  <2> QED BY <2>1, <2>2, <2>3
<1>2. PutInv => [Exact]_vars
  BY <1>1
<1> QED BY <1>2, PutHolds, PTL DEF PutSendsNamed
=============================================================================
