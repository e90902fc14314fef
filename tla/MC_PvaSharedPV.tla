-------------------------- MODULE MC_PvaSharedPV --------------------------
(***************************************************************************)
(* A small instance of PvaSharedPV: a marked and a plain subscriber with   *)
(* rings of one element, so that every second post squashes.               *)
(***************************************************************************)
EXTENDS PvaSharedPV, TLC

CONSTANTS s1, s2, t1, t2, f1, f2

Rings == s1 :> 1 @@ s2 :> 1
Numbering == 0..1

\* Types and fields are interchangeable: every property is a safety property.
Symmetry == Permutations({t1, t2}) \cup Permutations({f1, f2})

=============================================================================
