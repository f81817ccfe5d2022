-------------------------- MODULE MCDisplayNumbers --------------------------
(***************************************************************************)
(* Finite instances of DisplayNumbers for TLC: order o1 may have two       *)
(* lines, order o2 has none yet.                                           *)
(***************************************************************************)
EXTENDS DisplayNumbers, TLC

CONSTANTS o1, o2, l1, l2

LinesOfO1 == [l \in Lines |-> o1]

(* All lines belong to the same order. *)
ClientLineSymmetry == Permutations(Clients) \cup Permutations(Lines)
=============================================================================
