--------------------------- MODULE MCDraftAmounts ---------------------------
(***************************************************************************)
(* Finite instances of DraftAmounts for TLC.                               *)
(***************************************************************************)
EXTENDS DraftAmounts, TLC

CONSTANTS i1, k1, k2

(* One invoice with two items, of the same weight. *)
OneInvoice == i1 :> {k1, k2}
Weights == [k \in {k1, k2} |-> 1]

(* A margin of 0 is accepted by the settings. *)
TwoSettings == {[rate |-> 2, margin |-> 1, freight |-> 1], [rate |-> 1, margin |-> 0, freight |-> 1]}

ItemSymmetry == Permutations({k1, k2}) \cup Permutations(Clients)
=============================================================================
