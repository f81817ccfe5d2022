---------------------------- MODULE MCPurchasing ----------------------------
(***************************************************************************)
(* Finite instances of Purchasing for TLC.                                 *)
(***************************************************************************)
EXTENDS Purchasing, TLC

ClientSymmetry == Permutations(Clients) \cup Permutations(Results)
=============================================================================
