----------------------------- MODULE MCBatchJobs -----------------------------
(***************************************************************************)
(* Finite instances of BatchJobs for TLC.                                  *)
(***************************************************************************)
EXTENDS BatchJobs, TLC

Symmetric ==
    Permutations(Jobs) \cup Permutations(Dates) \cup Permutations(Keys)
        \cup Permutations(Clients)
=============================================================================
