---------------------------- MODULE MCProposals ----------------------------
(***************************************************************************)
(* ProposalLifecycle on small instances.                                   *)
(***************************************************************************)
EXTENDS ProposalLifecycle, TLC

CONSTANTS q1, q2, v1, v2, low, mid, high

Interchangeable == Permutations({q1, q2}) \union Permutations({v1, v2})
                     \union Permutations({low, mid, high})
=============================================================================
