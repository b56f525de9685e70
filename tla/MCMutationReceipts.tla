------------------------ MODULE MCMutationReceipts ------------------------
(* Model checking of MutationReceipts: request ids and payloads are        *)
(* interchangeable.                                                        *)
EXTENDS MutationReceipts, TLC

Symmetry == Permutations(Requests) \cup Permutations(Payloads)
=============================================================================
