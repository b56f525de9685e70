-------------------------- MODULE MCTaskLifecycle --------------------------
(* Instances of TaskLifecycle for TLC. *)
EXTENDS TaskLifecycle, TLC

\* Tasks, terminals, gates and questions are interchangeable; dispatch ids are ordered.
Symmetry == Permutations(Tasks) \cup Permutations(Terminals)
              \cup Permutations(Gates) \cup Permutations(Questions)
=============================================================================
