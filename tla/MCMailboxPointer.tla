-------------------------- MODULE MCMailboxPointer --------------------------
(* Instances of MailboxPointer for TLC: nothing distinguishes two panes.   *)
EXTENDS MailboxPointer, TLC

Symmetry == Permutations(Panes)
=============================================================================
