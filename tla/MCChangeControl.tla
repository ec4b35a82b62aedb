-------------------------- MODULE MCChangeControl --------------------------
(* Two overlapping calls on a change with two approval rows.             *)
EXTENDS ChangeControl, TLC

CONSTANTS c1, c2, v1, v2

\* Slots and approval ids are interchangeable.
Symmetric == Permutations(Slots) \cup Permutations(Approvals)
=============================================================================
