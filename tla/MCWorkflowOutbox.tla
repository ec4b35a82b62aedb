------------------------- MODULE MCWorkflowOutbox -------------------------
(* Two overlapping invocations of the outbox sweep.                        *)
EXTENDS WorkflowOutbox, TLC

CONSTANTS r1, r2

\* The invocations are interchangeable.
Invocations == Permutations(Runs)
=============================================================================
