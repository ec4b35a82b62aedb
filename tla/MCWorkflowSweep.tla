-------------------------- MODULE MCWorkflowSweep --------------------------
(* Two invocations over three tickets, with tokens enough to draw from.    *)
EXTENDS WorkflowSweep

CONSTANTS r1, r2, t1, t2, t3, t4
=============================================================================
