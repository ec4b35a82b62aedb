---------------------------- MODULE MCAuditChain ----------------------------
(* Two overlapping appends to the trails of two tenants.                    *)
EXTENDS AuditChain

CONSTANTS c1, c2, t1, t2, e1, e2, e3
=============================================================================
