------------------------------ MODULE AuditLog ------------------------------
(***************************************************************************)
(* What the audit trail of the tenants promises: each tenant has one log,  *)
(* and all that ever happens to a log is that one entry is added at its    *)
(* end.  AuditChain implements it with rows, hashes and transactions.      *)
(***************************************************************************)
EXTENDS Sequences

CONSTANTS
  Tenants,  \* the organizations
  Entries   \* what may be written down

VARIABLE log  \* log[t]: the entries of tenant t, oldest first

Init == log = [t \in Tenants |-> <<>>]

Record(t, e) == log' = [log EXCEPT ![t] = Append(@, e)]

Next == \E t \in Tenants, e \in Entries : Record(t, e)

Spec == Init /\ [][Next]_log
=============================================================================
