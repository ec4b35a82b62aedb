--------------------------- MODULE MCLegacyTicket ---------------------------
(* One ticket without a workflow, with one call or two at a time. *)
EXTENDS LegacyTicket

CONSTANTS c1, c2

\* One call at a time, which may ask for every status and be killed; or two calls
\* at a time on a shorter life, with PATCHes to resolved.
TwoLoads ==
  {[calls |-> {c1}, statuses |-> Statuses, writes |-> 5, kills |-> 1],
   [calls |-> {c1, c2}, statuses |-> {"resolved"}, writes |-> 2, kills |-> 0]}
=============================================================================
