------------------------- MODULE MCTicketWorkflow -------------------------
(* A service desk and its departments; a1 sits on the desk and in each.     *)
EXTENDS TicketWorkflow

CONSTANTS a1, a2, m1, c1, c2, desk, d1, d2

\* The same desk with a single department.
OneTeam == (desk :> {a1, m1}) @@ (d1 :> {a1})

TwoTeams == (desk :> {a1, m1}) @@ (d1 :> {a1, m1}) @@ (d2 :> {a1, m1})

\* The call slots are interchangeable, and so are departments of the same members.
Same == Permutations(Calls) \cup Permutations(Departments)
=============================================================================
