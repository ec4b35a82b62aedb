--------------------------- MODULE MCTicketIntake ---------------------------
(* Two requests with one key beside one sweep, for the same thing with one *)
(* mishap, or for two things; and one request whose callback two sweeps    *)
(* deliver at the same time.                                               *)
EXTENDS TicketIntake, TLC

CONSTANTS q1, q2, s1, s2, p1, p2

SameThing ==
  [asks: {(q1 :> p1) @@ (q2 :> p1)}, sweeps: {{s1}}, mishaps: {1}]
TwoThings ==
  [asks: {(q1 :> p1) @@ (q2 :> p2)}, sweeps: {{s1}}, mishaps: {0}]
Overlapping ==
  [asks: {(q1 :> p1) @@ (q2 :> None)}, sweeps: {{s1, s2}}, mishaps: {0}]

ThreeLoads == SameThing \cup TwoThings \cup Overlapping
=============================================================================
