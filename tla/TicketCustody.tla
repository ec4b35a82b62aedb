--------------------------- MODULE TicketCustody ---------------------------
(***************************************************************************)
(* What the service-desk workflow promises about one ticket, whatever the  *)
(* API, the monitor and the confirmation link do: at any time it is under  *)
(* review at the desk, queued in a department, worked on by the one member *)
(* of that department who took it on, or done.  Work is never taken away   *)
(* from an owner except by putting it back; what is done comes back only   *)
(* to a queue.                                                             *)
(***************************************************************************)
CONSTANTS Staff, NoOne, Desk, Departments, Members

VARIABLES stage, holder, owner

custody == <<stage, holder, owner>>

Init == stage = "review" /\ holder = Desk /\ owner = NoOne

\* A reviewer sends the ticket to a department.
Dispatch(g) ==
  /\ stage = "review"
  /\ stage' = "queue" /\ holder' = g
  /\ UNCHANGED owner

\* A member of the department takes the ticket on.
TakeOn(u) ==
  /\ stage = "queue" /\ u \in Members[holder]
  /\ stage' = "work" /\ owner' = u
  /\ UNCHANGED holder

\* The owner, or a dispatcher, puts the work back into the queue.
PutBack ==
  /\ stage = "work"
  /\ stage' = "queue" /\ owner' = NoOne
  /\ UNCHANGED holder

\* The department sends a wrongly routed ticket back to the desk.
SendBack ==
  /\ stage \in {"queue", "work"}
  /\ stage' = "review" /\ holder' = Desk /\ owner' = NoOne

\* The work is resolved, and stays credited to its owner.
Finish ==
  /\ stage = "work"
  /\ stage' = "done"
  /\ UNCHANGED <<holder, owner>>

\* The requester is not satisfied: back to the department's queue.
ComeBack ==
  /\ stage = "done"
  /\ stage' = "queue" /\ owner' = NoOne
  /\ UNCHANGED holder

Next ==
  \/ \E g \in Departments : Dispatch(g)
  \/ \E u \in Staff : TakeOn(u)
  \/ PutBack
  \/ SendBack
  \/ Finish
  \/ ComeBack

Spec == Init /\ [][Next]_custody
=============================================================================
