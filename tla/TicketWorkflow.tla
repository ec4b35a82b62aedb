--------------------------- MODULE TicketWorkflow ---------------------------
(***************************************************************************)
(* One service-desk workflow ticket, as the database row holds it, and     *)
(* everybody who writes that row: staff moving it between buckets          *)
(* (transitionWorkflow), the ticket actions that go through mutateTicket,  *)
(* the minute monitor, and the requester's confirmation link.              *)
(*                                                                         *)
(* Both storage drivers run a transaction atomically, so a handler whose   *)
(* reads and writes share one transaction is one action.  mutateTicket is  *)
(* different: its caller reads the ticket (ctx), it reads the ticket again *)
(* outside any transaction, computes the new workflow from that second     *)
(* read, and only then commits under a compare-and-set on workflowVersion. *)
(* Such a call takes three steps here, and anything may happen in between. *)
(*                                                                         *)
(* Time is abstract: the monitor finds a deadline passed or not passed,    *)
(* whichever it likes.  A visitId, and a resolvedAt stamp, is the version  *)
(* of the write that drew it: both are fresh per write, as in the code.    *)
(*                                                                         *)
(* Definitions named Faulty... are slips somebody could make in the code.  *)
(* No specification uses them: each shows that a property would notice.    *)
(***************************************************************************)
EXTENDS Integers, Sequences, SequencesExt

CONSTANTS
  Agents,        \* active staff accounts of the tenant with the role agent
  Managers,      \* active staff accounts with a manager or administrator role
  NoOne,         \* a null user id
  Desk,          \* the group configured as the service-desk bucket
  Departments,   \* the groups configured as department buckets
  Members,       \* Members[g]: the staff who are members of group g
  StaffStatuses, \* the statuses staff, rules and approvals put on a ticket
  Calls,         \* slots for mutateTicket calls in flight at the same time
  MaxVersion,    \* bound: calls and transitions stop at this version
  MaxReturns     \* bound: returns to the service desk

Staff == Agents \cup Managers
Groups == {Desk} \cup Departments

Statuses == {"new", "open", "in_progress", "pending", "auto_resolved",
             "pending_agent", "escalated", "resolved", "reopened", "closed",
             "cancelled"}
Phases == {"service_desk", "department", "awaiting_acceptance", "in_progress",
           "resolved", "closed"}
QueueMarks == {"warning", "manager", "rm"}
ResolutionMarks == {"resolution", "resolutionRm"}
Closures == {"requester_confirmed", "no_response"}

ASSUME TeamsAssumption ==
  /\ Agents \cap Managers = {}
  /\ NoOne \notin Staff
  /\ Desk \notin Departments
  /\ Members \in [Groups -> SUBSET Staff]
  /\ StaffStatuses \subseteq Statuses
ASSUME BoundsAssumption == MaxVersion \in Nat /\ MaxReturns \in Nat

VARIABLES
  ticket,  \* the row
  acks,    \* resolutions a confirmation link was issued for
  used,    \* resolutions whose link was used
  call     \* call[c]: what the mutateTicket call in slot c has read so far

vars == <<ticket, acks, used, call>>

\* The workflow object the row carries: one JSON value, always written whole.
\* resolvedById is kept on the row; queuedAt, queuedPauseMins and visitId are
\* always written together and are "visit" here.
Workflow ==
  [phase: Phases, visit: Nat, reviewer: Staff \cup {NoOne}, reviewed: BOOLEAN,
   acceptedBy: Staff \cup {NoOne}, marks: SUBSET (QueueMarks \cup ResolutionMarks),
   returns: Seq(Groups), closure: Closures \cup {"none"}, confirmed: BOOLEAN,
   reminded: BOOLEAN]

Ticket ==
  [status: Statuses, group: Groups, assignee: Staff \cup {NoOne},
   resolvedBy: Staff \cup {NoOne}, resolvedAt: Nat, paused: BOOLEAN,
   deleted: BOOLEAN, version: Nat, wf: Workflow]

\* What a caller of mutateTicket asks for.  resolvedAt is Keep when the patch
\* leaves it out, Fresh when it is a new stamp, 0 when it is null.  The actor
\* is recorded for a resolution only: no other patch is judged by it.  No
\* caller writes resolvedAt without a status.
Keep == -1
Fresh == -2
Patch ==
  {p \in [status: Statuses \cup {"none"}, resolvedAt: Nat \cup {Keep, Fresh},
          actor: Staff \cup {NoOne}, closure: Closures \cup {"none"},
          delete: BOOLEAN] :
     p.status = "none" => p.resolvedAt = Keep}
Touch == [status |-> "none", resolvedAt |-> Keep, actor |-> NoOne,
          closure |-> "none", delete |-> FALSE]

Idle == [pc |-> "idle"]
CallState == {Idle} \cup [pc: {"asked"}, patch: Patch]
                    \cup [pc: {"read"}, patch: Patch, row: Ticket]

-----------------------------------------------------------------------------
(* Creation *)

\* createTicket of a tenant whose workflow is enabled.
Init ==
  /\ ticket = [status |-> "open", group |-> Desk, assignee |-> NoOne,
               resolvedBy |-> NoOne, resolvedAt |-> 0, paused |-> FALSE,
               deleted |-> FALSE, version |-> 1,
               wf |-> [phase |-> "service_desk", visit |-> 1,
                       reviewer |-> NoOne, reviewed |-> FALSE,
                       acceptedBy |-> NoOne, marks |-> {}, returns |-> <<>>,
                       closure |-> "none", confirmed |-> FALSE,
                       reminded |-> FALSE]]
  /\ acks = {}
  /\ used = {}
  /\ call = [c \in Calls |-> Idle]

Finished == {"resolved", "auto_resolved", "closed", "cancelled"}
Settled == {"resolved", "auto_resolved", "closed"}
Accepted(row) == row.wf.acceptedBy # NoOne
InGroup(u) == u \in Members[ticket.group]
WithinBound == ticket.version < MaxVersion

-----------------------------------------------------------------------------
(* transitionWorkflow: one transaction per action *)

\* Deleted, finished and held tickets refuse every transition.
AwaitsWork ==
  /\ ~ticket.deleted
  /\ ticket.status \notin Finished
  /\ ~ticket.paused /\ ticket.status # "pending"
  /\ WithinBound

\* The transaction's updateIf: the version read is the version replaced.
Transition(status, group, assignee, wf) ==
  /\ ticket' = [ticket EXCEPT !.status = status, !.group = group,
                              !.assignee = assignee, !.wf = wf,
                              !.version = @ + 1]
  /\ UNCHANGED <<acks, used, call>>

ClaimReview(u) ==
  /\ AwaitsWork
  /\ ticket.wf.phase = "service_desk"
  /\ InGroup(u) \/ u \in Managers
  /\ ticket.wf.reviewer = NoOne
  /\ Transition(ticket.status, ticket.group, ticket.assignee,
                [ticket.wf EXCEPT !.reviewer = u])

\* A re-route to a group that returned the ticket, or any route after two
\* returns, needs a manager (who always has a reason to give).
Misrouted(g) ==
  \/ \E i \in DOMAIN ticket.wf.returns : ticket.wf.returns[i] = g
  \/ Len(ticket.wf.returns) >= 2

Route(u, g) ==
  /\ AwaitsWork
  /\ ticket.wf.phase = "service_desk"
  /\ u \in Managers \/ ticket.wf.reviewer = u
  /\ Misrouted(g) => u \in Managers
  /\ Transition("open", g, NoOne,
       [ticket.wf EXCEPT !.phase = "department",
                         !.reviewer = IF @ = NoOne THEN u ELSE @,
                         !.reviewed = TRUE,
                         !.visit = ticket.version + 1,
                         !.marks = @ \ QueueMarks])

Offer(u, target) ==
  /\ AwaitsWork
  /\ u \in Managers
  /\ ticket.wf.phase \in {"department", "awaiting_acceptance"}
  /\ InGroup(target)
  /\ Transition(ticket.status, ticket.group, target,
                [ticket.wf EXCEPT !.phase = "awaiting_acceptance"])

TakeOn(u) ==
  Transition("in_progress", ticket.group, u,
             [ticket.wf EXCEPT !.phase = "in_progress", !.acceptedBy = u])

FaultyPickup(u) ==  \* picks up accepted work too
  /\ AwaitsWork
  /\ ticket.wf.phase \in {"department", "in_progress"}
  /\ InGroup(u)
  /\ TakeOn(u)

Pickup(u) ==
  /\ AwaitsWork
  /\ ticket.wf.phase = "department"
  /\ InGroup(u)
  /\ TakeOn(u)

Accept(u) ==
  /\ AwaitsWork
  /\ ticket.wf.phase = "awaiting_acceptance"
  /\ ticket.assignee = u
  /\ InGroup(u)
  /\ TakeOn(u)

Decline(u) ==
  /\ AwaitsWork
  /\ ticket.wf.phase = "awaiting_acceptance"
  /\ u \in Managers \/ ticket.assignee = u
  /\ Transition("open", ticket.group, NoOne,
                [ticket.wf EXCEPT !.phase = "department", !.acceptedBy = NoOne])

Release(u) ==
  /\ AwaitsWork
  /\ ticket.wf.phase = "in_progress"
  /\ u \in Managers \/ ticket.assignee = u
  /\ Transition("open", ticket.group, NoOne,
       [ticket.wf EXCEPT !.phase = "department", !.acceptedBy = NoOne,
                         !.visit = ticket.version + 1,
                         !.marks = @ \ QueueMarks])

ReturnToServiceDesk(u) ==
  /\ AwaitsWork
  /\ ticket.wf.phase \in {"department", "awaiting_acceptance", "in_progress"}
  /\ u \in Managers \/ InGroup(u) \/ ticket.assignee = u
  /\ Len(ticket.wf.returns) < MaxReturns
  /\ Transition("open", Desk, NoOne,
       [ticket.wf EXCEPT !.phase = "service_desk",
                         !.returns = Append(@, ticket.group),
                         !.visit = ticket.version + 1,
                         !.reviewer = NoOne, !.reviewed = FALSE,
                         !.acceptedBy = NoOne, !.marks = {}])

-----------------------------------------------------------------------------
(* mutateTicket, asked for by the ticket actions: asked -> read -> written *)

\* The caller has read the ticket (ctx) and asks for patch p.
Ask(c, p) ==
  /\ call[c] = Idle
  /\ ~ticket.deleted
  /\ WithinBound
  /\ call' = [call EXCEPT ![c] = [pc |-> "asked", patch |-> p]]
  /\ UNCHANGED <<ticket, acks, used>>

AgentReply(c, public) ==
  Ask(c, [Touch EXCEPT
            !.status = IF public /\ Accepted(ticket)
                            /\ ticket.status \in {"open", "new", "reopened"}
                       THEN "in_progress" ELSE "none"])

AgentResolve(c, u) ==
  /\ Accepted(ticket)
  /\ Ask(c, [Touch EXCEPT !.status = "resolved", !.resolvedAt = Fresh,
                          !.actor = u])

ReopenTicket(c) ==
  /\ ticket.status \in Settled
  /\ Ask(c, [Touch EXCEPT !.status = "reopened", !.resolvedAt = 0])

EscalateTicket(c) ==
  /\ ticket.status \notin Finished \cup {"escalated"}
  /\ Ask(c, [Touch EXCEPT !.status = "escalated"])

UpdateTicketFields(c, s) ==
  /\ s \notin Settled
  /\ Ask(c, [Touch EXCEPT !.status = s])

\* held: an approval for the ticket is pending.
RequesterReply(c, held) ==
  Ask(c, IF ticket.status \in Settled
         THEN [Touch EXCEPT !.status = "reopened", !.resolvedAt = 0]
         ELSE IF ticket.status = "pending" /\ ~held
         THEN [Touch EXCEPT !.status = IF Accepted(ticket) THEN "in_progress"
                                                           ELSE "open"]
         ELSE Touch)

SubmitFeedback(c, satisfied) ==
  /\ ticket.status \in Settled
  /\ Ask(c, IF satisfied
            THEN [Touch EXCEPT !.status = "closed",
                    !.closure = "requester_confirmed",
                    !.resolvedAt = IF ticket.resolvedAt = 0 THEN Fresh
                                                           ELSE ticket.resolvedAt]
            ELSE [Touch EXCEPT !.status = "reopened", !.resolvedAt = 0])

\* Automation rules, approval decisions and merges name a status outright.
SetStatus(c, s) == Ask(c, [Touch EXCEPT !.status = s])

DeleteTicket(c) == Ask(c, [Touch EXCEPT !.delete = TRUE])

FaultyClosePermitted(row, p) ==  \* closes without a reason
  /\ p.status # "auto_resolved"
  /\ p.status \in {"in_progress", "resolved"} => Accepted(row)
  /\ p.status = "resolved" =>
       /\ row.status \notin {"resolved", "closed", "cancelled"}
       /\ p.actor \in Staff /\ p.actor \in {row.assignee} \cup Managers
  /\ p.status = "closed" => row.status = "resolved"
  /\ p.status = "reopened" => row.status \in Settled

FaultyResolvePermitted(row, p) ==  \* resolves work that nobody accepted
  /\ p.status # "auto_resolved"
  /\ p.status = "in_progress" => Accepted(row)
  /\ p.status = "resolved" =>
       row.status \notin {"resolved", "closed", "cancelled"}
  /\ p.status = "closed" => row.status = "resolved" /\ p.closure \in Closures
  /\ p.status = "reopened" => row.status \in Settled

\* workflowMutationPatch: what it refuses,
Permitted(row, p) ==
  /\ p.status # "auto_resolved"
  /\ p.status = "in_progress" => Accepted(row)
  /\ p.status = "resolved" =>
       /\ row.status \notin {"resolved", "closed", "cancelled"}
       /\ Accepted(row)
       /\ p.actor \in Staff
       /\ p.actor = row.assignee \/ p.actor \in Managers
  /\ p.status = "closed" => row.status = "resolved" /\ p.closure \in Closures
  /\ p.status = "reopened" => row.status \in Settled

FaultyRequeued(wf, phase, v) ==  \* keeps the former owner
  [wf EXCEPT !.phase = phase, !.visit = v, !.marks = {}, !.closure = "none",
             !.confirmed = FALSE, !.reminded = FALSE]

\* the bucket entry of a reopened ticket, in a visit named v,
Requeued(wf, phase, v) ==
  [wf EXCEPT !.phase = phase, !.visit = v, !.acceptedBy = NoOne,
             !.marks = {}, !.closure = "none", !.confirmed = FALSE,
             !.reminded = FALSE]

\* and the workflow object it writes.
MutatedWorkflow(row, p) ==
  CASE p.status = "resolved" ->
         [row.wf EXCEPT !.phase = "resolved", !.closure = "none",
                        !.confirmed = FALSE, !.reminded = FALSE]
    [] p.status = "closed" ->
         [row.wf EXCEPT !.phase = "closed", !.closure = p.closure,
                        !.confirmed = @ \/ p.closure = "requester_confirmed"]
    [] p.status = "reopened" ->
         Requeued(row.wf,
                  IF row.wf.reviewed THEN "department" ELSE "service_desk",
                  row.version + 1)
    [] OTHER -> row.wf

Changes(row, p) == p.status # "none" /\ p.status # row.status

\* slaPausePatch: only a change of status moves the pause, judged on the row read.
PausedAfter(row, p) ==
  CASE Changes(row, p) /\ p.status = "pending" /\ ~row.paused -> TRUE
    [] Changes(row, p) /\ row.status = "pending" /\ row.paused -> FALSE
    [] OTHER -> ticket.paused

FaultyFirstStamp(row, p) ==  \* keeps the stamp of the first resolution
  IF row.resolvedAt # 0 THEN row.resolvedAt
  ELSE IF p.resolvedAt = Fresh THEN row.version + 1 ELSE 0

ResolvedAtAfter(row, p) ==
  CASE p.resolvedAt = Fresh -> row.version + 1
    [] p.resolvedAt \in Nat -> p.resolvedAt
    [] OTHER ->
         IF Changes(row, p) /\ p.status \in Settled /\ row.resolvedAt = 0
         THEN row.version + 1
         ELSE IF Changes(row, p) /\ p.status = "reopened" THEN 0
         ELSE ticket.resolvedAt

\* mutateTicket reads the current row and lets the guard judge the patch.
ReadCurrent(c) ==
  /\ call[c].pc = "asked"
  /\ LET p == call[c].patch IN
       call' = [call EXCEPT ![c] =
                  IF ~ticket.deleted /\ Permitted(ticket, p)
                  THEN [pc |-> "read", patch |-> p, row |-> ticket]
                  ELSE Idle]
  /\ UNCHANGED <<ticket, acks, used>>

FaultyUnchanged(row, p) ==  \* does not compare versions
  p.status = "resolved" =>
    ticket.status = row.status /\ ticket.resolvedAt = row.resolvedAt

\* Inside the transaction: resolution eligibility is read again, and updateIf
\* asks for the version that was read.
Unchanged(row, p) ==
  /\ p.status = "resolved" =>
       /\ ticket.status = row.status
       /\ ticket.resolvedAt = row.resolvedAt
       /\ ticket.status # "resolved"
  /\ ticket.version = row.version

Written(row, p) ==
  [ticket EXCEPT
     !.status = IF p.status = "none" THEN @ ELSE p.status,
     !.assignee = IF p.status = "reopened" THEN NoOne ELSE @,
     !.resolvedBy = CASE p.status = "reopened" -> NoOne
                      [] p.status = "resolved" -> p.actor
                      [] OTHER -> @,
     !.resolvedAt = ResolvedAtAfter(row, p),
     !.paused = PausedAfter(row, p),
     !.deleted = @ \/ p.delete,
     !.version = row.version + 1,
     !.wf = MutatedWorkflow(row, p)]

Commit(c) ==
  /\ call[c].pc = "read"
  /\ LET row == call[c].row
         p == call[c].patch
     IN IF Unchanged(row, p)
        THEN /\ ticket' = Written(row, p)
             /\ acks' = IF p.status = "resolved"
                        THEN acks \cup {ResolvedAtAfter(row, p)} ELSE acks
        ELSE UNCHANGED <<ticket, acks>>
  /\ call' = [call EXCEPT ![c] = Idle]
  /\ UNCHANGED used

-----------------------------------------------------------------------------
(* The confirmation link: acknowledgeTicket *)

\* The link of resolution r opens only the resolution it was mailed for.
LinkValid(r) ==
  /\ r \in acks \ used
  /\ ~ticket.deleted
  /\ ticket.status = "resolved"
  /\ ticket.resolvedAt = r

Confirm(r) ==
  /\ LinkValid(r)
  /\ used' = used \cup {r}
  /\ ticket' = [ticket EXCEPT !.status = "closed", !.version = @ + 1,
                              !.wf.phase = "closed", !.wf.confirmed = TRUE,
                              !.wf.closure = "requester_confirmed"]
  /\ UNCHANGED <<acks, call>>

Dispute(r) ==
  /\ LinkValid(r)
  /\ used' = used \cup {r}
  /\ ticket' = [ticket EXCEPT !.status = "reopened", !.version = @ + 1,
                              !.resolvedAt = 0, !.resolvedBy = NoOne,
                              !.assignee = NoOne,
                              !.wf = Requeued(@, "department",
                                              ticket.version + 1)]
  /\ UNCHANGED <<acks, call>>

-----------------------------------------------------------------------------
(* The minute sweep: monitorWorkflowTicket *)

\* How far the queue has aged: each level has passed the ones before it.
Passed == [on_track |-> {}, warning |-> {"warning"},
           manager |-> {"warning", "manager"}, senior_rm |-> QueueMarks]
\* How late the resolution is.
Late == [in_time |-> {}, late |-> {"resolution"}, later |-> ResolutionMarks]

\* bucketHealth is finished, accepted or paused before it is a level.
DueMarks(level, lateness) ==
  CASE ticket.status \in Finished -> {}
    [] ticket.wf.phase = "in_progress" ->
         IF ticket.paused \/ ticket.status = "pending" THEN {} ELSE Late[lateness]
    [] ticket.paused \/ ticket.status = "pending" -> {}
    [] OTHER -> Passed[level]

\* A ticket that still awaits confirmation, and for how long.
AwaitsConfirmation == ticket.status = "resolved" /\ ticket.resolvedAt # 0

MonitorEscalates(level, lateness) ==
  /\ ~ticket.deleted /\ ticket.status \notin {"closed", "cancelled"}
  /\ ~(DueMarks(level, lateness) \subseteq ticket.wf.marks)
  /\ ticket' = [ticket EXCEPT !.wf.marks = @ \cup DueMarks(level, lateness),
                              !.version = @ + 1]
  /\ UNCHANGED <<acks, used, call>>

FaultyReminds ==  \* writes without a new version
  /\ ~ticket.deleted /\ AwaitsConfirmation /\ ~ticket.wf.reminded
  /\ ticket' = [ticket EXCEPT !.wf.reminded = TRUE]
  /\ UNCHANGED <<acks, used, call>>

\* Three to seven days after the resolution.
MonitorReminds ==
  /\ ~ticket.deleted /\ AwaitsConfirmation
  /\ ~ticket.wf.reminded
  /\ ticket' = [ticket EXCEPT !.wf.reminded = TRUE, !.version = @ + 1]
  /\ UNCHANGED <<acks, used, call>>

FaultyCloses ==  \* closes only what it has reminded of
  /\ ~ticket.deleted /\ AwaitsConfirmation /\ ticket.wf.reminded
  /\ ticket' = [ticket EXCEPT !.status = "closed", !.version = @ + 1,
                              !.wf.phase = "closed",
                              !.wf.closure = "no_response"]
  /\ UNCHANGED <<acks, used, call>>

\* Seven days after it.
MonitorCloses ==
  /\ ~ticket.deleted /\ AwaitsConfirmation
  /\ ticket' = [ticket EXCEPT !.status = "closed", !.version = @ + 1,
                              !.wf.phase = "closed", !.wf.confirmed = FALSE,
                              !.wf.closure = "no_response"]
  /\ UNCHANGED <<acks, used, call>>

-----------------------------------------------------------------------------
TransitionStep ==
  \E u \in Staff :
    \/ ClaimReview(u)
    \/ \E g \in Departments : Route(u, g)
    \/ \E t \in Staff : Offer(u, t)
    \/ Pickup(u)
    \/ Accept(u)
    \/ Decline(u)
    \/ Release(u)
    \/ ReturnToServiceDesk(u)

AskStep(c) ==
  \/ \E public \in BOOLEAN : AgentReply(c, public)
  \/ \E u \in Staff : AgentResolve(c, u)
  \/ ReopenTicket(c)
  \/ EscalateTicket(c)
  \/ \E s \in StaffStatuses \cup {"none"} : UpdateTicketFields(c, s)
  \/ \E held \in BOOLEAN : RequesterReply(c, held)
  \/ \E satisfied \in BOOLEAN : SubmitFeedback(c, satisfied)
  \/ \E s \in StaffStatuses : SetStatus(c, s)
  \/ DeleteTicket(c)

LinkStep == \E r \in acks : Confirm(r) \/ Dispute(r)

MonitorStep ==
  \/ \E level \in DOMAIN Passed, lateness \in DOMAIN Late :
       MonitorEscalates(level, lateness)
  \/ MonitorReminds
  \/ MonitorCloses

Next ==
  \/ TransitionStep
  \/ \E c \in Calls : AskStep(c) \/ ReadCurrent(c) \/ Commit(c)
  \/ LinkStep
  \/ MonitorStep

Spec == Init /\ [][Next]_vars

\* The minute trigger runs the monitor for ever, so a ticket whose seven days
\* have run out is found; a call that was made is answered.
Fairness ==
  /\ WF_vars(MonitorCloses)
  /\ \A c \in Calls : WF_vars(ReadCurrent(c)) /\ WF_vars(Commit(c))
FairSpec == Spec /\ Fairness

-----------------------------------------------------------------------------
(* Properties *)

\* Every variable has the type the row and the calls are declared with.
TypeOK ==
  /\ ticket \in Ticket
  /\ acks \in SUBSET Nat
  /\ used \in SUBSET Nat
  /\ call \in [Calls -> CallState]

\* Human review cannot be skipped: outside the service desk a ticket has been
\* reviewed by a named member of staff and sits in a department bucket; inside
\* it, it is unreviewed, unassigned and in the desk's own group.
Reviewed ==
  IF ticket.wf.phase = "service_desk"
  THEN ticket.group = Desk /\ ~ticket.wf.reviewed /\ ticket.assignee = NoOne
  ELSE ticket.group \in Departments /\ ticket.wf.reviewed
         /\ ticket.wf.reviewer \in Staff

\* Assignment is an offer, acceptance is ownership: a ticket has an accepted
\* owner exactly while it is worked on or finished, that owner is its assignee
\* and belongs to the bucket the ticket is in; a queued ticket has no assignee.
Owned ==
  /\ Accepted(ticket) <=>
       ticket.wf.phase \in {"in_progress", "resolved", "closed"}
  /\ Accepted(ticket) =>
       ticket.assignee = ticket.wf.acceptedBy /\ InGroup(ticket.assignee)
  /\ ticket.wf.phase = "department" => ticket.assignee = NoOne
  /\ ticket.wf.phase = "awaiting_acceptance" =>
       ticket.assignee \in Staff /\ InGroup(ticket.assignee)

\* A resolved ticket carries the resolver who was entitled to resolve it and a
\* resolution a link was mailed for; a closed one says why, and is called
\* confirmed exactly when the requester confirmed it.
Concluded ==
  /\ ticket.status = "resolved" =>
       /\ ticket.wf.phase = "resolved"
       /\ ticket.resolvedBy \in {ticket.assignee} \cup Managers
       /\ ticket.resolvedAt \in acks
       /\ ticket.wf.closure = "none" /\ ~ticket.wf.confirmed
  /\ ticket.status = "closed" =>
       /\ ticket.wf.phase = "closed"
       /\ ticket.wf.closure \in Closures
       /\ ticket.wf.confirmed <=> ticket.wf.closure = "requester_confirmed"

\* The SLA clock of a workflow ticket is stopped exactly while it is pending,
\* whatever calls overlapped on the way.
Held == ticket.paused <=> ticket.status = "pending"

\* Optimistic concurrency: a call that finds the version it read finds the row
\* it read, so the workflow object it computed is still the right one to write.
ReadIsCurrent ==
  \A c \in Calls :
    call[c].pc = "read" =>
      /\ call[c].row.version <= ticket.version
      /\ call[c].row.version = ticket.version => call[c].row = ticket

\* The inductive invariant behind the safety properties: the guard's verdict
\* on a call still holds of the row the call read, and automatic resolution
\* never happens to a workflow ticket.
Judged ==
  \A c \in Calls : call[c].pc = "read" => Permitted(call[c].row, call[c].patch)
HumanResolution == ticket.status # "auto_resolved"
WorkflowInv ==
  /\ TypeOK
  /\ ReadIsCurrent /\ Judged
  /\ Reviewed /\ Owned /\ Concluded /\ Held /\ HumanResolution

\* A confirmation link decides one resolution: once it was used the ticket is
\* never again awaiting confirmation of that resolution.
LinkUsedUp ==
  \A r \in used : ~(ticket.status = "resolved" /\ ticket.resolvedAt = r)

\* One winner per visit: accepted work is never handed from one agent straight
\* to another, and losing its owner starts a new visit with a new clock.
OneWinnerPerVisit ==
  [][Accepted(ticket) /\ ticket'.wf.acceptedBy # ticket.wf.acceptedBy
       => ~Accepted(ticket') /\ ticket'.wf.visit > ticket.wf.visit]_vars

\* Nothing is forgotten, although every writer replaces the whole workflow object
\* from what it read: the misrouting history only grows, and the marker of an alert
\* that was raised disappears only when a new visit begins.
HistoryKept ==
  [][/\ IsPrefix(ticket.wf.returns, ticket'.wf.returns)
     /\ ticket'.wf.visit = ticket.wf.visit
          => ticket.wf.marks \subseteq ticket'.wf.marks]_vars

\* A resolved ticket does not wait for its requester for ever.
ResolutionSettles ==
  ticket.status = "resolved" ~> ticket.status # "resolved" \/ ticket.deleted

\* What the board says of the phase resolved, "Resolved, awaiting
\* confirmation": such a ticket can be confirmed.
ResolvedAwaitsConfirmation ==
  ticket.wf.phase = "resolved" => ticket.status = "resolved"

-----------------------------------------------------------------------------
(* The ticket implements TicketCustody *)

StageOf(phase) ==
  CASE phase = "service_desk" -> "review"
    [] phase \in {"department", "awaiting_acceptance"} -> "queue"
    [] phase = "in_progress" -> "work"
    [] OTHER -> "done"

Custody == INSTANCE TicketCustody
  WITH stage <- StageOf(ticket.wf.phase), holder <- ticket.group,
       owner <- ticket.wf.acceptedBy

\* Every write of the row, by anybody, is a step of the custody promise or
\* leaves custody alone.
ImplementsCustody == Custody!Spec

=============================================================================
