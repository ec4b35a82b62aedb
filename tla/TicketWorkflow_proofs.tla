----------------------- MODULE TicketWorkflow_proofs -----------------------
(***************************************************************************)
(* Proofs about TicketWorkflow, for every staff, every set of departments, *)
(* any number of calls in flight and any bounds, in five parts.            *)
(*                                                                         *)
(* Calls: the types, and that a call which finds the version it read also  *)
(* finds the row it read (ReadIsCurrent), so that a commit is a step from  *)
(* the current row, permitted on what it says now, and an action like the  *)
(* others from there on.                                                   *)
(*                                                                         *)
(* Safety: WorkflowInv is inductive.                                       *)
(*                                                                         *)
(* Custody: every write of the row is one of the steps of TicketCustody or *)
(* leaves stage, holder and owner alone; which of the two it is depends on *)
(* the phase the row is in, which WorkflowInv ties to status, owner and    *)
(* bucket.  Visits are new because they are named by versions, which only  *)
(* grow.  So accepted work passes from one owner to another only through   *)
(* the queue, and in a visit of its own.                                   *)
(*                                                                         *)
(* Links: the links a requester may answer carry the version of the row    *)
(* they were made for, so that each is answered once.                      *)
(*                                                                         *)
(* History: every write of the row leaves the recorded events a prefix of  *)
(* what it records.                                                        *)
(***************************************************************************)
EXTENDS TicketWorkflow, SequenceTheorems, TLAPS

-----------------------------------------------------------------------------
(* CALLS *)

-----------------------------------------------------------------------------
(* Types of what the handlers compute *)

LEMMA DueMarksType ==
  ASSUME NEW level \in DOMAIN Passed, NEW lateness \in DOMAIN Late
  PROVE  DueMarks(level, lateness) \subseteq QueueMarks \cup ResolutionMarks
<1>1. Passed[level] \subseteq QueueMarks
  BY DEF Passed, QueueMarks
<1>2. Late[lateness] \subseteq ResolutionMarks
  BY DEF Late, ResolutionMarks
<1>3. QED
  BY <1>1, <1>2 DEF DueMarks

LEMMA RequeuedType ==
  ASSUME NEW wf \in Workflow, NEW phase \in Phases, NEW v \in Nat
  PROVE  Requeued(wf, phase, v) \in Workflow
BY DEF Requeued, Workflow

LEMMA MutatedWorkflowType ==
  ASSUME NEW row \in Ticket, NEW p \in Patch
  PROVE  MutatedWorkflow(row, p) \in Workflow
<1>1. row.wf \in Workflow /\ row.version + 1 \in Nat
  BY DEF Ticket
<1>2. CASE p.status = "resolved"
  BY <1>1, <1>2 DEF MutatedWorkflow, Workflow, Phases
<1>3. CASE p.status = "closed"
  BY <1>1, <1>3 DEF MutatedWorkflow, Workflow, Phases, Patch
<1>4. CASE p.status = "reopened"
  BY <1>1, <1>4, RequeuedType DEF MutatedWorkflow, Phases
<1>5. QED
  BY <1>1, <1>2, <1>3, <1>4 DEF MutatedWorkflow

LEMMA WrittenType ==
  ASSUME ticket \in Ticket, NEW row \in Ticket, NEW p \in Patch
  PROVE  /\ Written(row, p) \in Ticket
         /\ ResolvedAtAfter(row, p) \in Nat
<1>1. ResolvedAtAfter(row, p) \in Nat
  BY DEF ResolvedAtAfter, Ticket, Patch, Keep, Fresh
<1>2. PausedAfter(row, p) \in BOOLEAN
  BY DEF PausedAfter, Ticket
<1>3. MutatedWorkflow(row, p) \in Workflow
  BY MutatedWorkflowType
<1>4. row.version + 1 \in Nat
  BY DEF Ticket
<1> DEFINE status == IF p.status = "none" THEN ticket.status ELSE p.status
           assignee == IF p.status = "reopened" THEN NoOne ELSE ticket.assignee
           resolvedBy == CASE p.status = "reopened" -> NoOne
                           [] p.status = "resolved" -> p.actor
                           [] OTHER -> ticket.resolvedBy
           deleted == ticket.deleted \/ p.delete
<1>5. status \in Statuses /\ assignee \in Staff \cup {NoOne} /\ deleted \in BOOLEAN
  BY DEF Ticket, Patch
<1>6. resolvedBy \in Staff \cup {NoOne}
  BY DEF Ticket, Patch
<1>7. Written(row, p) =
        [ticket EXCEPT !.status = status, !.assignee = assignee,
           !.resolvedBy = resolvedBy, !.resolvedAt = ResolvedAtAfter(row, p),
           !.paused = PausedAfter(row, p), !.deleted = deleted,
           !.version = row.version + 1, !.wf = MutatedWorkflow(row, p)]
  BY DEF Written
<1> HIDE DEF status, assignee, resolvedBy, deleted
<1>8. Written(row, p) \in Ticket
  BY <1>1, <1>2, <1>3, <1>4, <1>5, <1>6, <1>7 DEF Ticket
<1>9. QED
  BY <1>1, <1>8

LEMMA CallShape ==
  ASSUME TypeOK, NEW c \in Calls
  PROVE  /\ call[c].pc = "asked" => call[c].patch \in Patch
         /\ call[c].pc = "read" => call[c].patch \in Patch /\ call[c].row \in Ticket
BY DEF TypeOK, CallState, Idle

\* Every patch a caller asks for is a patch.
LEMMA AskedPatch ==
  ASSUME TypeOK, NEW c \in Calls, AskStep(c)
  PROVE  \E p \in Patch : Ask(c, p)
<1> DEFINE Asked == \E p \in Patch : Ask(c, p)
<1>0. ticket.resolvedAt \in Nat /\ ticket.status \in Statuses
  BY DEF TypeOK, Ticket
<1>1. ASSUME NEW public \in BOOLEAN, AgentReply(c, public)
      PROVE  Asked
  BY <1>1, TeamsAssumption
     DEF AgentReply, Statuses, Touch, Patch, Keep, Fresh, Closures
<1>2. ASSUME NEW u \in Staff, AgentResolve(c, u)
      PROVE  Asked
  BY <1>2, TeamsAssumption
     DEF AgentResolve, Statuses, Touch, Patch, Keep, Fresh, Closures
<1>3. ASSUME ReopenTicket(c) PROVE Asked
  BY <1>3, TeamsAssumption
     DEF ReopenTicket, Statuses, Touch, Patch, Keep, Fresh, Closures
<1>4. ASSUME EscalateTicket(c) PROVE Asked
  BY <1>4, TeamsAssumption
     DEF EscalateTicket, Statuses, Touch, Patch, Keep, Fresh, Closures
<1>5. ASSUME NEW s \in StaffStatuses \cup {"none"}, UpdateTicketFields(c, s)
      PROVE  Asked
  BY <1>5, TeamsAssumption
     DEF UpdateTicketFields, Touch, Patch, Keep, Fresh, Closures
<1>6. ASSUME NEW held \in BOOLEAN, RequesterReply(c, held)
      PROVE  Asked
  BY <1>6, TeamsAssumption
     DEF RequesterReply, Statuses, Touch, Patch, Keep, Fresh, Closures
<1>7. ASSUME NEW satisfied \in BOOLEAN, SubmitFeedback(c, satisfied)
      PROVE  Asked
  BY <1>0, <1>7, TeamsAssumption
     DEF SubmitFeedback, Statuses, Touch, Patch, Keep, Fresh, Closures
<1>8. ASSUME NEW s \in StaffStatuses, SetStatus(c, s)
      PROVE  Asked
  BY <1>8, TeamsAssumption
     DEF SetStatus, Touch, Patch, Keep, Fresh, Closures
<1>9. ASSUME DeleteTicket(c) PROVE Asked
  BY <1>9, TeamsAssumption
     DEF DeleteTicket, Touch, Patch, Keep, Fresh, Closures
<1>10. Asked
  <2> HIDE DEF Asked
  <2> QED
    BY <1>1, <1>2, <1>3, <1>4, <1>5, <1>6, <1>7, <1>8, <1>9 DEF AskStep
<1>11. QED
  BY <1>10

\* A transition hands the row values of its types.
LEMMA TransitionType ==
  ASSUME TypeOK, NEW status \in Statuses, NEW group \in Groups,
         NEW assignee \in Staff \cup {NoOne}, NEW wf \in Workflow,
         Transition(status, group, assignee, wf)
  PROVE  TypeOK'
<1>1. ticket \in Ticket /\ ticket.version + 1 \in Nat
  BY DEF TypeOK, Ticket
<1>2. ticket' \in Ticket
  BY <1>1 DEF Transition, Ticket
<1>3. QED
  BY <1>2 DEF TypeOK, Transition

LEMMA TransitionStepType == TypeOK /\ TransitionStep => TypeOK'
<1> SUFFICES ASSUME TypeOK, NEW u \in Staff,
                    \/ ClaimReview(u)
                    \/ \E g \in Departments : Route(u, g)
                    \/ \E t \in Staff : Offer(u, t)
                    \/ Pickup(u) \/ Accept(u) \/ Decline(u) \/ Release(u)
                    \/ ReturnToServiceDesk(u)
             PROVE  TypeOK'
  BY DEF TransitionStep
<1> DEFINE wf == ticket.wf
<1>0. /\ wf \in Workflow /\ ticket.version + 1 \in Nat
      /\ ticket.status \in Statuses /\ ticket.group \in Groups
      /\ ticket.assignee \in Staff \cup {NoOne}
      /\ "open" \in Statuses /\ "in_progress" \in Statuses
      /\ Desk \in Groups /\ Departments \subseteq Groups
  BY DEF TypeOK, Ticket, Statuses, Groups
<1>1. CASE ClaimReview(u)
  <2>1. [wf EXCEPT !.reviewer = u] \in Workflow
    BY <1>0 DEF Workflow
  <2>2. QED
    BY <1>0, <1>1, <2>1, TransitionType DEF ClaimReview
<1>2. ASSUME NEW g \in Departments, Route(u, g)
      PROVE  TypeOK'
  <2>1. [wf EXCEPT !.phase = "department",
                   !.reviewer = IF @ = NoOne THEN u ELSE @,
                   !.reviewed = TRUE, !.visit = ticket.version + 1,
                   !.marks = @ \ QueueMarks] \in Workflow
    BY <1>0 DEF Workflow, Phases
  <2>2. QED
    BY <1>0, <1>2, <2>1, TransitionType DEF Route
<1>3. ASSUME NEW t \in Staff, Offer(u, t)
      PROVE  TypeOK'
  <2>1. [wf EXCEPT !.phase = "awaiting_acceptance"] \in Workflow
    BY <1>0 DEF Workflow, Phases
  <2>2. QED
    BY <1>0, <1>3, <2>1, TransitionType DEF Offer
<1>4. CASE Pickup(u) \/ Accept(u)
  <2>1. [wf EXCEPT !.phase = "in_progress", !.acceptedBy = u] \in Workflow
    BY <1>0 DEF Workflow, Phases
  <2>2. QED
    BY <1>0, <1>4, <2>1, TransitionType DEF Pickup, Accept, TakeOn
<1>5. CASE Decline(u)
  <2>1. [wf EXCEPT !.phase = "department", !.acceptedBy = NoOne] \in Workflow
    BY <1>0 DEF Workflow, Phases
  <2>2. QED
    BY <1>0, <1>5, <2>1, TransitionType DEF Decline
<1>6. CASE Release(u)
  <2>1. [wf EXCEPT !.phase = "department", !.acceptedBy = NoOne,
                   !.visit = ticket.version + 1,
                   !.marks = @ \ QueueMarks] \in Workflow
    BY <1>0 DEF Workflow, Phases
  <2>2. QED
    BY <1>0, <1>6, <2>1, TransitionType DEF Release
<1>7. CASE ReturnToServiceDesk(u)
  <2>1. Append(wf.returns, ticket.group) \in Seq(Groups)
    BY <1>0 DEF Workflow
  <2>2. [wf EXCEPT !.phase = "service_desk",
                   !.returns = Append(@, ticket.group),
                   !.visit = ticket.version + 1, !.reviewer = NoOne,
                   !.reviewed = FALSE, !.acceptedBy = NoOne,
                   !.marks = {}] \in Workflow
    BY <1>0, <2>1 DEF Workflow, Phases
  <2>3. QED
    BY <1>0, <1>7, <2>2, TransitionType DEF ReturnToServiceDesk
<1>8. QED
  BY <1>1, <1>2, <1>3, <1>4, <1>5, <1>6, <1>7

LEMMA CallStepType ==
  ASSUME TypeOK, NEW c \in Calls, AskStep(c) \/ ReadCurrent(c) \/ Commit(c)
  PROVE  TypeOK'
<1>1. CASE AskStep(c)
  <2>1. PICK p \in Patch : Ask(c, p)
    BY <1>1, AskedPatch
  <2>2. [pc |-> "asked", patch |-> p] \in CallState
    BY DEF CallState
  <2>3. QED
    BY <2>1, <2>2 DEF TypeOK, Ask
<1>2. CASE ReadCurrent(c)
  <2>1. call[c].patch \in Patch
    BY <1>2, CallShape DEF ReadCurrent
  <2>2. /\ [pc |-> "read", patch |-> call[c].patch, row |-> ticket] \in CallState
        /\ Idle \in CallState
    BY <2>1 DEF CallState, TypeOK
  <2>3. QED
    BY <1>2, <2>2 DEF TypeOK, ReadCurrent
<1>3. CASE Commit(c)
  <2> DEFINE row == call[c].row
             p == call[c].patch
  <2>1. row \in Ticket /\ p \in Patch
    BY <1>3, CallShape DEF Commit
  <2>2. Written(row, p) \in Ticket /\ ResolvedAtAfter(row, p) \in Nat
    BY <2>1, WrittenType DEF TypeOK
  <2>3. call' \in [Calls -> CallState]
    BY <1>3 DEF TypeOK, Commit, CallState
  <2>4. ticket' \in Ticket /\ acks' \in SUBSET Nat /\ used' \in SUBSET Nat
    BY <1>3, <2>2 DEF TypeOK, Commit
  <2>5. QED
    BY <2>3, <2>4 DEF TypeOK
<1>4. QED
  BY <1>1, <1>2, <1>3

LEMMA SystemStepType == TypeOK /\ (LinkStep \/ MonitorStep) => TypeOK'
<1> SUFFICES ASSUME TypeOK PROVE LinkStep \/ MonitorStep => TypeOK'
  OBVIOUS
<1>0. /\ ticket \in Ticket /\ ticket.wf \in Workflow
      /\ ticket.version \in Nat /\ ticket.version + 1 \in Nat
  BY DEF TypeOK, Ticket
<1>1. ASSUME NEW r \in acks, Confirm(r)
      PROVE  TypeOK'
  <2>1. ticket' \in Ticket
    BY <1>0, <1>1 DEF Confirm, Ticket, Workflow, Statuses, Phases, Closures
  <2>2. QED
    BY <1>1, <2>1 DEF TypeOK, Confirm
<1>2. ASSUME NEW r \in acks, Dispute(r)
      PROVE  TypeOK'
  <2>1. Requeued(ticket.wf, "department", ticket.version + 1) \in Workflow
    BY <1>0, RequeuedType DEF Phases
  <2>2. ticket' \in Ticket
    BY <1>0, <1>2, <2>1 DEF Dispute, Ticket, Statuses
  <2>3. QED
    BY <1>2, <2>2 DEF TypeOK, Dispute
<1>3. ASSUME NEW level \in DOMAIN Passed, NEW lateness \in DOMAIN Late,
             MonitorEscalates(level, lateness)
      PROVE  TypeOK'
  <2>1. DueMarks(level, lateness) \subseteq QueueMarks \cup ResolutionMarks
    BY DueMarksType
  <2>2. ticket' \in Ticket
    BY <1>0, <1>3, <2>1 DEF MonitorEscalates, Ticket, Workflow
  <2>3. QED
    BY <1>3, <2>2 DEF TypeOK, MonitorEscalates
<1>4. CASE MonitorReminds
  <2>1. ticket' \in Ticket
    BY <1>0, <1>4 DEF MonitorReminds, Ticket, Workflow
  <2>2. QED
    BY <1>4, <2>1 DEF TypeOK, MonitorReminds
<1>5. CASE MonitorCloses
  <2>1. [ticket.wf EXCEPT !.phase = "closed", !.confirmed = FALSE,
                          !.closure = "no_response"] \in Workflow
    BY <1>0 DEF Workflow, Phases, Closures
  <2>2. ticket' \in Ticket
    BY <1>0, <1>5, <2>1 DEF MonitorCloses, Ticket, Statuses
  <2>3. QED
    BY <1>5, <2>2 DEF TypeOK, MonitorCloses
<1>6. QED
  BY <1>1, <1>2, <1>3, <1>4, <1>5 DEF LinkStep, MonitorStep

LEMMA InitType == Init => TypeOK
<1> SUFFICES ASSUME Init PROVE TypeOK
  OBVIOUS
<1>1. ticket \in Ticket
  BY DEF Init, Ticket, Workflow, Statuses, Phases, Closures, Groups
<1>2. QED
  BY <1>1 DEF Init, TypeOK, CallState

\* Type correctness: whatever calls overlap, the row stays a well-formed row
\* and every call in flight holds a well-formed patch and row.
THEOREM TypeCorrect == Spec => []TypeOK
<1>1. TypeOK /\ [Next]_vars => TypeOK'
  <2> SUFFICES ASSUME TypeOK, [Next]_vars PROVE TypeOK'
    OBVIOUS
  <2>1. CASE TransitionStep
    BY <2>1, TransitionStepType
  <2>2. ASSUME NEW c \in Calls, AskStep(c) \/ ReadCurrent(c) \/ Commit(c)
        PROVE  TypeOK'
    BY <2>2, CallStepType
  <2>3. CASE LinkStep \/ MonitorStep
    BY <2>3, SystemStepType
  <2>4. CASE UNCHANGED vars
    BY <2>4 DEF vars, TypeOK
  <2>5. QED
    BY <2>1, <2>2, <2>3, <2>4 DEF Next
<1>2. QED
  BY <1>1, InitType, PTL DEF Spec

-----------------------------------------------------------------------------
(* SAFETY *)

\* What WorkflowInv says of the row alone.
RowInv == Reviewed /\ Owned /\ Concluded /\ Held /\ HumanResolution

-----------------------------------------------------------------------------
(* Versions *)

\* Every write of the row draws a new version.
NewVersion == ticket'.version = ticket.version + 1

LEMMA TransitionFields ==
  ASSUME TypeOK, NEW s, NEW g, NEW a, NEW wf, Transition(s, g, a, wf)
  PROVE  /\ ticket'.status = s /\ ticket'.group = g
         /\ ticket'.assignee = a /\ ticket'.wf = wf
         /\ ticket'.paused = ticket.paused
         /\ ticket'.resolvedBy = ticket.resolvedBy
         /\ ticket'.resolvedAt = ticket.resolvedAt
         /\ NewVersion /\ acks' = acks /\ call' = call
<1>1. ticket \in Ticket
  BY DEF TypeOK
<1>2. QED
  BY <1>1 DEF Transition, Ticket, NewVersion

LEMMA TransitionVersion ==
  TypeOK /\ TransitionStep => NewVersion /\ call' = call
<1> SUFFICES ASSUME TypeOK, TransitionStep PROVE NewVersion /\ call' = call
  OBVIOUS
<1>1. \E s, g, a, wf : Transition(s, g, a, wf)
  BY DEF TransitionStep, ClaimReview, Route, Offer, Pickup, Accept, Decline,
         Release, ReturnToServiceDesk, TakeOn
<1>2. QED
  BY <1>1, TransitionFields

LEMMA SystemVersion ==
  TypeOK /\ (LinkStep \/ MonitorStep) => NewVersion /\ call' = call
<1> SUFFICES ASSUME TypeOK PROVE LinkStep \/ MonitorStep => NewVersion /\ call' = call
  OBVIOUS
<1>1. ticket \in Ticket
  BY DEF TypeOK
<1>2. ASSUME NEW r \in acks, Confirm(r) \/ Dispute(r)
      PROVE  NewVersion /\ call' = call
  BY <1>1, <1>2 DEF Confirm, Dispute, NewVersion, Ticket
<1>3. ASSUME NEW level \in DOMAIN Passed, NEW lateness \in DOMAIN Late,
             MonitorEscalates(level, lateness)
      PROVE  NewVersion /\ call' = call
  BY <1>1, <1>3 DEF MonitorEscalates, NewVersion, Ticket
<1>4. CASE MonitorReminds \/ MonitorCloses
  BY <1>1, <1>4 DEF MonitorReminds, MonitorCloses, NewVersion, Ticket
<1>5. QED
  BY <1>2, <1>3, <1>4 DEF LinkStep, MonitorStep

\* A call that is not stepping keeps what it read, and is still right about it.
LEMMA ReadsSurvive ==
  ASSUME TypeOK, ReadIsCurrent, Judged, NEW d \in Calls, call'[d] = call[d],
         NewVersion \/ ticket' = ticket
  PROVE  call'[d].pc = "read" =>
           /\ call'[d].row.version <= ticket'.version
           /\ call'[d].row.version = ticket'.version => call'[d].row = ticket'
           /\ Permitted(call'[d].row, call'[d].patch)
<1> SUFFICES ASSUME call[d].pc = "read"
             PROVE  /\ call[d].row.version <= ticket'.version
                    /\ call[d].row.version = ticket'.version => call[d].row = ticket'
                    /\ Permitted(call[d].row, call[d].patch)
  OBVIOUS
<1>1. /\ call[d].row.version <= ticket.version
      /\ call[d].row.version = ticket.version => call[d].row = ticket
      /\ Permitted(call[d].row, call[d].patch)
  BY DEF ReadIsCurrent, Judged
<1>2. call[d].row.version \in Nat /\ ticket.version \in Nat
  BY CallShape DEF TypeOK, Ticket
<1>3. QED
  BY <1>1, <1>2 DEF NewVersion

\* Primed forms, to split the goal call by call.
LEMMA ReadsByCall ==
  ASSUME \A d \in Calls : call'[d].pc = "read" =>
           /\ call'[d].row.version <= ticket'.version
           /\ call'[d].row.version = ticket'.version => call'[d].row = ticket'
           /\ Permitted(call'[d].row, call'[d].patch)
  PROVE  ReadIsCurrent' /\ Judged'
BY DEF ReadIsCurrent, Judged, Permitted, Accepted

\* On a commit that writes, the row that was read is the row that is there.
LEMMA CommitFromCurrent ==
  ASSUME TypeOK, ReadIsCurrent, Judged, NEW c \in Calls, Commit(c),
         Unchanged(call[c].row, call[c].patch)
  PROVE  /\ call[c].patch \in Patch
         /\ Permitted(ticket, call[c].patch)
         /\ ticket' = Written(ticket, call[c].patch)
         /\ acks' = IF call[c].patch.status = "resolved"
                    THEN acks \cup {ResolvedAtAfter(ticket, call[c].patch)}
                    ELSE acks
<1>1. call[c].pc = "read" /\ call[c].patch \in Patch
  BY CallShape DEF Commit
<1>2. call[c].row = ticket
  BY <1>1 DEF Unchanged, ReadIsCurrent
<1>3. QED
  BY <1>1, <1>2 DEF Judged, Commit

LEMMA WrittenFields ==
  ASSUME ticket \in Ticket, NEW p \in Patch
  PROVE  /\ Written(ticket, p).version = ticket.version + 1
         /\ Written(ticket, p).status =
              IF p.status = "none" THEN ticket.status ELSE p.status
         /\ Written(ticket, p).group = ticket.group
         /\ Written(ticket, p).assignee =
              IF p.status = "reopened" THEN NoOne ELSE ticket.assignee
         /\ p.status \notin {"reopened", "resolved"} =>
              Written(ticket, p).resolvedBy = ticket.resolvedBy
         /\ p.status = "resolved" => Written(ticket, p).resolvedBy = p.actor
         /\ Written(ticket, p).resolvedAt = ResolvedAtAfter(ticket, p)
         /\ Written(ticket, p).paused = PausedAfter(ticket, p)
         /\ Written(ticket, p).wf = MutatedWorkflow(ticket, p)
<1>1. p.status # "reopened" \/ p.status # "resolved"
  OBVIOUS
<1>2. QED
  BY <1>1 DEF Written, Ticket

LEMMA CallVersion ==
  ASSUME TypeOK, ReadIsCurrent, Judged, NEW c \in Calls,
         AskStep(c) \/ ReadCurrent(c) \/ Commit(c)
  PROVE  ReadIsCurrent' /\ Judged'
<1>0. \A d \in Calls \ {c} : call'[d] = call[d]
  <2>1. CASE AskStep(c)
    <3>1. PICK p \in Patch : Ask(c, p)
      BY <2>1, AskedPatch
    <3>2. QED
      BY <3>1 DEF Ask, TypeOK
  <2>2. CASE ReadCurrent(c) \/ Commit(c)
    BY <2>2 DEF ReadCurrent, Commit, TypeOK
  <2>3. QED
    BY <2>1, <2>2
<1>1. NewVersion \/ ticket' = ticket
  <2>1. CASE AskStep(c)
    <3>1. PICK p \in Patch : Ask(c, p)
      BY <2>1, AskedPatch
    <3>2. QED
      BY <3>1 DEF Ask
  <2>2. CASE ReadCurrent(c)
    BY <2>2 DEF ReadCurrent
  <2>3. CASE Commit(c) /\ Unchanged(call[c].row, call[c].patch)
    <3>1. /\ call[c].patch \in Patch
          /\ ticket' = Written(ticket, call[c].patch)
      BY <2>3, CommitFromCurrent
    <3>2. QED
      BY <3>1, WrittenFields DEF NewVersion, TypeOK
  <2>4. CASE Commit(c) /\ ~Unchanged(call[c].row, call[c].patch)
    BY <2>4 DEF Commit
  <2>5. QED
    BY <2>1, <2>2, <2>3, <2>4
<1>2. call'[c].pc = "read" =>
        /\ call'[c].row.version <= ticket'.version
        /\ call'[c].row.version = ticket'.version => call'[c].row = ticket'
        /\ Permitted(call'[c].row, call'[c].patch)
  <2>1. CASE AskStep(c)
    <3>1. PICK p \in Patch : Ask(c, p)
      BY <2>1, AskedPatch
    <3>2. QED
      BY <3>1 DEF Ask, TypeOK
  <2>2. CASE ReadCurrent(c)
    <3>1. CASE ~ticket.deleted /\ Permitted(ticket, call[c].patch)
      <4>1. call'[c] = [pc |-> "read", patch |-> call[c].patch, row |-> ticket]
        BY <2>2, <3>1 DEF ReadCurrent, TypeOK
      <4>2. ticket' = ticket /\ ticket.version \in Nat
        BY <2>2 DEF ReadCurrent, TypeOK, Ticket
      <4>3. QED
        BY <3>1, <4>1, <4>2
    <3>2. CASE ~(~ticket.deleted /\ Permitted(ticket, call[c].patch))
      <4>1. call'[c] = Idle
        BY <2>2, <3>2 DEF ReadCurrent, TypeOK
      <4>2. QED
        BY <4>1 DEF Idle
    <3>3. QED
      BY <3>1, <3>2
  <2>3. CASE Commit(c)
    BY <2>3 DEF Commit, TypeOK, Idle
  <2>4. QED
    BY <2>1, <2>2, <2>3
<1>3. \A d \in Calls : call'[d].pc = "read" =>
        /\ call'[d].row.version <= ticket'.version
        /\ call'[d].row.version = ticket'.version => call'[d].row = ticket'
        /\ Permitted(call'[d].row, call'[d].patch)
  <2> TAKE d \in Calls
  <2>1. CASE d = c
    BY <1>2, <2>1
  <2>2. CASE d # c
    <3>1. call'[d] = call[d]
      BY <1>0, <2>2
    <3>2. QED
      BY <1>1, <3>1, ReadsSurvive
  <2>3. QED
    BY <2>1, <2>2
<1>4. QED
  BY <1>3, ReadsByCall

\* A step of anybody else leaves every call as right as it was.
LEMMA OtherVersion ==
  ASSUME TypeOK, ReadIsCurrent, Judged, NewVersion \/ ticket' = ticket,
         call' = call
  PROVE  ReadIsCurrent' /\ Judged'
<1>1. \A d \in Calls : call'[d].pc = "read" =>
        /\ call'[d].row.version <= ticket'.version
        /\ call'[d].row.version = ticket'.version => call'[d].row = ticket'
        /\ Permitted(call'[d].row, call'[d].patch)
  <2> TAKE d \in Calls
  <2>1. call'[d] = call[d]
    OBVIOUS
  <2>2. QED
    BY <2>1, ReadsSurvive
<1>2. QED
  BY <1>1, ReadsByCall

-----------------------------------------------------------------------------
(* The row *)

\* RowInv of a row that is not concluded, spelled out field by field.
LEMMA UnconcludedRow ==
  ASSUME TypeOK',
         ticket'.status \notin {"resolved", "closed", "auto_resolved"},
         Reviewed', Owned', Held'
  PROVE  RowInv'
BY DEF RowInv, Concluded, HumanResolution

LEMMA TransitionRow == TypeOK /\ RowInv /\ TransitionStep => RowInv'
<1> SUFFICES ASSUME TypeOK, RowInv, TransitionStep PROVE RowInv'
  OBVIOUS
<1>t. TypeOK'
  BY TransitionStepType
<1>w. ticket.wf \in Workflow /\ ticket.assignee \in Staff \cup {NoOne}
      /\ ticket.group \in Groups /\ NoOne \notin Staff
  BY TeamsAssumption DEF TypeOK, Ticket
<1>a. AwaitsWork
  BY DEF TransitionStep, ClaimReview, Route, Offer, Pickup, Accept, Decline,
         Release, ReturnToServiceDesk
<1>p. ~ticket.paused
      /\ ticket.status \notin {"resolved", "auto_resolved", "closed", "pending"}
  BY <1>a DEF AwaitsWork, Finished
<1> DEFINE wf == ticket.wf
<1>1. ASSUME NEW u \in Staff, ClaimReview(u)
      PROVE  RowInv'
  <2> DEFINE new == [wf EXCEPT !.reviewer = u]
  <2>1. Transition(ticket.status, ticket.group, ticket.assignee, new)
        /\ wf.phase = "service_desk"
    BY <1>1 DEF ClaimReview
  <2>2. new.phase = "service_desk" /\ new.reviewed = wf.reviewed
        /\ new.acceptedBy = wf.acceptedBy
    BY <1>w, <2>1 DEF Workflow
  <2> HIDE DEF new
  <2>3. Reviewed' /\ Owned' /\ Held' /\ ticket'.status = ticket.status
    BY <1>p, <2>1, <2>2, TransitionFields
       DEF RowInv, Reviewed, Owned, Held, Accepted
  <2>4. QED
    BY <1>t, <1>p, <2>3, UnconcludedRow
<1>2. ASSUME NEW u \in Staff, NEW g \in Departments, Route(u, g)
      PROVE  RowInv'
  <2> DEFINE new == [wf EXCEPT !.phase = "department",
                       !.reviewer = IF @ = NoOne THEN u ELSE @,
                       !.reviewed = TRUE, !.visit = ticket.version + 1,
                       !.marks = @ \ QueueMarks]
  <2>1. Transition("open", g, NoOne, new) /\ wf.phase = "service_desk"
    BY <1>2 DEF Route
  <2>2. new.phase = "department" /\ new.reviewed = TRUE /\ new.reviewer \in Staff
        /\ new.acceptedBy = wf.acceptedBy
    BY <1>w DEF Workflow
  <2> HIDE DEF new
  <2>3. Reviewed' /\ Owned' /\ Held' /\ ticket'.status = "open"
    BY <1>p, <2>1, <2>2, TransitionFields
       DEF RowInv, Reviewed, Owned, Held, Accepted
  <2>4. QED
    BY <1>t, <2>3, UnconcludedRow
<1>3. ASSUME NEW u \in Staff, NEW t \in Staff, Offer(u, t)
      PROVE  RowInv'
  <2> DEFINE new == [wf EXCEPT !.phase = "awaiting_acceptance"]
  <2>1. Transition(ticket.status, ticket.group, t, new) /\ InGroup(t)
        /\ wf.phase \in {"department", "awaiting_acceptance"}
    BY <1>3 DEF Offer
  <2>2. new.phase = "awaiting_acceptance" /\ new.reviewed = wf.reviewed
        /\ new.reviewer = wf.reviewer /\ new.acceptedBy = wf.acceptedBy
    BY <1>w DEF Workflow
  <2> HIDE DEF new
  <2>3. Reviewed' /\ Owned' /\ Held' /\ ticket'.status = ticket.status
    BY <1>p, <2>1, <2>2, TransitionFields
       DEF RowInv, Reviewed, Owned, Held, Accepted, InGroup
  <2>4. QED
    BY <1>t, <1>p, <2>3, UnconcludedRow
<1>4. ASSUME NEW u \in Staff, Pickup(u) \/ Accept(u)
      PROVE  RowInv'
  <2> DEFINE new == [wf EXCEPT !.phase = "in_progress", !.acceptedBy = u]
  <2>1. Transition("in_progress", ticket.group, u, new) /\ InGroup(u)
        /\ wf.phase \in {"department", "awaiting_acceptance"}
    BY <1>4 DEF Pickup, Accept, TakeOn
  <2>2. new.phase = "in_progress" /\ new.reviewed = wf.reviewed
        /\ new.reviewer = wf.reviewer /\ new.acceptedBy = u
    BY <1>w DEF Workflow
  <2> HIDE DEF new
  <2>3. Reviewed' /\ Owned' /\ Held' /\ ticket'.status = "in_progress"
    BY <1>w, <1>p, <2>1, <2>2, TransitionFields
       DEF RowInv, Reviewed, Owned, Held, Accepted, InGroup
  <2>4. QED
    BY <1>t, <2>3, UnconcludedRow
<1>5. ASSUME NEW u \in Staff, Decline(u) \/ Release(u)
      PROVE  RowInv'
  <2>1. PICK new : /\ Transition("open", ticket.group, NoOne, new)
                   /\ new.phase = "department" /\ new.reviewed = wf.reviewed
                   /\ new.reviewer = wf.reviewer /\ new.acceptedBy = NoOne
                   /\ wf.phase \in {"awaiting_acceptance", "in_progress"}
    <3> DEFINE declined == [wf EXCEPT !.phase = "department",
                                      !.acceptedBy = NoOne]
               released == [wf EXCEPT !.phase = "department",
                              !.acceptedBy = NoOne, !.visit = ticket.version + 1,
                              !.marks = @ \ QueueMarks]
    <3>0. /\ declined.phase = "department" /\ declined.reviewed = wf.reviewed
          /\ declined.reviewer = wf.reviewer /\ declined.acceptedBy = NoOne
          /\ released.phase = "department" /\ released.reviewed = wf.reviewed
          /\ released.reviewer = wf.reviewer /\ released.acceptedBy = NoOne
      BY <1>w DEF Workflow
    <3>1. CASE Decline(u)
      <4>1. Transition("open", ticket.group, NoOne, declined)
            /\ wf.phase = "awaiting_acceptance"
        BY <3>1 DEF Decline
      <4> HIDE DEF declined, released
      <4>2. QED
        BY <3>0, <4>1
    <3>2. CASE Release(u)
      <4>1. Transition("open", ticket.group, NoOne, released)
            /\ wf.phase = "in_progress"
        BY <3>2 DEF Release
      <4> HIDE DEF declined, released
      <4>2. QED
        BY <3>0, <4>1
    <3>3. QED
      BY <1>5, <3>1, <3>2
  <2>2. Reviewed' /\ Owned' /\ Held' /\ ticket'.status = "open"
    BY <1>p, <2>1, TransitionFields DEF RowInv, Reviewed, Owned, Held, Accepted
  <2>3. QED
    BY <1>t, <2>2, UnconcludedRow
<1>6. ASSUME NEW u \in Staff, ReturnToServiceDesk(u)
      PROVE  RowInv'
  <2> DEFINE new == [wf EXCEPT !.phase = "service_desk",
                       !.returns = Append(@, ticket.group),
                       !.visit = ticket.version + 1, !.reviewer = NoOne,
                       !.reviewed = FALSE, !.acceptedBy = NoOne, !.marks = {}]
  <2>1. Transition("open", Desk, NoOne, new)
    BY <1>6 DEF ReturnToServiceDesk
  <2>2. new.phase = "service_desk" /\ new.reviewed = FALSE
        /\ new.acceptedBy = NoOne
    BY <1>w DEF Workflow
  <2> HIDE DEF new
  <2>3. Reviewed' /\ Owned' /\ Held' /\ ticket'.status = "open"
    BY <1>p, <2>1, <2>2, TransitionFields DEF Reviewed, Owned, Held, Accepted
  <2>4. QED
    BY <1>t, <2>3, UnconcludedRow
<1>7. QED
  BY <1>1, <1>2, <1>3, <1>4, <1>5, <1>6 DEF TransitionStep

\* What a reopened ticket looks like, whoever reopened it.
LEMMA ReopenedRow ==
  ASSUME TypeOK', ticket.wf \in Workflow, ticket.wf.reviewed,
         ticket.wf.reviewer \in Staff, ticket.group \in Departments,
         NEW v,
         ticket'.wf = Requeued(ticket.wf, "department", v),
         ticket'.status = "reopened", ticket'.group = ticket.group,
         ticket'.assignee = NoOne, ticket'.paused = FALSE
  PROVE  RowInv'
<1>1. /\ ticket'.wf.phase = "department" /\ ticket'.wf.acceptedBy = NoOne
      /\ ticket'.wf.reviewed /\ ticket'.wf.reviewer \in Staff
  BY DEF Requeued, Workflow
<1>2. Reviewed' /\ Owned' /\ Held'
  BY <1>1 DEF Reviewed, Owned, Held, Accepted
<1>3. QED
  BY <1>2, UnconcludedRow

LEMMA SystemRow == TypeOK /\ RowInv /\ (LinkStep \/ MonitorStep) => RowInv'
<1> SUFFICES ASSUME TypeOK, RowInv PROVE LinkStep \/ MonitorStep => RowInv'
  OBVIOUS
<1>w. /\ ticket \in Ticket /\ ticket.wf \in Workflow
  BY DEF TypeOK, Ticket
<1>r. ASSUME ticket.status = "resolved"
      PROVE  /\ ticket.wf.phase = "resolved" /\ Accepted(ticket)
             /\ ticket.wf.reviewed /\ ticket.wf.reviewer \in Staff
             /\ ticket.group \in Departments /\ ~ticket.paused
  BY <1>r DEF RowInv, Reviewed, Owned, Held, Concluded
<1>1. ASSUME NEW r \in acks, Dispute(r)
      PROVE  RowInv'
  <2>1. TypeOK' /\ ticket.status = "resolved"
    BY <1>1, SystemStepType DEF LinkStep, Dispute, LinkValid
  <2>2. /\ ticket'.wf = Requeued(ticket.wf, "department", ticket.version + 1)
        /\ ticket'.status = "reopened" /\ ticket'.group = ticket.group
        /\ ticket'.assignee = NoOne /\ ticket'.paused = FALSE
    BY <1>w, <1>r, <2>1, <1>1 DEF Dispute, Ticket
  <2>3. QED
    BY <1>w, <1>r, <2>1, <2>2, ReopenedRow
<1>2. ASSUME NEW closure \in Closures,
             ticket.status = "resolved",
             ticket' = [ticket EXCEPT !.status = "closed", !.version = @ + 1,
                          !.wf.phase = "closed",
                          !.wf.confirmed = (closure = "requester_confirmed"),
                          !.wf.closure = closure]
      PROVE  RowInv'
  <2>1. /\ ticket'.status = "closed" /\ ticket'.group = ticket.group
        /\ ticket'.assignee = ticket.assignee /\ ticket'.paused = ticket.paused
        /\ ticket'.wf.phase = "closed" /\ ticket'.wf.closure = closure
        /\ ticket'.wf.confirmed = (closure = "requester_confirmed")
        /\ ticket'.wf.reviewed = ticket.wf.reviewed
        /\ ticket'.wf.reviewer = ticket.wf.reviewer
        /\ ticket'.wf.acceptedBy = ticket.wf.acceptedBy
    BY <1>w, <1>2 DEF Ticket, Workflow
  <2>2. Reviewed' /\ Owned' /\ Held'
    BY <1>r, <1>2, <2>1 DEF RowInv, Reviewed, Owned, Held, Accepted, InGroup
  <2>3. Concluded' /\ HumanResolution'
    BY <1>2, <2>1 DEF Concluded, HumanResolution
  <2>4. QED
    BY <2>2, <2>3 DEF RowInv
<1>3. ASSUME NEW r \in acks, Confirm(r)
      PROVE  RowInv'
  <2>1. ticket.status = "resolved" /\ "requester_confirmed" \in Closures
    BY <1>3 DEF Confirm, LinkValid, Closures
  <2>2. ticket' = [ticket EXCEPT !.status = "closed", !.version = @ + 1,
                     !.wf.phase = "closed",
                     !.wf.confirmed =
                       ("requester_confirmed" = "requester_confirmed"),
                     !.wf.closure = "requester_confirmed"]
    BY <1>3 DEF Confirm
  <2>3. QED
    BY <1>2, <2>1, <2>2
<1>4. CASE MonitorCloses
  <2>1. ticket.status = "resolved" /\ "no_response" \in Closures
    BY <1>4 DEF MonitorCloses, AwaitsConfirmation, Closures
  <2>2. ticket' = [ticket EXCEPT !.status = "closed", !.version = @ + 1,
                     !.wf.phase = "closed",
                     !.wf.confirmed = ("no_response" = "requester_confirmed"),
                     !.wf.closure = "no_response"]
    BY <1>4 DEF MonitorCloses
  <2>3. QED
    BY <1>2, <2>1, <2>2
<1>5. ASSUME ticket'.wf.phase = ticket.wf.phase,
             ticket'.wf.reviewed = ticket.wf.reviewed,
             ticket'.wf.reviewer = ticket.wf.reviewer,
             ticket'.wf.acceptedBy = ticket.wf.acceptedBy,
             ticket'.wf.closure = ticket.wf.closure,
             ticket'.wf.confirmed = ticket.wf.confirmed,
             ticket'.status = ticket.status, ticket'.group = ticket.group,
             ticket'.assignee = ticket.assignee,
             ticket'.paused = ticket.paused,
             ticket'.resolvedBy = ticket.resolvedBy,
             ticket'.resolvedAt = ticket.resolvedAt, acks' = acks
      PROVE  RowInv'
  BY <1>5 DEF RowInv, Reviewed, Owned, Held, Concluded, HumanResolution,
              Accepted, InGroup
<1>6. ASSUME NEW level \in DOMAIN Passed, NEW lateness \in DOMAIN Late,
             MonitorEscalates(level, lateness)
      PROVE  RowInv'
  <2>1. QED
    BY <1>w, <1>5, <1>6 DEF MonitorEscalates, Ticket, Workflow
<1>7. CASE MonitorReminds
  BY <1>w, <1>5, <1>7 DEF MonitorReminds, Ticket, Workflow
<1>8. QED
  BY <1>1, <1>3, <1>4, <1>6, <1>7 DEF LinkStep, MonitorStep

LEMMA CallRow ==
  ASSUME TypeOK, RowInv, ReadIsCurrent, Judged, NEW c \in Calls,
         AskStep(c) \/ ReadCurrent(c) \/ Commit(c)
  PROVE  RowInv'
<1>t. TypeOK'
  BY CallStepType
<1>1. CASE ticket' = ticket /\ acks' = acks
  BY <1>1 DEF RowInv, Reviewed, Owned, Held, Concluded, HumanResolution,
              Accepted, InGroup
<1>2. CASE Commit(c) /\ Unchanged(call[c].row, call[c].patch)
  <2> DEFINE p == call[c].patch
  <2>1. /\ p \in Patch /\ Permitted(ticket, p)
        /\ ticket' = Written(ticket, p)
        /\ acks' = IF p.status = "resolved"
                   THEN acks \cup {ResolvedAtAfter(ticket, p)} ELSE acks
    BY <1>2, CommitFromCurrent
  <2> HIDE DEF p
  <2>2. /\ ticket \in Ticket /\ ticket.wf \in Workflow
        /\ ticket.paused \in BOOLEAN
    BY DEF TypeOK, Ticket
  <2>3. /\ ticket'.status = IF p.status = "none" THEN ticket.status ELSE p.status
        /\ ticket'.group = ticket.group
        /\ ticket'.assignee = IF p.status = "reopened" THEN NoOne
                                                      ELSE ticket.assignee
        /\ p.status \notin {"reopened", "resolved"} =>
             ticket'.resolvedBy = ticket.resolvedBy
        /\ p.status = "resolved" => ticket'.resolvedBy = p.actor
        /\ ticket'.resolvedAt = ResolvedAtAfter(ticket, p)
        /\ ticket'.paused = PausedAfter(ticket, p)
        /\ ticket'.wf = MutatedWorkflow(ticket, p)
    BY <2>1, <2>2, WrittenFields
  <2>h. Held'
    BY <2>2, <2>3 DEF RowInv, Held, PausedAfter, Changes
  <2>4. CASE p.status = "resolved"
    <3>1. /\ ticket.status \notin {"resolved", "closed", "auto_resolved"}
          /\ Accepted(ticket) /\ p.actor \in {ticket.assignee} \cup Managers
      BY <2>1, <2>4 DEF Permitted, RowInv, HumanResolution
    <3>2. ticket.wf.phase \in {"in_progress", "resolved", "closed"}
      BY <3>1 DEF RowInv, Owned
    <3>3. /\ ticket'.wf.phase = "resolved"
          /\ ticket'.wf.closure = "none" /\ ticket'.wf.confirmed = FALSE
          /\ ticket'.wf.reviewed = ticket.wf.reviewed
          /\ ticket'.wf.reviewer = ticket.wf.reviewer
          /\ ticket'.wf.acceptedBy = ticket.wf.acceptedBy
      BY <2>2, <2>3, <2>4 DEF MutatedWorkflow, Workflow
    <3>4. Reviewed' /\ Owned'
      BY <2>3, <2>4, <3>1, <3>2, <3>3
         DEF RowInv, Reviewed, Owned, Accepted, InGroup
    <3>5. Concluded' /\ HumanResolution'
      BY <2>1, <2>3, <2>4, <3>1, <3>3 DEF Concluded, HumanResolution
    <3>6. QED
      BY <2>h, <3>4, <3>5 DEF RowInv
  <2>5. CASE p.status = "closed"
    <3>1. ticket.status = "resolved" /\ p.closure \in Closures
      BY <2>1, <2>5 DEF Permitted
    <3>2. ticket.wf.phase = "resolved" /\ ~ticket.wf.confirmed
      BY <3>1 DEF RowInv, Concluded
    <3>3. /\ ticket'.wf.phase = "closed" /\ ticket'.wf.closure = p.closure
          /\ ticket'.wf.confirmed <=> p.closure = "requester_confirmed"
          /\ ticket'.wf.reviewed = ticket.wf.reviewed
          /\ ticket'.wf.reviewer = ticket.wf.reviewer
          /\ ticket'.wf.acceptedBy = ticket.wf.acceptedBy
      BY <2>2, <2>3, <2>5, <3>2 DEF MutatedWorkflow, Workflow
    <3>4. Reviewed' /\ Owned'
      BY <2>3, <2>5, <3>2, <3>3
         DEF RowInv, Reviewed, Owned, Accepted, InGroup
    <3>5. Concluded' /\ HumanResolution'
      BY <2>3, <2>5, <3>1, <3>3 DEF Concluded, HumanResolution
    <3>6. QED
      BY <2>h, <3>4, <3>5 DEF RowInv
  <2>6. CASE p.status = "reopened"
    <3>1. ticket.status \in {"resolved", "closed"}
      BY <2>1, <2>6 DEF Permitted, Settled, RowInv, HumanResolution
    <3>2. ticket.wf.phase \in {"resolved", "closed"} /\ ~ticket.paused
      BY <3>1 DEF RowInv, Concluded, Held
    <3>3. /\ ticket.group \in Departments /\ ticket.wf.reviewed
          /\ ticket.wf.reviewer \in Staff
      BY <3>2 DEF RowInv, Reviewed
    <3>4. ticket'.wf = Requeued(ticket.wf, "department", ticket.version + 1)
      BY <2>3, <2>6, <3>3 DEF MutatedWorkflow
    <3>5. ticket'.paused = FALSE
      BY <2>2, <2>3, <2>6, <3>1, <3>2 DEF PausedAfter, Changes
    <3>6. QED
      BY <1>t, <2>2, <2>3, <2>6, <3>3, <3>4, <3>5, ReopenedRow
  <2>7. CASE p.status \notin {"resolved", "closed", "reopened"}
    <3>1. ticket'.wf = ticket.wf
      BY <2>3, <2>7 DEF MutatedWorkflow
    <3>2. Reviewed' /\ Owned'
      BY <2>3, <2>7, <3>1 DEF RowInv, Reviewed, Owned, Accepted, InGroup
    <3>3. CASE p.status = "none"
      <4>1. ticket'.status = ticket.status /\ p.resolvedAt = Keep
        BY <2>1, <2>3, <3>3 DEF Patch
      <4>2. ticket'.resolvedAt = ticket.resolvedAt
        BY <2>3, <3>3, <4>1 DEF ResolvedAtAfter, Changes, Keep, Fresh
      <4>3. Concluded' /\ HumanResolution'
        BY <2>1, <2>3, <2>7, <3>1, <4>1, <4>2
           DEF RowInv, Concluded, HumanResolution
      <4>4. QED
        BY <2>h, <3>2, <4>3 DEF RowInv
    <3>4. CASE p.status # "none"
      <4>1. p.status # "auto_resolved"
        BY <2>1 DEF Permitted
      <4>2. ticket'.status \notin {"resolved", "closed", "auto_resolved"}
        BY <2>3, <2>7, <3>4, <4>1
      <4>3. QED
        BY <1>t, <2>h, <3>2, <4>2, UnconcludedRow
    <3>5. QED
      BY <3>3, <3>4
  <2>8. QED
    BY <2>4, <2>5, <2>6, <2>7
<1>3. ASSUME AskStep(c)
      PROVE  ticket' = ticket /\ acks' = acks
  <2>1. PICK p \in Patch : Ask(c, p)
    BY <1>3, AskedPatch
  <2>2. QED
    BY <2>1 DEF Ask
<1>4. QED
  BY <1>1, <1>2, <1>3 DEF ReadCurrent, Commit

-----------------------------------------------------------------------------
(* The theorems *)

LEMMA InitInv == Init => WorkflowInv
<1> SUFFICES ASSUME Init PROVE WorkflowInv
  OBVIOUS
<1>1. TypeOK
  BY InitType
<1>2. ReadIsCurrent /\ Judged
  BY DEF Init, ReadIsCurrent, Judged, Idle
<1>3. Reviewed /\ Owned /\ Concluded /\ Held /\ HumanResolution
  BY DEF Init, Reviewed, Owned, Concluded, Held, HumanResolution, Accepted
<1>4. QED
  BY <1>1, <1>2, <1>3 DEF WorkflowInv

LEMMA NextInv == WorkflowInv /\ [Next]_vars => WorkflowInv'
<1> SUFFICES ASSUME WorkflowInv, [Next]_vars PROVE WorkflowInv'
  OBVIOUS
<1>0. TypeOK /\ ReadIsCurrent /\ Judged /\ RowInv
  BY DEF WorkflowInv, RowInv
<1>1. ASSUME TypeOK', ReadIsCurrent', Judged', RowInv'
      PROVE  WorkflowInv'
  BY <1>1 DEF WorkflowInv, RowInv
<1>2. CASE TransitionStep
  <2>1. ReadIsCurrent' /\ Judged'
    BY <1>0, <1>2, TransitionVersion, OtherVersion
  <2>2. QED
    BY <1>0, <1>1, <1>2, <2>1, TransitionStepType, TransitionRow
<1>3. ASSUME NEW c \in Calls, AskStep(c) \/ ReadCurrent(c) \/ Commit(c)
      PROVE  WorkflowInv'
  <2>1. TypeOK'
    BY <1>0, <1>3, CallStepType
  <2>2. ReadIsCurrent' /\ Judged'
    BY <1>0, <1>3, CallVersion
  <2>3. RowInv'
    BY <1>0, <1>3, CallRow
  <2>4. QED
    BY <1>1, <2>1, <2>2, <2>3
<1>4. CASE LinkStep \/ MonitorStep
  <2>1. ReadIsCurrent' /\ Judged'
    BY <1>0, <1>4, SystemVersion, OtherVersion
  <2>2. QED
    BY <1>0, <1>1, <1>4, <2>1, SystemStepType, SystemRow
<1>5. CASE UNCHANGED vars
  <2>1. ReadIsCurrent' /\ Judged'
    BY <1>0, <1>5, OtherVersion DEF vars
  <2>2. TypeOK' /\ RowInv'
    BY <1>0, <1>5 DEF vars, TypeOK, RowInv, Reviewed, Owned, Concluded, Held,
                      HumanResolution, Accepted, InGroup
  <2>3. QED
    BY <1>1, <2>1, <2>2
<1>6. QED
  BY <1>2, <1>3, <1>4, <1>5 DEF Next

\* Everything the ticket's safety rests on holds in every reachable state:
\* overlapping calls to mutateTicket, the monitor and the confirmation link
\* cannot take the row out of it.
THEOREM Safety == Spec => []WorkflowInv
BY InitInv, NextInv, PTL DEF Spec

\* Human review is never skipped: what sits outside the service desk was
\* reviewed and sits in a department.
THEOREM NeverUnreviewed == Spec => []Reviewed
<1>1. WorkflowInv => Reviewed
  BY DEF WorkflowInv
<1>2. QED
  BY <1>1, Safety, PTL

\* Acceptance is ownership: work in progress always has one accepted owner,
\* its assignee, from the bucket it is in.
THEOREM AlwaysOwned == Spec => []Owned
<1>1. WorkflowInv => Owned
  BY DEF WorkflowInv
<1>2. QED
  BY <1>1, Safety, PTL

\* Every resolved ticket was resolved by somebody entitled to and can be
\* confirmed; every closed one says truthfully why it was closed.
THEOREM TruthfullyConcluded == Spec => []Concluded
<1>1. WorkflowInv => Concluded
  BY DEF WorkflowInv
<1>2. QED
  BY <1>1, Safety, PTL

\* The SLA clock stands still exactly while the ticket is pending, although
\* mutateTicket decides on the pause outside its transaction.
THEOREM ClockHeld == Spec => []Held
<1>1. WorkflowInv => Held
  BY DEF WorkflowInv
<1>2. QED
  BY <1>1, Safety, PTL

\* A call that still finds the version it read still finds the row it read:
\* comparing workflowVersion is enough to write a whole workflow object back.
THEOREM OptimisticRead == Spec => []ReadIsCurrent
<1>1. WorkflowInv => ReadIsCurrent
  BY DEF WorkflowInv
<1>2. QED
  BY <1>1, Safety, PTL

-----------------------------------------------------------------------------
(* CUSTODY *)

CustodyStep == [Custody!Next]_(Custody!custody)

-----------------------------------------------------------------------------
(* The shapes of a step *)

\* A write that keeps the stage of the phase, the bucket and the owner.
LEMMA StutterStep ==
  ASSUME StageOf(ticket'.wf.phase) = StageOf(ticket.wf.phase),
         ticket'.group = ticket.group,
         ticket'.wf.acceptedBy = ticket.wf.acceptedBy
  PROVE  CustodyStep
BY DEF CustodyStep, Custody!custody

\* Work, or finished work, that goes back into its department's queue.
LEMMA PutBackStep ==
  ASSUME ticket.wf.phase \in {"in_progress", "resolved", "closed"},
         ticket'.wf.phase = "department", ticket'.group = ticket.group,
         ticket'.wf.acceptedBy = NoOne
  PROVE  CustodyStep
<1>1. StageOf(ticket'.wf.phase) = "queue"
  BY DEF StageOf
<1>2. CASE ticket.wf.phase = "in_progress"
  <2>1. StageOf(ticket.wf.phase) = "work"
    BY <1>2 DEF StageOf
  <2>2. QED
    BY <1>1, <2>1 DEF CustodyStep, Custody!Next, Custody!PutBack
<1>3. CASE ticket.wf.phase # "in_progress"
  <2>1. StageOf(ticket.wf.phase) = "done"
    BY <1>3 DEF StageOf
  <2>2. QED
    BY <1>1, <2>1 DEF CustodyStep, Custody!Next, Custody!ComeBack
<1>4. QED
  BY <1>2, <1>3

\* Accepted work that is resolved; a resolution written anew stutters.
LEMMA FinishStep ==
  ASSUME ticket.wf.phase \in {"in_progress", "resolved", "closed"},
         ticket'.wf.phase \in {"resolved", "closed"},
         ticket'.group = ticket.group,
         ticket'.wf.acceptedBy = ticket.wf.acceptedBy
  PROVE  CustodyStep
<1>1. StageOf(ticket'.wf.phase) = "done"
  BY DEF StageOf
<1>2. CASE ticket.wf.phase = "in_progress"
  <2>1. StageOf(ticket.wf.phase) = "work"
    BY <1>2 DEF StageOf
  <2>2. QED
    BY <1>1, <2>1 DEF CustodyStep, Custody!Next, Custody!Finish
<1>3. CASE ticket.wf.phase # "in_progress"
  <2>1. StageOf(ticket.wf.phase) = "done"
    BY <1>3 DEF StageOf
  <2>2. QED
    BY <1>1, <2>1, StutterStep
<1>4. QED
  BY <1>2, <1>3

-----------------------------------------------------------------------------
(* The steps of TicketWorkflow *)

LEMMA TransitionCustody == TypeOK /\ RowInv /\ TransitionStep => CustodyStep
<1> SUFFICES ASSUME TypeOK, RowInv, TransitionStep PROVE CustodyStep
  OBVIOUS
<1>w. /\ ticket.wf \in Workflow /\ ticket.group \in Groups
  BY DEF TypeOK, Ticket
<1>o. Accepted(ticket) <=> ticket.wf.phase \in {"in_progress", "resolved", "closed"}
  BY DEF RowInv, Owned
<1> DEFINE wf == ticket.wf
<1>1. ASSUME NEW u \in Staff, ClaimReview(u)
      PROVE  CustodyStep
  <2> DEFINE new == [wf EXCEPT !.reviewer = u]
  <2>1. Transition(ticket.status, ticket.group, ticket.assignee, new)
    BY <1>1 DEF ClaimReview
  <2>2. new.phase = wf.phase /\ new.acceptedBy = wf.acceptedBy
    BY <1>w DEF Workflow
  <2> HIDE DEF new
  <2>3. QED
    BY <2>1, <2>2, TransitionFields, StutterStep
<1>2. ASSUME NEW u \in Staff, NEW g \in Departments, Route(u, g)
      PROVE  CustodyStep
  <2> DEFINE new == [wf EXCEPT !.phase = "department",
                       !.reviewer = IF @ = NoOne THEN u ELSE @,
                       !.reviewed = TRUE, !.visit = ticket.version + 1,
                       !.marks = @ \ QueueMarks]
  <2>1. Transition("open", g, NoOne, new) /\ wf.phase = "service_desk"
    BY <1>2 DEF Route
  <2>2. new.phase = "department" /\ new.acceptedBy = wf.acceptedBy
    BY <1>w DEF Workflow
  <2> HIDE DEF new
  <2>3. /\ ticket'.wf.phase = "department" /\ ticket'.group = g
        /\ ticket'.wf.acceptedBy = wf.acceptedBy
    BY <2>1, <2>2, TransitionFields
  <2>4. /\ StageOf(ticket.wf.phase) = "review"
        /\ StageOf(ticket'.wf.phase) = "queue"
    BY <2>1, <2>3 DEF StageOf
  <2>5. QED
    BY <2>3, <2>4 DEF CustodyStep, Custody!Next, Custody!Dispatch
<1>3. ASSUME NEW u \in Staff, NEW t \in Staff, Offer(u, t)
      PROVE  CustodyStep
  <2> DEFINE new == [wf EXCEPT !.phase = "awaiting_acceptance"]
  <2>1. Transition(ticket.status, ticket.group, t, new)
        /\ wf.phase \in {"department", "awaiting_acceptance"}
    BY <1>3 DEF Offer
  <2>2. new.phase = "awaiting_acceptance" /\ new.acceptedBy = wf.acceptedBy
    BY <1>w DEF Workflow
  <2> HIDE DEF new
  <2>3. /\ ticket'.wf.phase = "awaiting_acceptance"
        /\ ticket'.group = ticket.group /\ ticket'.wf.acceptedBy = wf.acceptedBy
    BY <2>1, <2>2, TransitionFields
  <2>4. StageOf(ticket.wf.phase) = "queue" /\ StageOf(ticket'.wf.phase) = "queue"
    BY <2>1, <2>3 DEF StageOf
  <2>5. QED
    BY <2>3, <2>4, StutterStep
<1>4. ASSUME NEW u \in Staff, Pickup(u) \/ Accept(u)
      PROVE  CustodyStep
  <2> DEFINE new == [wf EXCEPT !.phase = "in_progress", !.acceptedBy = u]
  <2>1. Transition("in_progress", ticket.group, u, new)
        /\ u \in Members[ticket.group]
        /\ wf.phase \in {"department", "awaiting_acceptance"}
    BY <1>4 DEF Pickup, Accept, TakeOn, InGroup
  <2>2. new.phase = "in_progress" /\ new.acceptedBy = u
    BY <1>w DEF Workflow
  <2> HIDE DEF new
  <2>3. /\ ticket'.wf.phase = "in_progress"
        /\ ticket'.group = ticket.group /\ ticket'.wf.acceptedBy = u
    BY <2>1, <2>2, TransitionFields
  <2>4. StageOf(ticket.wf.phase) = "queue" /\ StageOf(ticket'.wf.phase) = "work"
    BY <2>1, <2>3 DEF StageOf
  <2>5. QED
    BY <2>1, <2>3, <2>4 DEF CustodyStep, Custody!Next, Custody!TakeOn
<1>5. ASSUME NEW u \in Staff, Decline(u)
      PROVE  CustodyStep
  <2> DEFINE new == [wf EXCEPT !.phase = "department", !.acceptedBy = NoOne]
  <2>1. Transition("open", ticket.group, NoOne, new)
        /\ wf.phase = "awaiting_acceptance"
    BY <1>5 DEF Decline
  <2>2. new.phase = "department" /\ new.acceptedBy = NoOne
    BY <1>w DEF Workflow
  <2> HIDE DEF new
  <2>3. wf.acceptedBy = NoOne
    BY <1>o, <2>1 DEF Accepted
  <2>4. /\ ticket'.wf.phase = "department"
        /\ ticket'.group = ticket.group /\ ticket'.wf.acceptedBy = NoOne
    BY <2>1, <2>2, TransitionFields
  <2>5. StageOf(ticket.wf.phase) = "queue" /\ StageOf(ticket'.wf.phase) = "queue"
    BY <2>1, <2>4 DEF StageOf
  <2>6. QED
    BY <2>3, <2>4, <2>5, StutterStep
<1>6. ASSUME NEW u \in Staff, Release(u)
      PROVE  CustodyStep
  <2> DEFINE new == [wf EXCEPT !.phase = "department", !.acceptedBy = NoOne,
                       !.visit = ticket.version + 1,
                       !.marks = @ \ QueueMarks]
  <2>1. Transition("open", ticket.group, NoOne, new) /\ wf.phase = "in_progress"
    BY <1>6 DEF Release
  <2>2. new.phase = "department" /\ new.acceptedBy = NoOne
    BY <1>w DEF Workflow
  <2> HIDE DEF new
  <2>3. QED
    BY <2>1, <2>2, TransitionFields, PutBackStep
<1>7. ASSUME NEW u \in Staff, ReturnToServiceDesk(u)
      PROVE  CustodyStep
  <2> DEFINE new == [wf EXCEPT !.phase = "service_desk",
                       !.returns = Append(@, ticket.group),
                       !.visit = ticket.version + 1, !.reviewer = NoOne,
                       !.reviewed = FALSE, !.acceptedBy = NoOne, !.marks = {}]
  <2>1. Transition("open", Desk, NoOne, new)
        /\ wf.phase \in {"department", "awaiting_acceptance", "in_progress"}
    BY <1>7 DEF ReturnToServiceDesk
  <2>2. new.phase = "service_desk" /\ new.acceptedBy = NoOne
    BY <1>w DEF Workflow
  <2> HIDE DEF new
  <2>3. /\ ticket'.wf.phase = "service_desk"
        /\ ticket'.group = Desk /\ ticket'.wf.acceptedBy = NoOne
    BY <2>1, <2>2, TransitionFields
  <2>4. /\ StageOf(ticket.wf.phase) \in {"queue", "work"}
        /\ StageOf(ticket'.wf.phase) = "review"
    BY <2>1, <2>3 DEF StageOf
  <2>5. QED
    BY <2>3, <2>4 DEF CustodyStep, Custody!Next, Custody!SendBack
<1>8. QED
  BY <1>1, <1>2, <1>3, <1>4, <1>5, <1>6, <1>7 DEF TransitionStep

LEMMA SystemCustody ==
  TypeOK /\ RowInv /\ (LinkStep \/ MonitorStep) => CustodyStep
<1> SUFFICES ASSUME TypeOK, RowInv PROVE LinkStep \/ MonitorStep => CustodyStep
  OBVIOUS
<1>w. ticket \in Ticket /\ ticket.wf \in Workflow
  BY DEF TypeOK, Ticket
<1>r. ticket.status = "resolved" => ticket.wf.phase = "resolved"
  BY DEF RowInv, Concluded
<1>1. ASSUME NEW r \in acks, Dispute(r)
      PROVE  CustodyStep
  <2>1. ticket.wf.phase = "resolved"
    BY <1>r, <1>1 DEF Dispute, LinkValid
  <2>2. /\ ticket'.group = ticket.group
        /\ ticket'.wf = Requeued(ticket.wf, "department", ticket.version + 1)
    BY <1>w, <1>1 DEF Dispute, Ticket
  <2>3. ticket'.wf.phase = "department" /\ ticket'.wf.acceptedBy = NoOne
    BY <1>w, <2>2 DEF Requeued, Workflow
  <2>4. QED
    BY <2>1, <2>2, <2>3, PutBackStep
<1>2. ASSUME NEW r \in acks, Confirm(r)
      PROVE  CustodyStep
  <2>1. ticket.wf.phase = "resolved"
    BY <1>r, <1>2 DEF Confirm, LinkValid
  <2>2. /\ ticket'.wf.phase = "closed" /\ ticket'.group = ticket.group
        /\ ticket'.wf.acceptedBy = ticket.wf.acceptedBy
    BY <1>w, <1>2 DEF Confirm, Ticket, Workflow
  <2>3. QED
    BY <2>1, <2>2, FinishStep
<1>3. CASE MonitorCloses
  <2>1. ticket.wf.phase = "resolved"
    BY <1>r, <1>3 DEF MonitorCloses, AwaitsConfirmation
  <2>2. /\ ticket'.wf.phase = "closed" /\ ticket'.group = ticket.group
        /\ ticket'.wf.acceptedBy = ticket.wf.acceptedBy
    BY <1>w, <1>3 DEF MonitorCloses, Ticket, Workflow
  <2>3. QED
    BY <2>1, <2>2, FinishStep
<1>4. ASSUME NEW level \in DOMAIN Passed, NEW lateness \in DOMAIN Late,
             MonitorEscalates(level, lateness)
      PROVE  CustodyStep
  <2>1. /\ ticket'.wf.phase = ticket.wf.phase /\ ticket'.group = ticket.group
        /\ ticket'.wf.acceptedBy = ticket.wf.acceptedBy
    BY <1>w, <1>4 DEF MonitorEscalates, Ticket, Workflow
  <2>2. QED
    BY <2>1, StutterStep
<1>5. CASE MonitorReminds
  <2>1. /\ ticket'.wf.phase = ticket.wf.phase /\ ticket'.group = ticket.group
        /\ ticket'.wf.acceptedBy = ticket.wf.acceptedBy
    BY <1>w, <1>5 DEF MonitorReminds, Ticket, Workflow
  <2>2. QED
    BY <2>1, StutterStep
<1>6. QED
  BY <1>1, <1>2, <1>3, <1>4, <1>5 DEF LinkStep, MonitorStep

LEMMA CallCustody ==
  ASSUME TypeOK, RowInv, ReadIsCurrent, Judged, NEW c \in Calls,
         AskStep(c) \/ ReadCurrent(c) \/ Commit(c)
  PROVE  CustodyStep
<1>1. CASE ticket' = ticket
  BY <1>1, StutterStep
<1>2. CASE Commit(c) /\ Unchanged(call[c].row, call[c].patch)
  <2> DEFINE p == call[c].patch
  <2>1. p \in Patch /\ Permitted(ticket, p) /\ ticket' = Written(ticket, p)
    BY <1>2, CommitFromCurrent
  <2> HIDE DEF p
  <2>2. ticket \in Ticket /\ ticket.wf \in Workflow
    BY DEF TypeOK, Ticket
  <2>3. /\ ticket'.group = ticket.group
        /\ ticket'.wf = MutatedWorkflow(ticket, p)
    BY <2>1, <2>2, WrittenFields
  <2>4. CASE p.status = "resolved"
    <3>1. ticket.wf.phase \in {"in_progress", "resolved", "closed"}
      BY <2>1, <2>4 DEF Permitted, RowInv, Owned
    <3>2. /\ ticket'.wf.phase = "resolved"
          /\ ticket'.wf.acceptedBy = ticket.wf.acceptedBy
      BY <2>2, <2>3, <2>4 DEF MutatedWorkflow, Workflow
    <3>3. QED
      BY <2>3, <3>1, <3>2, FinishStep
  <2>5. CASE p.status = "closed"
    <3>1. ticket.wf.phase = "resolved"
      BY <2>1, <2>5 DEF Permitted, RowInv, Concluded
    <3>2. /\ ticket'.wf.phase = "closed"
          /\ ticket'.wf.acceptedBy = ticket.wf.acceptedBy
      BY <2>2, <2>3, <2>5 DEF MutatedWorkflow, Workflow
    <3>3. QED
      BY <2>3, <3>1, <3>2, FinishStep
  <2>6. CASE p.status = "reopened"
    <3>1. ticket.status \in {"resolved", "closed"}
      BY <2>1, <2>6 DEF Permitted, Settled, RowInv, HumanResolution
    <3>2. ticket.wf.phase \in {"resolved", "closed"}
      BY <3>1 DEF RowInv, Concluded
    <3>3. ticket.wf.reviewed
      BY <3>2 DEF RowInv, Reviewed
    <3>4. ticket'.wf = Requeued(ticket.wf, "department", ticket.version + 1)
      BY <2>3, <2>6, <3>3 DEF MutatedWorkflow
    <3>5. ticket'.wf.phase = "department" /\ ticket'.wf.acceptedBy = NoOne
      BY <2>2, <3>4 DEF Requeued, Workflow
    <3>6. QED
      BY <2>3, <3>2, <3>5, PutBackStep
  <2>7. CASE p.status \notin {"resolved", "closed", "reopened"}
    <3>1. ticket'.wf = ticket.wf
      BY <2>3, <2>7 DEF MutatedWorkflow
    <3>2. QED
      BY <2>3, <3>1, StutterStep
  <2>8. QED
    BY <2>4, <2>5, <2>6, <2>7
<1>3. ASSUME AskStep(c)
      PROVE  ticket' = ticket
  <2>1. PICK p \in Patch : Ask(c, p)
    BY <1>3, AskedPatch
  <2>2. QED
    BY <2>1 DEF Ask
<1>4. QED
  BY <1>1, <1>2, <1>3 DEF ReadCurrent, Commit

-----------------------------------------------------------------------------
(* The theorem *)

\* The whole of the ticket's traffic, with overlapping calls, the monitor and
\* the link, keeps the promise of TicketCustody.
THEOREM Implementation == Spec => ImplementsCustody
<1>1. Init => Custody!Init
  BY DEF Init, Custody!Init, StageOf
<1>2. WorkflowInv /\ [Next]_vars => CustodyStep
  <2> SUFFICES ASSUME WorkflowInv, [Next]_vars PROVE CustodyStep
    OBVIOUS
  <2>0. TypeOK /\ ReadIsCurrent /\ Judged /\ RowInv
    BY DEF WorkflowInv, RowInv
  <2>1. CASE TransitionStep
    BY <2>0, <2>1, TransitionCustody
  <2>2. ASSUME NEW c \in Calls, AskStep(c) \/ ReadCurrent(c) \/ Commit(c)
        PROVE  CustodyStep
    BY <2>0, <2>2, CallCustody
  <2>3. CASE LinkStep \/ MonitorStep
    BY <2>0, <2>3, SystemCustody
  <2>4. CASE UNCHANGED vars
    BY <2>4, StutterStep DEF vars
  <2>5. QED
    BY <2>1, <2>2, <2>3, <2>4 DEF Next
<1>3. QED
  BY <1>1, <1>2, Safety, PTL DEF Spec, ImplementsCustody, Custody!Spec, CustodyStep

-----------------------------------------------------------------------------
(* Visits *)

\* A visit is named by the version of the write that began it.
VisitDrawn == ticket.wf.visit <= ticket.version

\* What OneWinnerPerVisit says of a step.
Handover ==
  Accepted(ticket) /\ ticket'.wf.acceptedBy # ticket.wf.acceptedBy
    => ~Accepted(ticket') /\ ticket'.wf.visit > ticket.wf.visit

LEMMA SameVisit ==
  ASSUME TypeOK, VisitDrawn, NewVersion \/ ticket' = ticket,
         ticket'.wf.visit = ticket.wf.visit,
         \/ ticket'.wf.acceptedBy = ticket.wf.acceptedBy
         \/ ~Accepted(ticket)
  PROVE  VisitDrawn' /\ Handover
<1>1. ticket.version \in Nat /\ ticket.wf.visit \in Nat
  BY DEF TypeOK, Ticket, Workflow
<1>2. VisitDrawn'
  BY <1>1 DEF VisitDrawn, NewVersion
<1>3. QED
  BY <1>2 DEF Handover

LEMMA NewVisit ==
  ASSUME TypeOK, VisitDrawn, NewVersion,
         ticket'.wf.visit = ticket.version + 1,
         \/ ticket'.wf.acceptedBy = NoOne
         \/ ticket'.wf.acceptedBy = ticket.wf.acceptedBy
  PROVE  VisitDrawn' /\ Handover
<1>1. ticket.version \in Nat /\ ticket.wf.visit \in Nat
  BY DEF TypeOK, Ticket, Workflow
<1>2. VisitDrawn' /\ ticket'.wf.visit > ticket.wf.visit
  BY <1>1 DEF VisitDrawn, NewVersion
<1>3. QED
  BY <1>2 DEF Handover, Accepted

LEMMA TransitionVisit ==
  TypeOK /\ RowInv /\ VisitDrawn /\ TransitionStep => VisitDrawn' /\ Handover
<1> SUFFICES ASSUME TypeOK, RowInv, VisitDrawn, TransitionStep
             PROVE  VisitDrawn' /\ Handover
  OBVIOUS
<1>w. ticket.wf \in Workflow
  BY DEF TypeOK, Ticket
<1>o. Accepted(ticket) <=> ticket.wf.phase \in {"in_progress", "resolved", "closed"}
  BY DEF RowInv, Owned
<1> DEFINE wf == ticket.wf
<1>1. ASSUME NEW u \in Staff, ClaimReview(u)
      PROVE  VisitDrawn' /\ Handover
  <2> DEFINE new == [wf EXCEPT !.reviewer = u]
  <2>1. Transition(ticket.status, ticket.group, ticket.assignee, new)
    BY <1>1 DEF ClaimReview
  <2>2. new.visit = wf.visit /\ new.acceptedBy = wf.acceptedBy
    BY <1>w DEF Workflow
  <2> HIDE DEF new
  <2>3. QED
    BY <2>1, <2>2, TransitionFields, SameVisit
<1>2. ASSUME NEW u \in Staff, NEW g \in Departments, Route(u, g)
      PROVE  VisitDrawn' /\ Handover
  <2> DEFINE new == [wf EXCEPT !.phase = "department",
                       !.reviewer = IF @ = NoOne THEN u ELSE @,
                       !.reviewed = TRUE, !.visit = ticket.version + 1,
                       !.marks = @ \ QueueMarks]
  <2>1. Transition("open", g, NoOne, new)
    BY <1>2 DEF Route
  <2>2. new.visit = ticket.version + 1 /\ new.acceptedBy = wf.acceptedBy
    BY <1>w DEF Workflow
  <2> HIDE DEF new
  <2>3. QED
    BY <2>1, <2>2, TransitionFields, NewVisit
<1>3. ASSUME NEW u \in Staff, NEW t \in Staff, Offer(u, t)
      PROVE  VisitDrawn' /\ Handover
  <2> DEFINE new == [wf EXCEPT !.phase = "awaiting_acceptance"]
  <2>1. Transition(ticket.status, ticket.group, t, new)
    BY <1>3 DEF Offer
  <2>2. new.visit = wf.visit /\ new.acceptedBy = wf.acceptedBy
    BY <1>w DEF Workflow
  <2> HIDE DEF new
  <2>3. QED
    BY <2>1, <2>2, TransitionFields, SameVisit
<1>4. ASSUME NEW u \in Staff, Pickup(u) \/ Accept(u)
      PROVE  VisitDrawn' /\ Handover
  <2> DEFINE new == [wf EXCEPT !.phase = "in_progress", !.acceptedBy = u]
  <2>1. Transition("in_progress", ticket.group, u, new)
        /\ wf.phase \in {"department", "awaiting_acceptance"}
    BY <1>4 DEF Pickup, Accept, TakeOn
  <2>2. new.visit = wf.visit
    BY <1>w DEF Workflow
  <2> HIDE DEF new
  <2>3. QED
    BY <1>o, <2>1, <2>2, TransitionFields, SameVisit
<1>5. ASSUME NEW u \in Staff, Decline(u)
      PROVE  VisitDrawn' /\ Handover
  <2> DEFINE new == [wf EXCEPT !.phase = "department", !.acceptedBy = NoOne]
  <2>1. Transition("open", ticket.group, NoOne, new)
        /\ wf.phase = "awaiting_acceptance"
    BY <1>5 DEF Decline
  <2>2. new.visit = wf.visit
    BY <1>w DEF Workflow
  <2> HIDE DEF new
  <2>3. QED
    BY <1>o, <2>1, <2>2, TransitionFields, SameVisit
<1>6. ASSUME NEW u \in Staff, Release(u)
      PROVE  VisitDrawn' /\ Handover
  <2> DEFINE new == [wf EXCEPT !.phase = "department", !.acceptedBy = NoOne,
                       !.visit = ticket.version + 1,
                       !.marks = @ \ QueueMarks]
  <2>1. Transition("open", ticket.group, NoOne, new)
    BY <1>6 DEF Release
  <2>2. new.visit = ticket.version + 1 /\ new.acceptedBy = NoOne
    BY <1>w DEF Workflow
  <2> HIDE DEF new
  <2>3. QED
    BY <2>1, <2>2, TransitionFields, NewVisit
<1>7. ASSUME NEW u \in Staff, ReturnToServiceDesk(u)
      PROVE  VisitDrawn' /\ Handover
  <2> DEFINE new == [wf EXCEPT !.phase = "service_desk",
                       !.returns = Append(@, ticket.group),
                       !.visit = ticket.version + 1, !.reviewer = NoOne,
                       !.reviewed = FALSE, !.acceptedBy = NoOne, !.marks = {}]
  <2>1. Transition("open", Desk, NoOne, new)
    BY <1>7 DEF ReturnToServiceDesk
  <2>2. new.visit = ticket.version + 1 /\ new.acceptedBy = NoOne
    BY <1>w DEF Workflow
  <2> HIDE DEF new
  <2>3. QED
    BY <2>1, <2>2, TransitionFields, NewVisit
<1>8. QED
  BY <1>1, <1>2, <1>3, <1>4, <1>5, <1>6, <1>7 DEF TransitionStep

LEMMA SystemVisit ==
  TypeOK /\ VisitDrawn /\ (LinkStep \/ MonitorStep) => VisitDrawn' /\ Handover
<1> SUFFICES ASSUME TypeOK, VisitDrawn, LinkStep \/ MonitorStep
             PROVE  VisitDrawn' /\ Handover
  OBVIOUS
<1>w. ticket \in Ticket /\ ticket.wf \in Workflow
  BY DEF TypeOK, Ticket
<1>v. NewVersion
  BY SystemVersion
<1>1. ASSUME NEW r \in acks, Dispute(r)
      PROVE  VisitDrawn' /\ Handover
  <2>1. ticket'.wf = Requeued(ticket.wf, "department", ticket.version + 1)
    BY <1>w, <1>1 DEF Dispute, Ticket
  <2>2. /\ ticket'.wf.visit = ticket.version + 1
        /\ ticket'.wf.acceptedBy = NoOne
    BY <1>w, <2>1 DEF Requeued, Workflow
  <2>3. QED
    BY <1>v, <2>2, NewVisit
<1>2. ASSUME NEW r \in acks, Confirm(r)
      PROVE  /\ ticket'.wf.visit = ticket.wf.visit
             /\ ticket'.wf.acceptedBy = ticket.wf.acceptedBy
  BY <1>w, <1>2 DEF Confirm, Ticket, Workflow
<1>3. ASSUME NEW level \in DOMAIN Passed, NEW lateness \in DOMAIN Late,
             MonitorEscalates(level, lateness)
      PROVE  /\ ticket'.wf.visit = ticket.wf.visit
             /\ ticket'.wf.acceptedBy = ticket.wf.acceptedBy
  BY <1>w, <1>3 DEF MonitorEscalates, Ticket, Workflow
<1>4. ASSUME MonitorReminds
      PROVE  /\ ticket'.wf.visit = ticket.wf.visit
             /\ ticket'.wf.acceptedBy = ticket.wf.acceptedBy
  BY <1>w, <1>4 DEF MonitorReminds, Ticket, Workflow
<1>5. ASSUME MonitorCloses
      PROVE  /\ ticket'.wf.visit = ticket.wf.visit
             /\ ticket'.wf.acceptedBy = ticket.wf.acceptedBy
  BY <1>w, <1>5 DEF MonitorCloses, Ticket, Workflow
<1>6. QED
  BY <1>v, <1>1, <1>2, <1>3, <1>4, <1>5, SameVisit DEF LinkStep, MonitorStep

LEMMA CallVisit ==
  ASSUME TypeOK, RowInv, ReadIsCurrent, Judged, VisitDrawn, NEW c \in Calls,
         AskStep(c) \/ ReadCurrent(c) \/ Commit(c)
  PROVE  VisitDrawn' /\ Handover
<1>1. CASE ticket' = ticket
  BY <1>1, SameVisit
<1>2. CASE Commit(c) /\ Unchanged(call[c].row, call[c].patch)
  <2> DEFINE p == call[c].patch
  <2>1. p \in Patch /\ ticket' = Written(ticket, p)
    BY <1>2, CommitFromCurrent
  <2> HIDE DEF p
  <2>2. ticket \in Ticket /\ ticket.wf \in Workflow
    BY DEF TypeOK, Ticket
  <2>3. NewVersion /\ ticket'.wf = MutatedWorkflow(ticket, p)
    BY <2>1, <2>2, WrittenFields DEF NewVersion
  <2>4. CASE p.status = "reopened"
    <3>1. /\ ticket'.wf.visit = ticket.version + 1
          /\ ticket'.wf.acceptedBy = NoOne
      BY <2>2, <2>3, <2>4 DEF MutatedWorkflow, Requeued, Workflow
    <3>2. QED
      BY <2>3, <3>1, NewVisit
  <2>5. CASE p.status # "reopened"
    <3>1. /\ ticket'.wf.visit = ticket.wf.visit
          /\ ticket'.wf.acceptedBy = ticket.wf.acceptedBy
      <4>1. CASE p.status = "resolved"
        BY <2>2, <2>3, <4>1 DEF MutatedWorkflow, Workflow
      <4>2. CASE p.status = "closed"
        BY <2>2, <2>3, <4>2 DEF MutatedWorkflow, Workflow
      <4>3. CASE p.status \notin {"resolved", "closed"}
        BY <2>3, <2>5, <4>3 DEF MutatedWorkflow
      <4>4. QED
        BY <4>1, <4>2, <4>3
    <3>2. QED
      BY <2>3, <3>1, SameVisit
  <2>6. QED
    BY <2>4, <2>5
<1>3. ASSUME AskStep(c)
      PROVE  ticket' = ticket
  <2>1. PICK p \in Patch : Ask(c, p)
    BY <1>3, AskedPatch
  <2>2. QED
    BY <2>1 DEF Ask
<1>4. QED
  BY <1>1, <1>2, <1>3 DEF ReadCurrent, Commit

\* Work somebody accepted is never handed straight to somebody else, by a
\* pickup, a stale call or anything else: it goes back first, and the next
\* owner takes it on in a visit with a clock of its own.
THEOREM NoHandover == Spec => OneWinnerPerVisit
<1>1. Init => VisitDrawn
  BY DEF Init, VisitDrawn
<1>2. WorkflowInv /\ VisitDrawn /\ [Next]_vars => VisitDrawn' /\ Handover
  <2> SUFFICES ASSUME WorkflowInv, VisitDrawn, [Next]_vars
               PROVE  VisitDrawn' /\ Handover
    OBVIOUS
  <2>0. TypeOK /\ ReadIsCurrent /\ Judged /\ RowInv
    BY DEF WorkflowInv, RowInv
  <2>1. CASE TransitionStep
    BY <2>0, <2>1, TransitionVisit
  <2>2. ASSUME NEW c \in Calls, AskStep(c) \/ ReadCurrent(c) \/ Commit(c)
        PROVE  VisitDrawn' /\ Handover
    BY <2>0, <2>2, CallVisit
  <2>3. CASE LinkStep \/ MonitorStep
    BY <2>0, <2>3, SystemVisit
  <2>4. CASE UNCHANGED vars
    BY <2>0, <2>4, SameVisit DEF vars
  <2>5. QED
    BY <2>1, <2>2, <2>3, <2>4 DEF Next
<1>3. WorkflowInv /\ VisitDrawn /\ [Next]_vars =>
        /\ VisitDrawn'
        /\ [Accepted(ticket) /\ ticket'.wf.acceptedBy # ticket.wf.acceptedBy
              => ~Accepted(ticket') /\ ticket'.wf.visit > ticket.wf.visit]_vars
  BY <1>2 DEF Handover
<1>4. QED
  BY <1>1, <1>3, Safety, PTL DEF Spec, OneWinnerPerVisit

-----------------------------------------------------------------------------
(* LINKS *)

\* A caller who asks to resolve in somebody's name asks for a new stamp.
AsksFresh(p) ==
  p.status = "resolved" /\ p.actor \in Staff => p.resolvedAt = Fresh
FreshlyResolved ==
  \A c \in Calls : call[c].pc \in {"asked", "read"} => AsksFresh(call[c].patch)

\* A stamp is the version of a write, so that a new resolution has a stamp no
\* link was issued for; a link that was used was issued.
LinkInv ==
  /\ \A r \in acks : r <= ticket.version
  /\ used \subseteq acks
  /\ FreshlyResolved
  /\ LinkUsedUp

LEMMA AskedFresh ==
  ASSUME TypeOK, NEW c \in Calls, NEW p, Ask(c, p), AskStep(c)
  PROVE  AsksFresh(p)
<1> DEFINE asked == [pc |-> "asked", patch |-> p]
<1>0. call'[c] = asked /\ asked.patch = p
  BY DEF Ask, TypeOK
<1> HIDE DEF asked
<1>1. ASSUME NEW q, q.actor = NoOne \/ q.status # "resolved"
                       \/ q.resolvedAt = Fresh,
             Ask(c, q)
      PROVE  AsksFresh(p)
  <2>1. call'[c].patch = q
    BY <1>1 DEF Ask, TypeOK
  <2>2. QED
    BY <1>0, <1>1, <2>1, TeamsAssumption DEF AsksFresh
<1>2. ASSUME NEW public \in BOOLEAN, AgentReply(c, public)
      PROVE  AsksFresh(p)
  BY <1>1, <1>2 DEF AgentReply, Touch
<1>3. ASSUME NEW u \in Staff, AgentResolve(c, u)
      PROVE  AsksFresh(p)
  BY <1>1, <1>3 DEF AgentResolve, Touch
<1>4. CASE ReopenTicket(c) \/ EscalateTicket(c) \/ DeleteTicket(c)
  BY <1>1, <1>4 DEF ReopenTicket, EscalateTicket, DeleteTicket, Touch
<1>5. ASSUME NEW s, UpdateTicketFields(c, s) \/ SetStatus(c, s)
      PROVE  AsksFresh(p)
  BY <1>1, <1>5 DEF UpdateTicketFields, SetStatus, Touch
<1>6. ASSUME NEW held \in BOOLEAN, RequesterReply(c, held)
      PROVE  AsksFresh(p)
  BY <1>1, <1>6 DEF RequesterReply, Touch
<1>7. ASSUME NEW satisfied \in BOOLEAN, SubmitFeedback(c, satisfied)
      PROVE  AsksFresh(p)
  BY <1>1, <1>7 DEF SubmitFeedback, Touch
<1>8. QED
  BY <1>2, <1>3, <1>4, <1>5, <1>6, <1>7 DEF AskStep

\* A write that does not resolve the ticket again leaves every used link used up.
LEMMA StaysUsedUp ==
  ASSUME TypeOK, LinkInv, NewVersion \/ ticket' = ticket,
         acks' = acks, FreshlyResolved',
         used' = used \/ used' = used \cup {ticket.resolvedAt},
         used' \subseteq acks,
         ticket'.status = "resolved" =>
           /\ ticket.status = "resolved" /\ used' = used
           /\ ticket'.resolvedAt = ticket.resolvedAt
  PROVE  LinkInv'
<1>1. ticket.version \in Nat /\ acks \subseteq Nat
  BY DEF TypeOK, Ticket
<1>2. \A r \in acks' : r <= ticket'.version
  BY <1>1 DEF LinkInv, NewVersion
<1>3. LinkUsedUp'
  BY DEF LinkInv, LinkUsedUp
<1>4. QED
  BY <1>2, <1>3 DEF LinkInv

LEMMA TransitionLink == TypeOK /\ LinkInv /\ TransitionStep => LinkInv'
<1> SUFFICES ASSUME TypeOK, LinkInv, TransitionStep PROVE LinkInv'
  OBVIOUS
<1>1. PICK s, g, a, wf : Transition(s, g, a, wf) /\ s # "resolved"
  BY DEF TransitionStep, ClaimReview, Route, Offer, Pickup, Accept, Decline,
         Release, ReturnToServiceDesk, TakeOn, AwaitsWork, Finished
<1>2. /\ ticket'.status = s /\ NewVersion
      /\ acks' = acks /\ call' = call /\ used' = used
  BY <1>1, TransitionFields DEF Transition
<1>3. FreshlyResolved'
  BY <1>2 DEF LinkInv, FreshlyResolved
<1>4. QED
  BY <1>1, <1>2, <1>3, StaysUsedUp DEF LinkInv

LEMMA SystemLink == TypeOK /\ LinkInv /\ (LinkStep \/ MonitorStep) => LinkInv'
<1> SUFFICES ASSUME TypeOK, LinkInv, LinkStep \/ MonitorStep PROVE LinkInv'
  OBVIOUS
<1>1. ticket \in Ticket /\ NewVersion /\ call' = call
  BY SystemVersion DEF TypeOK
<1>2. FreshlyResolved'
  BY <1>1 DEF LinkInv, FreshlyResolved
<1>3. ASSUME NEW r \in acks, Confirm(r) \/ Dispute(r)
      PROVE  /\ acks' = acks /\ used' = used \cup {ticket.resolvedAt}
             /\ ticket.resolvedAt \in acks /\ ticket'.status # "resolved"
  <2>1. CASE Confirm(r)
    BY <1>1, <2>1 DEF Confirm, LinkValid, Ticket
  <2>2. CASE Dispute(r)
    BY <1>1, <2>2 DEF Dispute, LinkValid, Ticket
  <2>3. QED
    BY <1>3, <2>1, <2>2
<1>4. ASSUME NEW level, NEW lateness,
             MonitorEscalates(level, lateness) \/ MonitorReminds
      PROVE  /\ acks' = acks /\ used' = used
             /\ ticket'.status = ticket.status
             /\ ticket'.resolvedAt = ticket.resolvedAt
  BY <1>1, <1>4 DEF MonitorEscalates, MonitorReminds, Ticket
<1>5. ASSUME MonitorCloses
      PROVE  acks' = acks /\ used' = used /\ ticket'.status # "resolved"
  BY <1>1, <1>5 DEF MonitorCloses, Ticket
<1>6. QED
  BY <1>1, <1>2, <1>3, <1>4, <1>5, StaysUsedUp DEF LinkInv, LinkStep, MonitorStep

LEMMA CallLink ==
  ASSUME TypeOK, ReadIsCurrent, Judged, LinkInv, NEW c \in Calls,
         AskStep(c) \/ ReadCurrent(c) \/ Commit(c)
  PROVE  LinkInv'
<1>1. ASSUME ticket' = ticket, acks' = acks, used' = used,
             \A d \in Calls \ {c} : call'[d] = call[d],
             call'[c].pc \in {"asked", "read"} => AsksFresh(call'[c].patch)
      PROVE  LinkInv'
  <2>1. FreshlyResolved'
    BY <1>1 DEF LinkInv, FreshlyResolved, AsksFresh
  <2>2. QED
    BY <1>1, <2>1, StaysUsedUp DEF LinkInv
<1>2. CASE AskStep(c)
  <2>1. PICK p \in Patch : Ask(c, p)
    BY <1>2, AskedPatch
  <2>2. AsksFresh(p)
    BY <1>2, <2>1, AskedFresh
  <2>3. QED
    BY <1>1, <2>1, <2>2 DEF Ask, TypeOK
<1>3. CASE ReadCurrent(c)
  <2>1. AsksFresh(call[c].patch)
    BY <1>3 DEF ReadCurrent, LinkInv, FreshlyResolved
  <2>2. QED
    BY <1>1, <1>3, <2>1 DEF ReadCurrent, TypeOK, Idle
<1>4. CASE Commit(c)
  <2> DEFINE p == call[c].patch
  <2>1. \/ /\ Unchanged(call[c].row, p)
           /\ p \in Patch /\ Permitted(ticket, p)
           /\ ticket' = Written(ticket, p)
           /\ acks' = IF p.status = "resolved"
                      THEN acks \cup {ResolvedAtAfter(ticket, p)} ELSE acks
        \/ ticket' = ticket /\ acks' = acks
    BY <1>4, CommitFromCurrent DEF Commit
  <2>2. AsksFresh(p)
    BY <1>4 DEF Commit, LinkInv, FreshlyResolved
  <2>3. FreshlyResolved' /\ used' = used
    BY <1>4 DEF Commit, LinkInv, FreshlyResolved, AsksFresh, TypeOK, Idle
  <2>4. used \subseteq acks /\ ticket \in Ticket /\ acks \subseteq Nat
        /\ ticket.version \in Nat /\ ticket.resolvedAt \in Nat
    BY DEF LinkInv, TypeOK, Ticket
  <2>5. CASE ticket' = ticket /\ acks' = acks
    BY <2>3, <2>4, <2>5, StaysUsedUp
  <2> HIDE DEF p
  <2>6. CASE /\ p \in Patch /\ Permitted(ticket, p)
             /\ ticket' = Written(ticket, p)
             /\ acks' = IF p.status = "resolved"
                        THEN acks \cup {ResolvedAtAfter(ticket, p)} ELSE acks
    <3>1. /\ ticket'.version = ticket.version + 1
          /\ ticket'.status = IF p.status = "none" THEN ticket.status ELSE p.status
          /\ ticket'.resolvedAt = ResolvedAtAfter(ticket, p)
      BY <2>4, <2>6, WrittenFields
    <3>2. CASE p.status = "resolved"
      <4>1. ResolvedAtAfter(ticket, p) = ticket.version + 1
        <5>1. p.resolvedAt = Fresh
          BY <2>2, <2>6, <3>2 DEF AsksFresh, Permitted
        <5>2. QED
          BY <5>1 DEF ResolvedAtAfter, Fresh
      <4>2. ticket'.resolvedAt \notin used /\ used \subseteq acks'
        BY <2>4, <2>6, <3>1, <3>2, <4>1 DEF LinkInv
      <4>3. \A r \in acks' : r <= ticket'.version
        BY <2>4, <2>6, <3>1, <3>2, <4>1 DEF LinkInv
      <4>4. QED
        BY <2>3, <4>2, <4>3 DEF LinkInv, LinkUsedUp
    <3>3. CASE p.status = "none"
      <4>1. ResolvedAtAfter(ticket, p) = ticket.resolvedAt
        BY <2>4, <2>6, <3>3 DEF Patch, ResolvedAtAfter, Changes, Keep, Fresh
      <4>2. QED
        BY <2>3, <2>4, <2>6, <3>1, <3>3, <4>1, StaysUsedUp DEF NewVersion
    <3>4. CASE p.status \notin {"none", "resolved"}
      BY <2>3, <2>4, <2>6, <3>1, <3>4, StaysUsedUp DEF NewVersion
    <3>5. QED
      BY <3>2, <3>3, <3>4
  <2>7. QED
    BY <2>1, <2>5, <2>6
<1>5. QED
  BY <1>2, <1>3, <1>4

\* The link of a resolution decides it once, over every number of resolutions,
\* disputes and reopenings: no later resolution has the stamp of a used link.
THEOREM LinkDecidesOnce == Spec => []LinkUsedUp
<1>1. Init => LinkInv
  BY DEF Init, LinkInv, FreshlyResolved, LinkUsedUp, Idle
<1>2. WorkflowInv /\ LinkInv /\ [Next]_vars => LinkInv'
  <2> SUFFICES ASSUME WorkflowInv, LinkInv, [Next]_vars PROVE LinkInv'
    OBVIOUS
  <2>0. TypeOK /\ ReadIsCurrent /\ Judged
    BY DEF WorkflowInv
  <2>1. CASE TransitionStep
    BY <2>0, <2>1, TransitionLink
  <2>2. ASSUME NEW c \in Calls, AskStep(c) \/ ReadCurrent(c) \/ Commit(c)
        PROVE  LinkInv'
    BY <2>0, <2>2, CallLink
  <2>3. CASE LinkStep \/ MonitorStep
    BY <2>0, <2>3, SystemLink
  <2>4. CASE UNCHANGED vars
    <3>1. FreshlyResolved'
      BY <2>4 DEF vars, LinkInv, FreshlyResolved
    <3>2. QED
      BY <2>0, <2>4, <3>1, StaysUsedUp DEF vars, LinkInv
  <2>5. QED
    BY <2>1, <2>2, <2>3, <2>4 DEF Next
<1>3. LinkInv => LinkUsedUp
  BY DEF LinkInv
<1>4. QED
  BY <1>1, <1>2, <1>3, Safety, PTL DEF Spec

-----------------------------------------------------------------------------
(* HISTORY *)

\* What HistoryKept says of a step.
Kept ==
  /\ IsPrefix(ticket.wf.returns, ticket'.wf.returns)
  /\ ticket'.wf.visit = ticket.wf.visit
       => ticket.wf.marks \subseteq ticket'.wf.marks

LEMMA PrefixOfSame ==
  ASSUME NEW S, NEW s \in Seq(S)
  PROVE  IsPrefix(s, s)
BY DEF IsPrefix

LEMMA PrefixOfAppend ==
  ASSUME NEW S, NEW s \in Seq(S), NEW e \in S
  PROVE  IsPrefix(s, Append(s, e))
<1>1. Len(Append(s, e)) = Len(s) + 1 /\ Len(s) \in Nat
  BY AppendProperties, LenProperties
<1>2. SubSeq(s, 1, Len(s)) = s /\ SubSeq(Append(s, e), 1, Len(s)) = s
  BY AppendProperties, LenProperties, SubSeqFull
<1>3. QED
  BY <1>1, <1>2 DEF IsPrefix

LEMMA KeptInVisit ==
  ASSUME TypeOK, ticket'.wf.returns = ticket.wf.returns,
         ticket.wf.marks \subseteq ticket'.wf.marks
  PROVE  Kept
BY PrefixOfSame DEF TypeOK, Ticket, Workflow, Kept

LEMMA KeptInNewVisit ==
  ASSUME TypeOK, VisitDrawn, ticket'.wf.visit = ticket.version + 1,
         \/ ticket'.wf.returns = ticket.wf.returns
         \/ \E g \in Groups : ticket'.wf.returns = Append(ticket.wf.returns, g)
  PROVE  Kept
<1>1. /\ ticket.version \in Nat /\ ticket.wf.visit \in Nat
      /\ ticket.wf.returns \in Seq(Groups)
  BY DEF TypeOK, Ticket, Workflow
<1>2. ticket'.wf.visit # ticket.wf.visit
  BY <1>1 DEF VisitDrawn
<1>3. QED
  BY <1>1, <1>2, PrefixOfSame, PrefixOfAppend DEF Kept

LEMMA TransitionKept == TypeOK /\ VisitDrawn /\ TransitionStep => Kept
<1> SUFFICES ASSUME TypeOK, VisitDrawn, TransitionStep PROVE Kept
  OBVIOUS
<1>w. ticket.wf \in Workflow /\ ticket.group \in Groups
  BY DEF TypeOK, Ticket
<1> DEFINE wf == ticket.wf
<1>1. ASSUME NEW u \in Staff, ClaimReview(u)
      PROVE  Kept
  <2> DEFINE new == [wf EXCEPT !.reviewer = u]
  <2>1. Transition(ticket.status, ticket.group, ticket.assignee, new)
    BY <1>1 DEF ClaimReview
  <2>2. new.returns = wf.returns /\ new.marks = wf.marks
    BY <1>w DEF Workflow
  <2> HIDE DEF new
  <2>3. QED
    BY <2>1, <2>2, TransitionFields, KeptInVisit
<1>2. ASSUME NEW u \in Staff, NEW g \in Departments, Route(u, g)
      PROVE  Kept
  <2> DEFINE new == [wf EXCEPT !.phase = "department",
                       !.reviewer = IF @ = NoOne THEN u ELSE @,
                       !.reviewed = TRUE, !.visit = ticket.version + 1,
                       !.marks = @ \ QueueMarks]
  <2>1. Transition("open", g, NoOne, new)
    BY <1>2 DEF Route
  <2>2. new.returns = wf.returns /\ new.visit = ticket.version + 1
    BY <1>w DEF Workflow
  <2> HIDE DEF new
  <2>3. QED
    BY <2>1, <2>2, TransitionFields, KeptInNewVisit
<1>3. ASSUME NEW u \in Staff, NEW t \in Staff, Offer(u, t)
      PROVE  Kept
  <2> DEFINE new == [wf EXCEPT !.phase = "awaiting_acceptance"]
  <2>1. Transition(ticket.status, ticket.group, t, new)
    BY <1>3 DEF Offer
  <2>2. new.returns = wf.returns /\ new.marks = wf.marks
    BY <1>w DEF Workflow
  <2> HIDE DEF new
  <2>3. QED
    BY <2>1, <2>2, TransitionFields, KeptInVisit
<1>4. ASSUME NEW u \in Staff, Pickup(u) \/ Accept(u)
      PROVE  Kept
  <2> DEFINE new == [wf EXCEPT !.phase = "in_progress", !.acceptedBy = u]
  <2>1. Transition("in_progress", ticket.group, u, new)
    BY <1>4 DEF Pickup, Accept, TakeOn
  <2>2. new.returns = wf.returns /\ new.marks = wf.marks
    BY <1>w DEF Workflow
  <2> HIDE DEF new
  <2>3. QED
    BY <2>1, <2>2, TransitionFields, KeptInVisit
<1>5. ASSUME NEW u \in Staff, Decline(u)
      PROVE  Kept
  <2> DEFINE new == [wf EXCEPT !.phase = "department", !.acceptedBy = NoOne]
  <2>1. Transition("open", ticket.group, NoOne, new)
    BY <1>5 DEF Decline
  <2>2. new.returns = wf.returns /\ new.marks = wf.marks
    BY <1>w DEF Workflow
  <2> HIDE DEF new
  <2>3. QED
    BY <2>1, <2>2, TransitionFields, KeptInVisit
<1>6. ASSUME NEW u \in Staff, Release(u)
      PROVE  Kept
  <2> DEFINE new == [wf EXCEPT !.phase = "department", !.acceptedBy = NoOne,
                       !.visit = ticket.version + 1,
                       !.marks = @ \ QueueMarks]
  <2>1. Transition("open", ticket.group, NoOne, new)
    BY <1>6 DEF Release
  <2>2. new.returns = wf.returns /\ new.visit = ticket.version + 1
    BY <1>w DEF Workflow
  <2> HIDE DEF new
  <2>3. QED
    BY <2>1, <2>2, TransitionFields, KeptInNewVisit
<1>7. ASSUME NEW u \in Staff, ReturnToServiceDesk(u)
      PROVE  Kept
  <2> DEFINE new == [wf EXCEPT !.phase = "service_desk",
                       !.returns = Append(@, ticket.group),
                       !.visit = ticket.version + 1, !.reviewer = NoOne,
                       !.reviewed = FALSE, !.acceptedBy = NoOne, !.marks = {}]
  <2>1. Transition("open", Desk, NoOne, new)
    BY <1>7 DEF ReturnToServiceDesk
  <2>2. /\ new.returns = Append(wf.returns, ticket.group)
        /\ new.visit = ticket.version + 1
    BY <1>w DEF Workflow
  <2> HIDE DEF new
  <2>3. QED
    BY <1>w, <2>1, <2>2, TransitionFields, KeptInNewVisit
<1>8. QED
  BY <1>1, <1>2, <1>3, <1>4, <1>5, <1>6, <1>7 DEF TransitionStep

LEMMA SystemKept ==
  TypeOK /\ VisitDrawn /\ (LinkStep \/ MonitorStep) => Kept
<1> SUFFICES ASSUME TypeOK, VisitDrawn, LinkStep \/ MonitorStep PROVE Kept
  OBVIOUS
<1>w. ticket \in Ticket /\ ticket.wf \in Workflow
  BY DEF TypeOK, Ticket
<1>1. ASSUME NEW r \in acks, Dispute(r)
      PROVE  Kept
  <2>1. ticket'.wf = Requeued(ticket.wf, "department", ticket.version + 1)
    BY <1>w, <1>1 DEF Dispute, Ticket
  <2>2. /\ ticket'.wf.visit = ticket.version + 1
        /\ ticket'.wf.returns = ticket.wf.returns
    BY <1>w, <2>1 DEF Requeued, Workflow
  <2>3. QED
    BY <2>2, KeptInNewVisit
<1>2. ASSUME NEW r \in acks, Confirm(r)
      PROVE  ticket'.wf.returns = ticket.wf.returns
               /\ ticket'.wf.marks = ticket.wf.marks
  BY <1>w, <1>2 DEF Confirm, Ticket, Workflow
<1>3. ASSUME NEW level \in DOMAIN Passed, NEW lateness \in DOMAIN Late,
             MonitorEscalates(level, lateness)
      PROVE  ticket'.wf.returns = ticket.wf.returns
               /\ ticket.wf.marks \subseteq ticket'.wf.marks
  BY <1>w, <1>3 DEF MonitorEscalates, Ticket, Workflow
<1>4. ASSUME MonitorReminds
      PROVE  ticket'.wf.returns = ticket.wf.returns
               /\ ticket'.wf.marks = ticket.wf.marks
  BY <1>w, <1>4 DEF MonitorReminds, Ticket, Workflow
<1>5. ASSUME MonitorCloses
      PROVE  ticket'.wf.returns = ticket.wf.returns
               /\ ticket'.wf.marks = ticket.wf.marks
  BY <1>w, <1>5 DEF MonitorCloses, Ticket, Workflow
<1>6. QED
  BY <1>1, <1>2, <1>3, <1>4, <1>5, KeptInVisit DEF LinkStep, MonitorStep

LEMMA CallKept ==
  ASSUME TypeOK, ReadIsCurrent, Judged, VisitDrawn, NEW c \in Calls,
         AskStep(c) \/ ReadCurrent(c) \/ Commit(c)
  PROVE  Kept
<1>1. CASE ticket' = ticket
  BY <1>1, KeptInVisit
<1>2. CASE Commit(c) /\ Unchanged(call[c].row, call[c].patch)
  <2> DEFINE p == call[c].patch
  <2>1. p \in Patch /\ ticket' = Written(ticket, p)
    BY <1>2, CommitFromCurrent
  <2> HIDE DEF p
  <2>2. ticket \in Ticket /\ ticket.wf \in Workflow
    BY DEF TypeOK, Ticket
  <2>3. ticket'.wf = MutatedWorkflow(ticket, p)
    BY <2>1, <2>2, WrittenFields
  <2>4. CASE p.status = "reopened"
    <3>1. /\ ticket'.wf.visit = ticket.version + 1
          /\ ticket'.wf.returns = ticket.wf.returns
      BY <2>2, <2>3, <2>4 DEF MutatedWorkflow, Requeued, Workflow
    <3>2. QED
      BY <3>1, KeptInNewVisit
  <2>5. CASE p.status \in {"resolved", "closed"}
    <3>1. /\ ticket'.wf.returns = ticket.wf.returns
          /\ ticket'.wf.marks = ticket.wf.marks
      BY <2>2, <2>3, <2>5 DEF MutatedWorkflow, Workflow
    <3>2. QED
      BY <3>1, KeptInVisit
  <2>6. CASE p.status \notin {"reopened", "resolved", "closed"}
    <3>1. ticket'.wf = ticket.wf
      BY <2>3, <2>6 DEF MutatedWorkflow
    <3>2. QED
      BY <3>1, KeptInVisit
  <2>7. QED
    BY <2>4, <2>5, <2>6
<1>3. ASSUME AskStep(c)
      PROVE  ticket' = ticket
  <2>1. PICK p \in Patch : Ask(c, p)
    BY <1>3, AskedPatch
  <2>2. QED
    BY <2>1 DEF Ask
<1>4. QED
  BY <1>1, <1>2, <1>3 DEF ReadCurrent, Commit

\* Every writer replaces the whole workflow object from what it has read, and
\* yet nobody overwrites a return to the desk or a marker that somebody else
\* has written in between: alerts are not repeated within a visit.
THEOREM NothingForgotten == Spec => HistoryKept
<1>1. Init => VisitDrawn
  BY DEF Init, VisitDrawn
<1>2. WorkflowInv /\ VisitDrawn /\ [Next]_vars => VisitDrawn' /\ Kept
  <2> SUFFICES ASSUME WorkflowInv, VisitDrawn, [Next]_vars
               PROVE  VisitDrawn' /\ Kept
    OBVIOUS
  <2>0. TypeOK /\ ReadIsCurrent /\ Judged /\ RowInv
    BY DEF WorkflowInv, RowInv
  <2>1. CASE TransitionStep
    BY <2>0, <2>1, TransitionVisit, TransitionKept
  <2>2. ASSUME NEW c \in Calls, AskStep(c) \/ ReadCurrent(c) \/ Commit(c)
        PROVE  VisitDrawn' /\ Kept
    BY <2>0, <2>2, CallVisit, CallKept
  <2>3. CASE LinkStep \/ MonitorStep
    BY <2>0, <2>3, SystemVisit, SystemKept
  <2>4. CASE UNCHANGED vars
    BY <2>0, <2>4, SameVisit, KeptInVisit DEF vars
  <2>5. QED
    BY <2>1, <2>2, <2>3, <2>4 DEF Next
<1>3. WorkflowInv /\ VisitDrawn /\ [Next]_vars =>
        /\ VisitDrawn'
        /\ [/\ IsPrefix(ticket.wf.returns, ticket'.wf.returns)
            /\ ticket'.wf.visit = ticket.wf.visit
                 => ticket.wf.marks \subseteq ticket'.wf.marks]_vars
  BY <1>2 DEF Kept
<1>4. QED
  BY <1>1, <1>3, Safety, PTL DEF Spec, HistoryKept
=============================================================================
