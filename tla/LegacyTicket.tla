---------------------------- MODULE LegacyTicket ----------------------------
(***************************************************************************)
(* One ticket of a tenant without the bucket workflow, the approval that   *)
(* may hold it, and everybody who writes it: staff, the requester, the     *)
(* approver, rules, the AI resolver and the scheduler.  All of them go     *)
(* through mutateTicket, which reads the row, computes the patch and       *)
(* writes it back; this row has no version, so the write is blind (only a  *)
(* resolution is checked again).  A call takes three steps: the caller's   *)
(* own read, the read of mutateTicket, the write.                          *)
(*                                                                         *)
(* A resolvedAt stamp is the number of the write that carries it: how long *)
(* a call takes does not matter beside the seven days it is compared with. *)
(*                                                                         *)
(* Definitions named Faulty... are slips somebody could make in the code.  *)
(* No specification uses them: each shows that a property would notice.    *)
(***************************************************************************)
EXTENDS Integers, FiniteSets

CONSTANTS
  Calls,  \* slots for calls in flight at the same time
  Loads   \* how much may go on in a behaviour: a bound for each kind of behaviour

(* A load has                                                              *)
(*   calls     the slots in use                                            *)
(*   statuses  the statuses a PATCH or an automation rule asks for         *)
(*   writes    no new call, but the scheduler's, after that many writes    *)
(*   kills     calls killed before they end                                *)

Statuses == {"new", "open", "in_progress", "pending", "auto_resolved",
             "pending_agent", "escalated", "resolved", "reopened", "closed",
             "cancelled"}
Settled == {"resolved", "auto_resolved", "closed"}
Active == {"new", "open", "in_progress", "pending", "pending_agent", "reopened"}
Actors == {"staff", "requester", "approver", "system"}

ASSUME BoundsAssumption ==
  /\ IsFiniteSet(Calls)
  /\ Loads \subseteq [calls: SUBSET Calls, statuses: SUBSET Statuses,
                      writes: Nat, kills: Nat]

VARIABLES
  load,      \* the load of this behaviour, which stays
  ticket,    \* the row
  approval,  \* state of the approval row, none if the item needs no approval
  call,      \* call[c]: what the call in slot c has read so far
  writes,    \* number of writes so far: the time of the last one
  old,       \* writes up to this one were more than seven days ago
  kills      \* calls killed so far

vars == <<load, ticket, approval, call, writes, old, kills>>

Ticket == [status: Statuses, resolvedAt: Nat, paused: BOOLEAN,
           breached: BOOLEAN, merged: BOOLEAN, deleted: BOOLEAN]

\* resolvedAt is Keep when the patch leaves it out, Fresh for a new stamp.
Keep == -1
Fresh == -2
Patch == [status: Statuses \cup {"none"}, resolvedAt: Nat \cup {Keep, Fresh},
          breach: BOOLEAN, merge: BOOLEAN, delete: BOOLEAN]
Touch == [status |-> "none", resolvedAt |-> Keep, breach |-> FALSE,
          merge |-> FALSE, delete |-> FALSE]

Idle == [pc |-> "idle"]
CallState ==
  {Idle} \cup [pc: {"deciding"}, decision: {"approved", "rejected"}]
         \cup [pc: {"asked"}, by: Actors, patch: Patch]
         \cup [pc: {"read"}, by: Actors, patch: Patch, row: Ticket]

\* createTicket of a tenant whose workflow is disabled.
Init ==
  /\ load \in Loads
  /\ ticket = [status |-> "open", resolvedAt |-> 0, paused |-> FALSE,
               breached |-> FALSE, merged |-> FALSE, deleted |-> FALSE]
  /\ approval = "none"
  /\ call = [c \in Calls |-> Idle]
  /\ writes = 0 /\ old = 0 /\ kills = 0

-----------------------------------------------------------------------------
(* The callers: each reads the ticket and asks mutateTicket for a patch *)

Ask(c, by, p) ==
  /\ call[c] = Idle
  /\ ~ticket.deleted
  /\ call' = [call EXCEPT ![c] = [pc |-> "asked", by |-> by, patch |-> p]]
  /\ UNCHANGED <<load, ticket, approval, writes, old, kills>>

AskStatus(c, by, s) == Ask(c, by, [Touch EXCEPT !.status = s])

AgentReply(c, public) ==
  AskStatus(c, "staff",
            IF public /\ ticket.status \in {"open", "new", "reopened"}
            THEN "in_progress" ELSE "none")

\* agentResolve, and acceptSuggestion of a ticket that is not settled.
AgentResolve(c) ==
  Ask(c, "staff", [Touch EXCEPT !.status = "resolved", !.resolvedAt = Fresh])

AgentClose(c) ==
  Ask(c, "staff",
      [Touch EXCEPT !.status = "closed",
                    !.resolvedAt = IF ticket.resolvedAt = 0 THEN Fresh
                                                       ELSE ticket.resolvedAt])

Reopening == [Touch EXCEPT !.status = "reopened", !.resolvedAt = 0]

ReopenTicket(c, by) == ticket.status \in Settled /\ Ask(c, by, Reopening)

EscalateTicket(c) ==
  ticket.status \in Active /\ AskStatus(c, "staff", "escalated")

\* Handing an escalated ticket to somebody; any other assignment keeps the status.
AssignTicket(c) ==
  AskStatus(c, "staff",
            IF ticket.status = "escalated" THEN "in_progress" ELSE "none")

\* updateTicketFields and a rule's set_status name a status outright.
UpdateTicketFields(c, s) == AskStatus(c, "staff", s)
SetStatus(c, s) == AskStatus(c, "system", s)

\* mergeTicket of this ticket into another one.
MergeTicket(c) ==
  /\ ~ticket.merged
  /\ Ask(c, "staff", [Touch EXCEPT !.status = "cancelled", !.merge = TRUE])

DeleteTicket(c) == Ask(c, "staff", [Touch EXCEPT !.delete = TRUE])

FaultyReply(c) ==  \* forgets the approval
  IF ticket.status \in Settled
  THEN Ask(c, "requester", Reopening)
  ELSE AskStatus(c, "requester",
                 IF ticket.status = "pending" THEN "in_progress" ELSE "none")

RequesterReply(c) ==
  IF ticket.status \in Settled
  THEN Ask(c, "requester", Reopening)
  ELSE AskStatus(c, "requester",
                 IF ticket.status = "pending" /\ approval # "pending"
                 THEN "in_progress" ELSE "none")

SubmitFeedback(c, satisfied) ==
  /\ ticket.status \in Settled
  /\ Ask(c, "requester",
         IF satisfied
         THEN [Touch EXCEPT !.status = "closed",
                 !.resolvedAt = IF ticket.resolvedAt = 0 THEN Fresh
                                                    ELSE ticket.resolvedAt]
         ELSE Reopening)

\* resolveTicket looks at the status, then thinks, then acts on its decision.
ResolveTicket(c, decision) ==
  /\ ticket.status \notin Settled \cup {"cancelled"}
  /\ Ask(c, "system",
         CASE decision = "auto_resolve" ->
                [Touch EXCEPT !.status = "auto_resolved", !.resolvedAt = Fresh]
           [] decision = "suggest" -> [Touch EXCEPT !.status = "pending_agent"]
           [] decision = "escalate" -> [Touch EXCEPT !.status = "escalated"])

\* The scheduler works through a list it has read.  A running clock may be found
\* past its due date at any time.
SlaSweep(c) ==
  /\ ticket.status \in Active \cup {"escalated"}
  /\ ~ticket.paused /\ ~ticket.breached
  /\ Ask(c, "system", [Touch EXCEPT !.status = "escalated", !.breach = TRUE])

AutoCloseStale(c) ==
  /\ ticket.status \in {"auto_resolved", "resolved"}
  /\ ticket.resolvedAt # 0 /\ ticket.resolvedAt <= old
  /\ AskStatus(c, "system", "closed")

\* requestTicketApproval creates the approval, then asks for the hold.
RequestApproval(c) ==
  /\ approval = "none"
  /\ call[c] = Idle
  /\ approval' = "pending"
  /\ call' = [call EXCEPT ![c] = [pc |-> "asked", by |-> "system",
                                  patch |-> [Touch EXCEPT !.status = "pending"]]]
  /\ UNCHANGED <<load, ticket, writes, old, kills>>

\* decideTicketApproval finds the approval pending,
Decide(c, decision) ==
  /\ call[c] = Idle
  /\ ~ticket.deleted /\ approval = "pending"
  /\ call' = [call EXCEPT ![c] = [pc |-> "deciding", decision |-> decision]]
  /\ UNCHANGED <<load, ticket, approval, writes, old, kills>>

\* records the decision, and asks for what follows from it.
RecordDecision(c) ==
  /\ call[c].pc = "deciding"
  /\ approval' = call[c].decision
  /\ call' = [call EXCEPT ![c] =
                [pc |-> "asked", by |-> "approver",
                 patch |-> [Touch EXCEPT
                   !.status = IF call[c].decision = "rejected" THEN "cancelled"
                                                               ELSE "open"]]]
  /\ UNCHANGED <<load, ticket, writes, old, kills>>

-----------------------------------------------------------------------------
(* mutateTicket *)

Changes(row, p) == p.status # "none" /\ p.status # row.status

FaultyPaused(row, p) ==  \* forgets to resume the clock
  ticket.paused \/ (Changes(row, p) /\ p.status = "pending")

\* slaPausePatch, judged on the row that was read.
PausedAfter(row, p) ==
  CASE Changes(row, p) /\ p.status = "pending" /\ ~row.paused -> TRUE
    [] Changes(row, p) /\ row.status = "pending" /\ row.paused -> FALSE
    [] OTHER -> ticket.paused

FaultyStamp(row, p) ==  \* writes a stamp that was left out
  IF p.resolvedAt = Fresh THEN writes + 1 ELSE p.resolvedAt

ResolvedAtAfter(row, p) ==
  CASE p.resolvedAt = Fresh -> writes + 1
    [] p.resolvedAt \in Nat -> p.resolvedAt
    [] OTHER ->
         IF Changes(row, p) /\ p.status \in Settled /\ row.resolvedAt = 0
         THEN writes + 1
         ELSE IF Changes(row, p) /\ p.status = "reopened" THEN 0
         ELSE ticket.resolvedAt

ReadCurrent(c) ==
  /\ call[c].pc = "asked"
  /\ call' = [call EXCEPT ![c] =
                IF ticket.deleted THEN Idle
                ELSE [pc |-> "read", by |-> call[c].by,
                      patch |-> call[c].patch, row |-> ticket]]
  /\ UNCHANGED <<load, ticket, approval, writes, old, kills>>

Written(row, p) ==
  [status |-> IF p.status = "none" THEN ticket.status ELSE p.status,
   resolvedAt |-> ResolvedAtAfter(row, p),
   paused |-> PausedAfter(row, p),
   breached |-> ticket.breached \/ p.breach,
   merged |-> ticket.merged \/ p.merge,
   deleted |-> ticket.deleted \/ p.delete]

FaultyEligible(row, p) == TRUE  \* does not read again

\* Only a resolution reads the row again in its transaction.
Eligible(row, p) ==
  p.status = "resolved" =>
    /\ ticket.status = row.status
    /\ ticket.resolvedAt = row.resolvedAt
    /\ ticket.status # "resolved"

Commit(c) ==
  /\ call[c].pc = "read"
  /\ LET row == call[c].row
         p == call[c].patch
     IN IF Eligible(row, p)
        THEN /\ ticket' = Written(row, p)
             /\ writes' = writes + 1
        ELSE UNCHANGED <<ticket, writes>>
  /\ call' = [call EXCEPT ![c] = Idle]
  /\ UNCHANGED <<load, approval, old, kills>>

-----------------------------------------------------------------------------
(* What happens around the calls *)

\* A call fails between its steps, or its process ends: what it has written stays.
Kill(c) ==
  /\ call[c] # Idle /\ kills < load.kills
  /\ call' = [call EXCEPT ![c] = Idle]
  /\ kills' = kills + 1
  /\ UNCHANGED <<load, ticket, approval, writes, old>>

\* Seven days go by.
WeekPasses ==
  /\ old < writes
  /\ old' = writes
  /\ UNCHANGED <<load, ticket, approval, call, writes, kills>>

StaffAsks(c) ==
  \/ \E public \in BOOLEAN : AgentReply(c, public)
  \/ AgentResolve(c)
  \/ AgentClose(c)
  \/ ReopenTicket(c, "staff")
  \/ EscalateTicket(c)
  \/ AssignTicket(c)
  \/ \E s \in load.statuses : UpdateTicketFields(c, s) \/ SetStatus(c, s)
  \/ MergeTicket(c)
  \/ DeleteTicket(c)

OthersAsk(c) ==
  \/ RequesterReply(c)
  \/ ReopenTicket(c, "requester")
  \/ \E satisfied \in BOOLEAN : SubmitFeedback(c, satisfied)
  \/ \E decision \in {"auto_resolve", "suggest", "escalate"} :
       ResolveTicket(c, decision)
  \/ SlaSweep(c)
  \/ RequestApproval(c)
  \/ \E decision \in {"approved", "rejected"} : Decide(c, decision)

CloseStale(c) == c \in load.calls /\ AutoCloseStale(c)

Continue(c) == RecordDecision(c) \/ ReadCurrent(c) \/ Commit(c)

Next ==
  \/ \E c \in Calls :
       \/ writes < load.writes /\ c \in load.calls /\ (StaffAsks(c) \/ OthersAsk(c))
       \/ CloseStale(c)
       \/ Continue(c)
       \/ Kill(c)
  \/ WeekPasses

Spec == Init /\ [][Next]_vars

\* A call that is not killed goes on; weeks pass; the scheduler ticks for ever.  Its
\* fairness is strong because the code has no slots: the scheduler does not wait
\* for other calls to end.
Fairness ==
  /\ \A c \in Calls : WF_vars(Continue(c))
  /\ WF_vars(WeekPasses)
  /\ SF_vars(\E c \in Calls : CloseStale(c))
FairSpec == Spec /\ Fairness

-----------------------------------------------------------------------------
(* Properties *)

\* The row, the approval and the calls have the types they are declared with.
TypeOK ==
  /\ ticket \in Ticket
  /\ approval \in {"none", "pending", "approved", "rejected"}
  /\ call \in [Calls -> CallState]
  /\ load \in Loads
  /\ writes \in Nat /\ old \in Nat /\ kills \in 0..load.kills

\* The properties that name Alone are those of calls that follow one another; the
\* others hold whatever overlaps.
Alone == Cardinality(load.calls) = 1

\* The SLA clock is stopped exactly while the ticket is pending, and a settled ticket
\* says when it was resolved: without that the scheduler would never close it.
InStep ==
  Alone => /\ ticket.paused <=> ticket.status = "pending"
           /\ ticket.status \in Settled => ticket.resolvedAt # 0

\* Of a ticket an agent resolved the stamp survives overlapping calls: only a
\* resolution reads the row again inside its transaction.
ResolvedStamped == ticket.status = "resolved" => ticket.resolvedAt # 0

\* A step that ends a call, for instance a requester's, in mutateTicket.
Wrote(by) == \E c \in Calls : call[c].pc = "read" /\ call[c].by = by
                              /\ call'[c] = Idle

\* A requester's reply gets no ticket past its approval: it neither sets going a
\* request that waits for its approver nor resurrects a cancelled one, such as a
\* request that was rejected.
HeldForApproval ==
  [][/\ Alone /\ ticket'.status # ticket.status
     /\ \/ ticket.status = "cancelled"
        \/ ticket.status = "pending" /\ approval = "pending"
     => ~Wrote("requester")]_vars

\* A ticket an agent resolved does not stay resolved for ever.
ResolvedCloses ==
  ticket.status = "resolved" ~> ticket.status # "resolved" \/ ticket.deleted
=============================================================================
