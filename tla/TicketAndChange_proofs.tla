----------------------- MODULE TicketAndChange_proofs -----------------------
(***************************************************************************)
(* Proofs about the two records that are written without a version and     *)
(* that an approval holds back: a ticket without the bucket workflow       *)
(* (LegacyTicket) and a change (ChangeControl), for any number of calls,   *)
(* any statuses asked for and any bounds.                                  *)
(*                                                                         *)
(* As nothing is checked when the row is written, nothing is known of what *)
(* a call has read once another call has written.  What can be proved of   *)
(* overlapping calls on a ticket rests on the shape of the patches they    *)
(* carry and on the second read of a resolution; the rest is about calls   *)
(* that follow one another, where the row that was read is the row that is *)
(* there (Current).  Of a change, only decisions on different approvals    *)
(* may overlap: then each pending approval belongs to one call at most,    *)
(* and the call that decides the last one finds none pending (Calm).       *)
(***************************************************************************)
EXTENDS LegacyTicket, ChangeControl, FiniteSetTheorems, TLAPS

-----------------------------------------------------------------------------
(* The ticket: what the callers ask for *)

\* A stamp is taken away by a reopening only, written with a settled status
\* only, and a resolution never carries an earlier one.
Sound(p) ==
  /\ p.resolvedAt = 0 => p.status = "reopened"
  /\ p.status \notin Settled \cup {"reopened"} => p.resolvedAt = Keep
  /\ p.status = "resolved" => p.resolvedAt \in {Keep, Fresh}

\* What a requester asks for fits the ticket as it is.
Fits(by, p) ==
  by = "requester" =>
    \/ p.status = "none"
    \/ ticket.status \in Settled
    \/ ticket.status = "pending" /\ approval # "pending"

Request(by, p) == [pc |-> "asked", by |-> by, patch |-> p]

\* Slot c asks for patch p in the name of by.
Asks(c, by, p) ==
  /\ by \in Actors /\ p \in Patch /\ Sound(p) /\ Fits(by, p)
  /\ call' = [call EXCEPT ![c] = Request(by, p)]
  /\ \/ approval' = approval
     \/ approval' = "pending" /\ by # "requester"

\* Slot c starts to decide.
Decides(c) ==
  /\ \E decision \in {"approved", "rejected"} :
       call' = [call EXCEPT ![c] = [pc |-> "deciding", decision |-> decision]]
  /\ approval' = approval

Starts(c) == Decides(c) \/ \E by, p : Asks(c, by, p)

LEMMA AskStarts ==
  ASSUME NEW c \in Calls, NEW by \in Actors, NEW p \in Patch, Ask(c, by, p),
         Sound(p), Fits(by, p)
  PROVE  Starts(c)
<1>1. Asks(c, by, p)
  BY DEF Ask, Asks, Request
<1>2. QED
  BY <1>1 DEF Starts

LEMMA StatusStarts ==
  ASSUME NEW c \in Calls, NEW by \in Actors \ {"requester"},
         NEW s \in Statuses \cup {"none"}, AskStatus(c, by, s)
  PROVE  Starts(c)
<1> DEFINE p == [Touch EXCEPT !.status = s]
<1>1. p \in Patch /\ p.status = s /\ p.resolvedAt = Keep
  BY DEF Touch, Patch, Keep
<1>2. Ask(c, by, p)
  BY DEF AskStatus
<1> HIDE DEF p
<1>3. Sound(p) /\ Fits(by, p)
  BY <1>1 DEF Sound, Fits, Keep
<1>4. QED
  BY <1>1, <1>2, <1>3, AskStarts

LEMMA StampStarts ==
  ASSUME NEW c \in Calls, NEW by \in Actors, NEW s \in Settled,
         NEW at \in (Nat \ {0}) \cup {Fresh}, s = "resolved" => at = Fresh,
         by = "requester" => ticket.status \in Settled,
         Ask(c, by, [Touch EXCEPT !.status = s, !.resolvedAt = at])
  PROVE  Starts(c)
<1> DEFINE p == [Touch EXCEPT !.status = s, !.resolvedAt = at]
<1>1. p \in Patch /\ p.status = s /\ p.resolvedAt = at
  BY DEF Touch, Patch, Settled, Statuses
<1>2. Ask(c, by, p)
  OBVIOUS
<1> HIDE DEF p
<1>3. Sound(p) /\ Fits(by, p)
  BY <1>1 DEF Sound, Fits, Fresh
<1>4. QED
  BY <1>1, <1>2, <1>3, AskStarts

LEMMA ReopeningStarts ==
  ASSUME NEW c \in Calls, NEW by \in Actors, ticket.status \in Settled,
         Ask(c, by, Reopening)
  PROVE  Starts(c)
<1>1. /\ Reopening \in Patch
      /\ Reopening.status = "reopened" /\ Reopening.resolvedAt = 0
  BY DEF Reopening, Touch, Patch, Statuses
<1>2. Sound(Reopening) /\ Fits(by, Reopening)
  BY <1>1 DEF Sound, Fits
<1>3. QED
  BY <1>1, <1>2, AskStarts

LEMMA StaffStarts ==
  ASSUME TypeOK, NEW c \in Calls, StaffAsks(c)
  PROVE  Starts(c)
<1>0. /\ ticket.resolvedAt \in Nat /\ ticket.status \in Statuses
      /\ load.statuses \subseteq Statuses
      /\ {"staff", "requester", "system"} \subseteq Actors
  BY BoundsAssumption DEF TypeOK, Ticket, Actors
<1>1. ASSUME NEW public \in BOOLEAN, AgentReply(c, public)
      PROVE  Starts(c)
  BY <1>0, <1>1, StatusStarts DEF AgentReply, Statuses
<1>2. CASE AgentResolve(c)
  BY <1>0, <1>2, StampStarts DEF AgentResolve, Settled
<1>3. CASE AgentClose(c)
  <2> DEFINE at == IF ticket.resolvedAt = 0 THEN Fresh ELSE ticket.resolvedAt
  <2>1. at \in (Nat \ {0}) \cup {Fresh}
    BY <1>0
  <2>2. Ask(c, "staff", [Touch EXCEPT !.status = "closed", !.resolvedAt = at])
    BY <1>3 DEF AgentClose
  <2> HIDE DEF at
  <2>3. QED
    BY <1>0, <2>1, <2>2, StampStarts DEF Settled
<1>4. CASE ReopenTicket(c, "staff")
  BY <1>0, <1>4, ReopeningStarts DEF ReopenTicket
<1>5. CASE EscalateTicket(c)
  BY <1>0, <1>5, StatusStarts DEF EscalateTicket, Statuses
<1>6. CASE AssignTicket(c)
  BY <1>0, <1>6, StatusStarts DEF AssignTicket, Statuses
<1>7. ASSUME NEW s \in load.statuses, UpdateTicketFields(c, s) \/ SetStatus(c, s)
      PROVE  Starts(c)
  BY <1>0, <1>7, StatusStarts DEF UpdateTicketFields, SetStatus
<1>8. CASE MergeTicket(c)
  <2> DEFINE p == [Touch EXCEPT !.status = "cancelled", !.merge = TRUE]
  <2>1. p \in Patch /\ p.status = "cancelled" /\ p.resolvedAt = Keep
    BY DEF Touch, Patch, Statuses, Keep
  <2>2. Ask(c, "staff", p)
    BY <1>8 DEF MergeTicket
  <2> HIDE DEF p
  <2>3. Sound(p) /\ Fits("staff", p)
    BY <2>1 DEF Sound, Fits, Settled, Keep
  <2>4. QED
    BY <1>0, <2>1, <2>2, <2>3, AskStarts
<1>9. CASE DeleteTicket(c)
  <2> DEFINE p == [Touch EXCEPT !.delete = TRUE]
  <2>1. p \in Patch /\ p.status = "none" /\ p.resolvedAt = Keep
    BY DEF Touch, Patch, Statuses, Keep
  <2>2. Ask(c, "staff", p)
    BY <1>9 DEF DeleteTicket
  <2> HIDE DEF p
  <2>3. Sound(p) /\ Fits("staff", p)
    BY <2>1 DEF Sound, Fits, Settled, Keep
  <2>4. QED
    BY <1>0, <2>1, <2>2, <2>3, AskStarts
<1>10. QED
  BY <1>1, <1>2, <1>3, <1>4, <1>5, <1>6, <1>7, <1>8, <1>9 DEF StaffAsks

LEMMA OthersStart ==
  ASSUME TypeOK, NEW c \in Calls, OthersAsk(c) \/ AutoCloseStale(c)
  PROVE  Starts(c)
<1>0. /\ ticket.resolvedAt \in Nat /\ ticket.status \in Statuses
      /\ {"requester", "system"} \subseteq Actors
  BY DEF TypeOK, Ticket, Actors
<1>1. CASE RequesterReply(c)
  <2>1. CASE ticket.status \in Settled
    BY <1>0, <1>1, <2>1, ReopeningStarts DEF RequesterReply
  <2>2. CASE ticket.status \notin Settled
    <3> DEFINE s == IF ticket.status = "pending" /\ approval # "pending"
                    THEN "in_progress" ELSE "none"
               p == [Touch EXCEPT !.status = s]
    <3>1. Ask(c, "requester", p)
      BY <1>1, <2>2 DEF RequesterReply, AskStatus
    <3>2. /\ s \in {"none", "in_progress"}
          /\ s = "none" \/ (ticket.status = "pending" /\ approval # "pending")
      OBVIOUS
    <3> HIDE DEF s
    <3>3. p \in Patch /\ p.status = s /\ p.resolvedAt = Keep
      BY <3>2 DEF Touch, Patch, Statuses, Keep
    <3> HIDE DEF p
    <3>4. Sound(p) /\ Fits("requester", p)
      BY <3>2, <3>3 DEF Sound, Fits, Settled, Keep
    <3>5. QED
      BY <1>0, <3>1, <3>3, <3>4, AskStarts
  <2>3. QED
    BY <2>1, <2>2
<1>2. CASE ReopenTicket(c, "requester")
  BY <1>0, <1>2, ReopeningStarts DEF ReopenTicket
<1>3. ASSUME NEW satisfied \in BOOLEAN, SubmitFeedback(c, satisfied)
      PROVE  Starts(c)
  <2>1. CASE satisfied
    <3> DEFINE at == IF ticket.resolvedAt = 0 THEN Fresh ELSE ticket.resolvedAt
    <3>1. at \in (Nat \ {0}) \cup {Fresh}
      BY <1>0
    <3>2. /\ Ask(c, "requester",
                 [Touch EXCEPT !.status = "closed", !.resolvedAt = at])
          /\ ticket.status \in Settled
      BY <1>3, <2>1 DEF SubmitFeedback
    <3> HIDE DEF at
    <3>3. QED
      BY <1>0, <3>1, <3>2, StampStarts DEF Settled
  <2>2. CASE ~satisfied
    BY <1>0, <1>3, <2>2, ReopeningStarts DEF SubmitFeedback
  <2>3. QED
    BY <2>1, <2>2
<1>4. ASSUME NEW decision \in {"auto_resolve", "suggest", "escalate"},
             ResolveTicket(c, decision)
      PROVE  Starts(c)
  <2>1. CASE decision = "auto_resolve"
    BY <1>0, <1>4, <2>1, StampStarts DEF ResolveTicket, Settled
  <2>2. CASE decision = "suggest"
    <3>1. AskStatus(c, "system", "pending_agent")
      BY <1>4, <2>2 DEF ResolveTicket, AskStatus
    <3>2. QED
      BY <1>0, <3>1, StatusStarts DEF Statuses
  <2>3. CASE decision = "escalate"
    <3>1. AskStatus(c, "system", "escalated")
      BY <1>4, <2>3 DEF ResolveTicket, AskStatus
    <3>2. QED
      BY <1>0, <3>1, StatusStarts DEF Statuses
  <2>4. QED
    BY <2>1, <2>2, <2>3
<1>5. CASE SlaSweep(c)
  <2> DEFINE p == [Touch EXCEPT !.status = "escalated", !.breach = TRUE]
  <2>1. p \in Patch /\ p.status = "escalated" /\ p.resolvedAt = Keep
    BY DEF Touch, Patch, Statuses, Keep
  <2>2. Ask(c, "system", p)
    BY <1>5 DEF SlaSweep
  <2> HIDE DEF p
  <2>3. Sound(p) /\ Fits("system", p)
    BY <2>1 DEF Sound, Fits, Settled, Keep
  <2>4. QED
    BY <1>0, <2>1, <2>2, <2>3, AskStarts
<1>6. CASE RequestApproval(c)
  <2> DEFINE p == [Touch EXCEPT !.status = "pending"]
  <2>1. p \in Patch /\ p.status = "pending" /\ p.resolvedAt = Keep
    BY DEF Touch, Patch, Statuses, Keep
  <2>2. call' = [call EXCEPT ![c] = Request("system", p)]
    BY <1>6 DEF RequestApproval, Request
  <2> HIDE DEF p
  <2>3. Sound(p) /\ Fits("system", p)
    BY <2>1 DEF Sound, Fits, Settled, Keep
  <2>4. Asks(c, "system", p)
    BY <1>0, <1>6, <2>1, <2>2, <2>3 DEF RequestApproval, Asks
  <2>5. QED
    BY <2>4 DEF Starts
<1>7. ASSUME NEW decision \in {"approved", "rejected"}, Decide(c, decision)
      PROVE  Starts(c)
  BY <1>7 DEF Decide, Decides, Starts
<1>8. CASE AutoCloseStale(c)
  BY <1>0, <1>8, StatusStarts DEF AutoCloseStale, Statuses
<1>9. QED
  BY <1>1, <1>2, <1>3, <1>4, <1>5, <1>6, <1>7, <1>8 DEF OthersAsk

\* Who asks starts in an empty slot and writes nothing yet.
LEMMA StartFrame ==
  ASSUME NEW c \in Calls, StaffAsks(c) \/ OthersAsk(c) \/ AutoCloseStale(c)
  PROVE  call[c] = Idle /\ UNCHANGED <<load, ticket, writes, old, kills>>
BY DEF StaffAsks, OthersAsk, AutoCloseStale, AgentReply, AgentResolve,
       AgentClose, ReopenTicket, EscalateTicket, AssignTicket,
       UpdateTicketFields, SetStatus, MergeTicket, DeleteTicket,
       RequesterReply, SubmitFeedback, ResolveTicket, SlaSweep,
       RequestApproval, Decide, AskStatus, Ask

-----------------------------------------------------------------------------
(* Types *)

LEMMA CallShape ==
  ASSUME NEW x \in CallState
  PROVE  /\ x.pc = "deciding" => x.decision \in {"approved", "rejected"}
         /\ x.pc = "asked" => x.by \in Actors /\ x.patch \in Patch
         /\ x.pc = "read" => x.by \in Actors /\ x.patch \in Patch /\ x.row \in Ticket
BY DEF CallState, Idle

\* Whatever was read, what is written is a row.
LEMMA WrittenType ==
  ASSUME ticket \in Ticket, writes \in Nat, NEW row \in Ticket, NEW p \in Patch
  PROVE  Written(row, p) \in Ticket
<1>1. ResolvedAtAfter(row, p) \in Nat
  BY DEF ResolvedAtAfter, Patch, Ticket, Fresh, Keep
<1>2. PausedAfter(row, p) \in BOOLEAN
  BY DEF PausedAfter, Ticket
<1>3. (IF p.status = "none" THEN ticket.status ELSE p.status) \in Statuses
  BY DEF Patch, Ticket
<1>4. /\ (ticket.breached \/ p.breach) \in BOOLEAN
      /\ (ticket.merged \/ p.merge) \in BOOLEAN
      /\ (ticket.deleted \/ p.delete) \in BOOLEAN
  BY Zenon DEF Patch, Ticket
<1>5. QED
  BY <1>1, <1>2, <1>3, <1>4 DEF Written, Ticket

\* The answer to what an approver decides.
Outcome(decision) ==
  [Touch EXCEPT !.status = IF decision = "rejected" THEN "cancelled" ELSE "open"]

LEMMA OutcomeShape ==
  ASSUME NEW decision
  PROVE  /\ Outcome(decision) \in Patch
         /\ Outcome(decision).status \in {"cancelled", "open"}
         /\ Sound(Outcome(decision))
<1>1. /\ Outcome(decision) \in Patch
      /\ Outcome(decision).status \in {"cancelled", "open"}
      /\ Outcome(decision).resolvedAt = Keep
  BY DEF Outcome, Touch, Patch, Statuses, Keep
<1>2. QED
  BY <1>1 DEF Sound, Settled, Keep

\* Every step is one of these.
LEMMA StepKinds ==
  ASSUME Next
  PROVE  \/ \E c \in Calls :
              \/ /\ c \in load.calls
                 /\ StaffAsks(c) \/ OthersAsk(c) \/ AutoCloseStale(c)
              \/ RecordDecision(c)
              \/ ReadCurrent(c)
              \/ Commit(c)
              \/ Kill(c)
         \/ WeekPasses
BY DEF Next, CloseStale, Continue

LEMMA TypeStep ==
  ASSUME TypeOK, [Next]_vars
  PROVE  TypeOK'
<1> USE DEF TypeOK
<1>1. ASSUME NEW c \in Calls, StaffAsks(c) \/ OthersAsk(c) \/ AutoCloseStale(c)
      PROVE  TypeOK'
  <2>1. UNCHANGED <<load, ticket, writes, old, kills>>
    BY <1>1, StartFrame
  <2>2. Starts(c)
    BY <1>1, StaffStarts, OthersStart
  <2>3. CASE Decides(c)
    BY <2>1, <2>3 DEF Decides, CallState
  <2>4. ASSUME NEW by, NEW p, Asks(c, by, p)
        PROVE  TypeOK'
    <3>1. Request(by, p) \in CallState
      BY <2>4 DEF Asks, Request, CallState
    <3>2. call' \in [Calls -> CallState]
      BY <2>4, <3>1 DEF Asks
    <3>3. QED
      BY <2>1, <2>4, <3>2 DEF Asks
  <2>5. QED
    BY <2>2, <2>3, <2>4 DEF Starts
<1>2. ASSUME NEW c \in Calls, RecordDecision(c)
      PROVE  TypeOK'
  <2>1. approval' \in {"approved", "rejected"}
    BY <1>2, CallShape DEF RecordDecision
  <2>2. call' = [call EXCEPT ![c] = Request("approver", Outcome(call[c].decision))]
    BY <1>2 DEF RecordDecision, Request, Outcome
  <2>3. Request("approver", Outcome(call[c].decision)) \in CallState
    BY OutcomeShape DEF Request, CallState, Actors
  <2>4. call' \in [Calls -> CallState]
    BY <2>2, <2>3
  <2>5. QED
    BY <1>2, <2>1, <2>4 DEF RecordDecision
<1>3. ASSUME NEW c \in Calls, ReadCurrent(c)
      PROVE  TypeOK'
  <2>1. call[c].by \in Actors /\ call[c].patch \in Patch
    BY <1>3, CallShape DEF ReadCurrent
  <2> DEFINE x == [pc |-> "read", by |-> call[c].by,
                   patch |-> call[c].patch, row |-> ticket]
  <2>2. x \in CallState /\ Idle \in CallState
    BY <2>1 DEF CallState
  <2>3. call' = [call EXCEPT ![c] = IF ticket.deleted THEN Idle ELSE x]
    BY <1>3 DEF ReadCurrent
  <2> HIDE DEF x
  <2>4. call' \in [Calls -> CallState]
    BY <2>2, <2>3
  <2>5. QED
    BY <1>3, <2>4 DEF ReadCurrent
<1>4. ASSUME NEW c \in Calls, Commit(c)
      PROVE  TypeOK'
  <2>1. call[c].patch \in Patch /\ call[c].row \in Ticket
    BY <1>4, CallShape DEF Commit
  <2>2. Written(call[c].row, call[c].patch) \in Ticket
    BY <2>1, WrittenType
  <2>3. ticket' \in Ticket /\ writes' \in Nat
    BY <1>4, <2>2 DEF Commit
  <2>4. call' \in [Calls -> CallState]
    BY <1>4 DEF Commit, CallState
  <2>5. QED
    BY <1>4, <2>3, <2>4 DEF Commit
<1>5. ASSUME NEW c \in Calls, Kill(c)
      PROVE  TypeOK'
  <2>1. load.kills \in Nat
    BY BoundsAssumption
  <2>2. call' \in [Calls -> CallState]
    BY <1>5 DEF Kill, CallState
  <2>3. QED
    BY <1>5, <2>1, <2>2 DEF Kill
<1>6. CASE WeekPasses
  BY <1>6 DEF WeekPasses
<1>7. CASE UNCHANGED vars
  BY <1>7 DEF vars
<1>8. QED
  BY <1>1, <1>2, <1>3, <1>4, <1>5, <1>6, <1>7, StepKinds

LEMMA TypeInit ==
  ASSUME Init
  PROVE  TypeOK
<1>1. load.kills \in Nat
  BY BoundsAssumption DEF Init
<1>2. ticket \in Ticket
  BY DEF Init, Ticket, Statuses
<1>3. QED
  BY <1>1, <1>2 DEF Init, TypeOK, CallState

\* The row, the approval and the calls always have the types they are declared
\* with, whatever the calls in flight do to one another (mutateTicket and its
\* callers).
THEOREM LegacyTypes == Spec => []TypeOK
<1>1. Init => TypeOK
  BY TypeInit
<1>2. TypeOK /\ [Next]_vars => TypeOK'
  BY TypeStep
<1>3. QED
  BY <1>1, <1>2, PTL DEF Spec

-----------------------------------------------------------------------------
(* The stamp of a resolution, whatever overlaps *)

InFlight(c) == call[c].pc \in {"asked", "read"}

\* Every call in flight carries a sound patch.
Shaped == \A c \in Calls : InFlight(c) => Sound(call[c].patch)

\* A resolution looks at the row again in its transaction, so that what it leaves
\* of the stamp is what it saw.
LEMMA ResolutionStamps ==
  ASSUME ticket \in Ticket, writes \in Nat, NEW row \in Ticket, NEW p \in Patch,
         Sound(p), Eligible(row, p), ResolvedStamped,
         Written(row, p).status = "resolved"
  PROVE  Written(row, p).resolvedAt # 0
<1> DEFINE at == ResolvedAtAfter(row, p)
<1>1. /\ Written(row, p).resolvedAt = at
      /\ (IF p.status = "none" THEN ticket.status ELSE p.status) = "resolved"
  BY DEF Written
<1>2. CASE p.status = "none"
  <2>1. p.resolvedAt = Keep /\ ticket.status = "resolved"
    BY <1>1, <1>2 DEF Sound, Settled
  <2>2. at = ticket.resolvedAt
    BY <1>2, <2>1 DEF ResolvedAtAfter, Changes, Keep, Fresh
  <2>3. QED
    BY <1>1, <2>1, <2>2 DEF ResolvedStamped
<1>3. CASE p.status = "resolved"
  <2>1. /\ p.resolvedAt \in {Keep, Fresh}
        /\ Changes(row, p)
        /\ ticket.resolvedAt = row.resolvedAt
    BY <1>3 DEF Sound, Eligible, Changes
  <2>2. at = IF p.resolvedAt = Fresh \/ ticket.resolvedAt = 0
             THEN writes + 1 ELSE ticket.resolvedAt
    BY <1>3, <2>1 DEF ResolvedAtAfter, Keep, Fresh, Settled
  <2>3. QED
    BY <1>1, <2>2 DEF Ticket
<1>4. QED
  BY <1>1, <1>2, <1>3

\* What a step does to the patches in flight.
LEMMA ShapedStep ==
  ASSUME TypeOK, Shaped, [Next]_vars
  PROVE  Shaped'
<1> USE DEF TypeOK, Shaped, InFlight
<1>1. ASSUME NEW c \in Calls, StaffAsks(c) \/ OthersAsk(c) \/ AutoCloseStale(c)
      PROVE  Shaped'
  BY <1>1, StaffStarts, OthersStart DEF Starts, Decides, Asks, Request
<1>2. ASSUME NEW c \in Calls, RecordDecision(c)
      PROVE  Shaped'
  <2>1. call' = [call EXCEPT ![c] = Request("approver", Outcome(call[c].decision))]
    BY <1>2 DEF RecordDecision, Request, Outcome
  <2>2. QED
    BY <2>1, OutcomeShape DEF Request
<1>3. ASSUME NEW c \in Calls, ReadCurrent(c)
      PROVE  Shaped'
  BY <1>3 DEF ReadCurrent, Idle
<1>4. ASSUME NEW c \in Calls, Commit(c) \/ Kill(c)
      PROVE  Shaped'
  BY <1>4 DEF Commit, Kill, Idle
<1>5. CASE WeekPasses \/ UNCHANGED vars
  BY <1>5 DEF WeekPasses, vars
<1>6. QED
  BY <1>1, <1>2, <1>3, <1>4, <1>5, StepKinds

\* Only the write of a call touches the row.
LEMMA OnlyCommitWrites ==
  ASSUME [Next]_vars
  PROVE  ticket' = ticket \/ \E c \in Calls : Commit(c)
<1>1. ASSUME NEW c \in Calls, StaffAsks(c) \/ OthersAsk(c) \/ AutoCloseStale(c)
      PROVE  ticket' = ticket
  BY <1>1, StartFrame
<1>2. ASSUME NEW c \in Calls, RecordDecision(c) \/ ReadCurrent(c) \/ Kill(c)
      PROVE  ticket' = ticket
  BY <1>2 DEF RecordDecision, ReadCurrent, Kill
<1>3. CASE WeekPasses \/ UNCHANGED vars
  BY <1>3 DEF WeekPasses, vars
<1>4. QED
  BY <1>1, <1>2, <1>3, StepKinds

StampInv == Shaped /\ ResolvedStamped

LEMMA StampStep ==
  ASSUME TypeOK, StampInv, [Next]_vars
  PROVE  StampInv'
<1>1. Shaped'
  BY ShapedStep DEF StampInv
<1>2. CASE ticket' = ticket
  BY <1>1, <1>2 DEF StampInv, ResolvedStamped
<1>3. ASSUME NEW c \in Calls, Commit(c), ticket' # ticket
      PROVE  ResolvedStamped'
  <2> DEFINE row == call[c].row
             p == call[c].patch
  <2>1. row \in Ticket /\ p \in Patch
    BY <1>3, CallShape DEF Commit, TypeOK
  <2>2. Sound(p)
    BY <1>3 DEF Commit, StampInv, Shaped, InFlight
  <2>3. Eligible(row, p) /\ ticket' = Written(row, p)
    BY <1>3 DEF Commit
  <2>4. ticket \in Ticket /\ writes \in Nat /\ ResolvedStamped
    BY DEF TypeOK, StampInv
  <2> HIDE DEF row, p
  <2>5. Written(row, p).status = "resolved" => Written(row, p).resolvedAt # 0
    BY <2>1, <2>2, <2>3, <2>4, ResolutionStamps
  <2>6. QED
    BY <2>3, <2>5 DEF ResolvedStamped
<1>4. QED
  BY <1>1, <1>2, <1>3, OnlyCommitWrites DEF StampInv

\* A resolved ticket has its stamp whatever calls overlap on the row that has no
\* version (agentResolve, resolveTicket, updateTicketFields and the second read in
\* mutateTicket): the scheduler will find it.
THEOREM ResolutionKeepsStamp == Spec => []ResolvedStamped
<1>1. Init => TypeOK /\ StampInv
  <2>1. ASSUME Init
        PROVE  Shaped /\ ResolvedStamped
    BY <2>1 DEF Init, Shaped, InFlight, Idle, ResolvedStamped
  <2>2. QED
    BY <2>1, TypeInit DEF StampInv
<1>2. TypeOK /\ StampInv /\ [Next]_vars => TypeOK' /\ StampInv'
  BY TypeStep, StampStep
<1>3. StampInv => ResolvedStamped
  BY DEF StampInv
<1>4. QED
  BY <1>1, <1>2, <1>3, PTL DEF Spec

-----------------------------------------------------------------------------
(* Calls that follow one another *)

\* Slots that are not in use stay empty.
SpareEmpty == \A c \in Calls \ load.calls : call[c] = Idle

\* What a call has read is what there is, and what it asks for fits.
Current(c) ==
  /\ InFlight(c) => Fits(call[c].by, call[c].patch)
  /\ call[c].pc = "read" => call[c].row = ticket

SerialInv ==
  /\ SpareEmpty
  /\ Alone => \A c \in Calls : Current(c)
  /\ InStep

LEMMA OneSlot ==
  ASSUME TypeOK, Alone
  PROVE  \E k \in Calls : load.calls = {k}
<1>1. IsFiniteSet(load.calls) /\ load.calls \subseteq Calls
  BY FS_Subset, BoundsAssumption DEF TypeOK
<1>2. \E k : load.calls = {k}
  BY <1>1, FS_Singleton DEF Alone
<1>3. QED
  BY <1>1, <1>2

LEMMA UnusedStep ==
  ASSUME TypeOK, SpareEmpty, [Next]_vars
  PROVE  SpareEmpty' /\ load' = load
<1> USE DEF TypeOK, SpareEmpty
<1>1. ASSUME NEW c \in Calls, c \in load.calls,
             StaffAsks(c) \/ OthersAsk(c) \/ AutoCloseStale(c)
      PROVE  SpareEmpty' /\ load' = load
  <2>1. load' = load
    BY <1>1, StartFrame
  <2>2. Starts(c)
    BY <1>1, StaffStarts, OthersStart
  <2>3. \A d \in Calls \ {c} : call'[d] = call[d]
    BY <2>2 DEF Starts, Decides, Asks
  <2>4. QED
    BY <1>1, <2>1, <2>3
<1>2. ASSUME NEW c \in Calls, RecordDecision(c) \/ ReadCurrent(c) \/ Commit(c) \/ Kill(c)
      PROVE  SpareEmpty' /\ load' = load
  <2>1. call[c] # Idle /\ load' = load
    BY <1>2 DEF RecordDecision, ReadCurrent, Commit, Kill, Idle
  <2>2. \A d \in Calls \ {c} : call'[d] = call[d]
    BY <1>2 DEF RecordDecision, ReadCurrent, Commit, Kill
  <2>3. QED
    BY <2>1, <2>2
<1>3. CASE WeekPasses \/ UNCHANGED vars
  BY <1>3 DEF WeekPasses, vars
<1>4. QED
  BY <1>1, <1>2, <1>3, StepKinds

\* In the one slot that is used, a call stays current until it ends.
LEMMA CurrentStep ==
  ASSUME TypeOK, SerialInv, Alone, [Next]_vars, NEW k \in Calls, load.calls = {k}
  PROVE  Current(k)'
<1> USE DEF TypeOK
<1>0. /\ Current(k)
      /\ \A c \in Calls \ {k} : call[c] = Idle
  BY DEF SerialInv, SpareEmpty
<1>1. ASSUME StaffAsks(k) \/ OthersAsk(k) \/ AutoCloseStale(k)
      PROVE  Current(k)'
  <2>1. ticket' = ticket
    BY <1>1, StartFrame
  <2>2. Starts(k)
    BY <1>1, StaffStarts, OthersStart
  <2>3. CASE Decides(k)
    BY <2>3 DEF Decides, Current, InFlight
  <2>4. ASSUME NEW by, NEW p, Asks(k, by, p)
        PROVE  Current(k)'
    <3>1. Fits(by, p)'
      BY <2>1, <2>4 DEF Asks, Fits
    <3>2. call'[k] = Request(by, p)
      BY <2>4 DEF Asks
    <3>3. call'[k].pc = "asked" /\ call'[k].by = by /\ call'[k].patch = p
      BY <3>2 DEF Request
    <3>4. Fits(call[k].by, call[k].patch)'
      BY <3>1, <3>3 DEF Fits
    <3>5. QED
      BY <3>3, <3>4 DEF Current
  <2>5. QED
    BY <2>2, <2>3, <2>4 DEF Starts
<1>2. CASE RecordDecision(k)
  <2>1. call'[k] = Request("approver", Outcome(call[k].decision))
    BY <1>2 DEF RecordDecision, Request, Outcome
  <2>2. call'[k].pc = "asked" /\ call'[k].by = "approver"
    BY <2>1 DEF Request
  <2>3. QED
    BY <2>2 DEF Current, Fits
<1>3. CASE ReadCurrent(k)
  <2>1. CASE ticket.deleted
    BY <1>3, <2>1 DEF ReadCurrent, Current, InFlight, Idle
  <2>2. CASE ~ticket.deleted
    <3>1. call'[k] = [pc |-> "read", by |-> call[k].by,
                      patch |-> call[k].patch, row |-> ticket]
      BY <1>3, <2>2 DEF ReadCurrent
    <3>2. /\ call'[k].by = call[k].by /\ call'[k].patch = call[k].patch
          /\ call'[k].row = ticket
          /\ ticket' = ticket /\ approval' = approval
      BY <1>3, <3>1 DEF ReadCurrent
    <3>3. Fits(call[k].by, call[k].patch)
      BY <1>0, <1>3 DEF Current, InFlight, ReadCurrent
    <3>4. Fits(call[k].by, call[k].patch)'
      BY <3>2, <3>3 DEF Fits
    <3>5. QED
      BY <3>2, <3>4 DEF Current
  <2>3. QED
    BY <2>1, <2>2
<1>4. CASE Commit(k) \/ Kill(k)
  <2>1. call'[k] = Idle
    BY <1>4 DEF Commit, Kill
  <2>2. QED
    BY <2>1 DEF Current, InFlight, Idle
<1>5. CASE WeekPasses \/ UNCHANGED vars
  <2>1. call' = call /\ ticket' = ticket /\ approval' = approval
    BY <1>5 DEF WeekPasses, vars
  <2>2. QED
    BY <1>0, <2>1 DEF Current, InFlight, Fits
<1>6. ASSUME NEW c \in Calls, RecordDecision(c) \/ ReadCurrent(c) \/ Commit(c) \/ Kill(c)
      PROVE  c = k
  BY <1>0, <1>6 DEF RecordDecision, ReadCurrent, Commit, Kill, Idle
<1>7. QED
  BY <1>1, <1>2, <1>3, <1>4, <1>5, <1>6, StepKinds

\* A write over the very row that was read keeps the clock and the stamp in step.
LEMMA WriteInStep ==
  ASSUME ticket \in Ticket, writes \in Nat, NEW p \in Patch, Sound(p),
         ticket.paused <=> ticket.status = "pending",
         ticket.status \in Settled => ticket.resolvedAt # 0
  PROVE  LET w == Written(ticket, p)
         IN  /\ w.paused <=> w.status = "pending"
             /\ w.status \in Settled => w.resolvedAt # 0
<1> DEFINE w == Written(ticket, p)
<1>1. /\ w.status = IF p.status = "none" THEN ticket.status ELSE p.status
      /\ w.resolvedAt = ResolvedAtAfter(ticket, p)
      /\ w.paused = PausedAfter(ticket, p)
  BY DEF Written
<1>2. Changes(ticket, p) <=> w.status # ticket.status
  BY <1>1 DEF Changes
<1> HIDE DEF w
<1>3. w.paused <=> w.status = "pending"
  <2>1. CASE ~Changes(ticket, p)
    BY <1>1, <1>2, <2>1 DEF PausedAfter
  <2>2. CASE Changes(ticket, p)
    <3>1. w.status = p.status /\ p.status # ticket.status
      BY <1>1, <2>2 DEF Changes
    <3>2. CASE p.status = "pending"
      BY <1>1, <2>2, <3>1, <3>2 DEF PausedAfter
    <3>3. CASE p.status # "pending"
      BY <1>1, <2>2, <3>1, <3>3 DEF PausedAfter
    <3>4. QED
      BY <3>2, <3>3
  <2>3. QED
    BY <2>1, <2>2
<1>4. ASSUME w.status \in Settled
      PROVE  w.resolvedAt # 0
  <2>0. p.resolvedAt \in Nat \cup {Keep, Fresh} /\ ticket.resolvedAt \in Nat
    BY DEF Patch, Ticket
  <2>1. CASE p.status = "none"
    <3>1. p.resolvedAt = Keep /\ ~Changes(ticket, p)
      BY <2>1 DEF Sound, Settled, Changes
    <3>2. w.resolvedAt = ticket.resolvedAt
      BY <1>1, <3>1 DEF ResolvedAtAfter, Keep, Fresh
    <3>3. QED
      BY <1>1, <1>4, <2>1, <3>2
  <2>2. CASE p.status # "none"
    <3>1. w.status = p.status /\ p.status \in Settled
      BY <1>1, <1>4, <2>2
    <3>2. p.resolvedAt # 0 /\ p.status # "reopened"
      BY <3>1 DEF Sound, Settled
    <3>3. CASE p.resolvedAt = Fresh
      <4>1. ResolvedAtAfter(ticket, p) = writes + 1
        BY <3>3 DEF ResolvedAtAfter, Fresh
      <4>2. QED
        BY <1>1, <4>1
    <3>4. CASE p.resolvedAt \in Nat
      BY <1>1, <3>2, <3>4 DEF ResolvedAtAfter, Fresh
    <3>5. CASE p.resolvedAt = Keep
      <4>1. ResolvedAtAfter(ticket, p) =
              IF Changes(ticket, p) /\ ticket.resolvedAt = 0
              THEN writes + 1 ELSE ticket.resolvedAt
        BY <3>1, <3>2, <3>5 DEF ResolvedAtAfter, Keep, Fresh
      <4>2. ~Changes(ticket, p) => ticket.resolvedAt # 0
        BY <1>2, <1>4
      <4>3. QED
        BY <1>1, <2>0, <4>1, <4>2
    <3>6. QED
      BY <2>0, <3>3, <3>4, <3>5
  <2>3. QED
    BY <2>1, <2>2
<1>5. QED
  BY <1>3, <1>4 DEF w

LEMMA SerialStep ==
  ASSUME TypeOK, StampInv, SerialInv, [Next]_vars
  PROVE  SerialInv'
<1>1. SpareEmpty' /\ load' = load
  BY UnusedStep DEF SerialInv
<1>2. ASSUME Alone'
      PROVE  (\A c \in Calls : Current(c))' /\ InStep'
  <2>1. Alone
    BY <1>1, <1>2 DEF Alone
  <2>2. PICK k \in Calls : load.calls = {k}
    BY <2>1, OneSlot
  <2>3. Current(k)'
    BY <2>1, <2>2, CurrentStep
  <2>4. ASSUME NEW c \in Calls, c # k
        PROVE  Current(c)'
    <3>1. call'[c] = Idle
      BY <1>1, <2>2, <2>4 DEF SpareEmpty
    <3>2. call'[c].pc = "idle"
      BY <3>1 DEF Idle
    <3>3. QED
      BY <3>2 DEF Current, InFlight
  <2>5. ASSUME ticket' = ticket
        PROVE  InStep'
    BY <1>1, <2>5 DEF SerialInv, InStep, Alone
  <2>6. ASSUME NEW c \in Calls, Commit(c), ticket' # ticket
        PROVE  InStep'
    <3> DEFINE p == call[c].patch
    <3>1. call[c].row = ticket /\ ticket' = Written(call[c].row, p)
      BY <2>1, <2>6 DEF SerialInv, Current, Commit
    <3>2. p \in Patch /\ ticket \in Ticket /\ writes \in Nat
      BY <2>6, CallShape DEF Commit, TypeOK
    <3>3. Sound(p)
      BY <2>6 DEF Commit, StampInv, Shaped, InFlight
    <3>4. /\ ticket.paused <=> ticket.status = "pending"
          /\ ticket.status \in Settled => ticket.resolvedAt # 0
      BY <2>1 DEF SerialInv, InStep
    <3> HIDE DEF p
    <3>5. /\ ticket'.paused <=> ticket'.status = "pending"
          /\ ticket'.status \in Settled => ticket'.resolvedAt # 0
      BY <3>1, <3>2, <3>3, <3>4, WriteInStep
    <3>6. QED
      BY <3>5 DEF InStep
  <2>7. QED
    BY <2>3, <2>4, <2>5, <2>6, OnlyCommitWrites
<1>3. QED
  BY <1>1, <1>2 DEF SerialInv, InStep

LegacyInv == TypeOK /\ StampInv /\ SerialInv

LEMMA LegacyInit ==
  ASSUME Init
  PROVE  LegacyInv
<1>1. StampInv
  BY DEF Init, StampInv, Shaped, InFlight, Idle, ResolvedStamped
<1>2. SpareEmpty /\ \A c \in Calls : Current(c)
  BY DEF Init, SpareEmpty, Current, InFlight, Idle
<1>3. InStep
  BY DEF Init, InStep, Settled
<1>4. QED
  BY <1>1, <1>2, <1>3, TypeInit DEF LegacyInv, SerialInv

LEMMA LegacyAlways == Spec => []LegacyInv
<1>1. Init => LegacyInv
  BY LegacyInit
<1>2. LegacyInv /\ [Next]_vars => LegacyInv'
  BY TypeStep, StampStep, SerialStep DEF LegacyInv
<1>3. QED
  BY <1>1, <1>2, PTL DEF Spec

\* As long as calls follow one another the clock of slaPausePatch is stopped
\* exactly while the ticket is pending, and a settled ticket has its stamp.
THEOREM ClockInStep == Spec => []InStep
<1>1. LegacyInv => InStep
  BY DEF LegacyInv, SerialInv
<1>2. QED
  BY <1>1, LegacyAlways, PTL

\* No reply or feedback of a requester moves a ticket that waits for its approver,
\* or one that is cancelled, as long as calls follow one another
\* (replyAsRequester and mutateTicket).
THEOREM RepliesHeld == Spec => HeldForApproval
<1>1. ASSUME LegacyInv, [Next]_vars, Alone, ticket'.status # ticket.status,
             \/ ticket.status = "cancelled"
             \/ ticket.status = "pending" /\ approval = "pending",
             Wrote("requester")
      PROVE  FALSE
  <2>1. PICK c \in Calls : Commit(c)
    BY <1>1, OnlyCommitWrites
  <2>2. PICK d \in Calls : call[d].pc = "read" /\ call[d].by = "requester"
    BY <1>1 DEF Wrote
  <2>3. PICK k \in Calls : load.calls = {k}
    BY <1>1, OneSlot DEF LegacyInv
  <2>4. c = d
    <3>1. call[c] # Idle /\ call[d] # Idle
      BY <2>1, <2>2 DEF Commit, Idle
    <3>2. QED
      BY <1>1, <2>3, <3>1 DEF LegacyInv, SerialInv, SpareEmpty
  <2> DEFINE p == call[c].patch
  <2>5. Fits("requester", p)
    BY <1>1, <2>2, <2>4 DEF LegacyInv, SerialInv, Current, InFlight
  <2>6. p.status # "none"
    BY <1>1, <2>1 DEF Commit, Written
  <2>7. QED
    BY <1>1, <2>5, <2>6 DEF Fits, Settled
<1>2. LegacyInv /\ [Next]_vars
      => [/\ Alone /\ ticket'.status # ticket.status
          /\ \/ ticket.status = "cancelled"
             \/ ticket.status = "pending" /\ approval = "pending"
          => ~Wrote("requester")]_vars
  BY <1>1
<1>3. QED
  BY <1>2, LegacyAlways, PTL DEF Spec, HeldForApproval

-----------------------------------------------------------------------------
(* A change and the votes on it *)

ChangeTyped ==
  /\ status \in ChangeStatuses
  /\ approvals \in [Approvals -> Verdicts \cup {"none", "pending"}]
  /\ slot \in [Slots -> SlotState]
  /\ writer \in {"create", "update", "submit", "decide"}
  /\ disturbed \in BOOLEAN

\* What the approvals amount to when the change is moved to a status.
Justified(to) ==
  /\ to \in Verdicts
  /\ to = "approved" => States = {"approved"}
  /\ to = "rejected" => "rejected" \in States

\* Only decisions on different approvals overlap.
Apart ==
  \A c, d \in Slots :
    c # d /\ slot[c] # Free /\ slot[d] # Free =>
      Compatible(slot[c], slot[d])

\* A call is right about its approval, and about where it moves the change.
Rightly(c) ==
  /\ slot[c].pc = "submitting" =>
       (slot[c].left > 0 \/ "pending" \in States) /\ writer # "decide"
  /\ slot[c].pc = "asked" /\ slot[c].state = "pending" =>
       approvals[slot[c].id] = "pending"
  /\ slot[c].pc = "deciding" => approvals[slot[c].id] = "pending"
  /\ slot[c].pc \in {"decided", "moving"} => approvals[slot[c].id] \in Verdicts
  /\ slot[c].pc = "moving" => Justified(slot[c].to)

\* A submitted change awaits a vote, or the call that cast the last one.
Awaits ==
  writer = "submit" =>
    /\ status = "awaiting_approval"
    /\ \A c \in Slots :
         slot[c].pc \in {"deciding", "decided"} => slot[c].seen = status
    /\ \/ "pending" \in States
       \/ \E c \in Slots : slot[c].pc \in {"decided", "moving"}

LEMMA TurnShape ==
  ASSUME NEW k \in SlotState
  PROVE  /\ k.pc = "updating" => k.to \in ChangeStatuses
         /\ k.pc = "submitting" => k.left \in Nat
         /\ Deciding(k) => k.id \in Approvals
         /\ k.pc = "asked" =>
              k.state \in Verdicts \cup {"pending"} /\ k.verdict \in Verdicts
         /\ k.pc \in {"deciding", "decided"} =>
              k.verdict \in Verdicts /\ k.seen \in ChangeStatuses
         /\ k.pc = "moving" => k.to \in ChangeStatuses
BY DEF SlotState, Free, Deciding

LEMMA TallyType ==
  ASSUME NEW seen \in ChangeStatuses
  PROVE  Tally(seen) \in ChangeStatuses
BY DEF Tally, ChangeStatuses

\* A call that starts is an update, a submission or a decision.
Starting(c, k) ==
  \/ \E to \in ChangeStatuses : k = [pc |-> "updating", to |-> to]
  \/ \E n \in Nat \ {0} : /\ k = [pc |-> "submitting", left |-> n]
                          /\ CanTransition(status, "awaiting_approval")
  \/ \E a \in Approvals, verdict \in Verdicts :
       /\ approvals[a] # "none"
       /\ k = [pc |-> "asked", id |-> a, state |-> approvals[a], verdict |-> verdict]

\* Every step is one of these.
LEMMA TurnKinds ==
  ASSUME ChangeNext
  PROVE  \E c \in Slots : \/ \E k : Starting(c, k) /\ Start(c, k)
                          \/ Proceed(c)
                          \/ Fail(c)
<1>1. \A n \in 1..Unused : n \in Nat \ {0}
  OBVIOUS
<1>2. ASSUME NEW c \in Slots, NEW to \in ChangeStatuses, Update(c, to)
      PROVE  \E k : Starting(c, k) /\ Start(c, k)
  BY <1>2 DEF Update, Starting
<1>3. ASSUME NEW c \in Slots, NEW n \in 1..Unused, Submit(c, n)
      PROVE  \E k : Starting(c, k) /\ Start(c, k)
  BY <1>1, <1>3 DEF Submit, Starting
<1>4. ASSUME NEW c \in Slots, NEW a \in Approvals, NEW verdict \in Verdicts,
             DecideApproval(c, a, verdict)
      PROVE  \E k : Starting(c, k) /\ Start(c, k)
  BY <1>4 DEF DecideApproval, Starting
<1>5. QED
  BY <1>2, <1>3, <1>4 DEF ChangeNext

LEMMA ChangeTypeStep ==
  ASSUME ChangeTyped, [ChangeNext]_changeVars
  PROVE  ChangeTyped'
<1> USE DEF ChangeTyped
<1>1. ASSUME NEW c \in Slots, NEW k, Starting(c, k), Start(c, k)
      PROVE  ChangeTyped'
  <2>1. k \in SlotState
    BY <1>1 DEF Starting, SlotState
  <2>2. disturbed' \in BOOLEAN
    BY <1>1, Zenon DEF Start
  <2>3. QED
    BY <1>1, <2>1, <2>2 DEF Start
<1>2. ASSUME NEW c \in Slots,
             UpdateWrite(c) \/ SubmitWrite(c) \/ DecideWrite(c)
      PROVE  ChangeTyped'
  <2>1. Free \in SlotState /\ status' \in ChangeStatuses
    BY <1>2, TurnShape
       DEF UpdateWrite, SubmitWrite, DecideWrite, SlotState, ChangeStatuses
  <2>2. QED
    BY <1>2, <2>1 DEF UpdateWrite, SubmitWrite, DecideWrite, Go
<1>3. ASSUME NEW c \in Slots, CreateApproval(c)
      PROVE  ChangeTyped'
  <2>1. slot[c] \in SlotState /\ slot[c].left \in Nat \ {0}
    BY <1>3, TurnShape DEF CreateApproval
  <2>2. slot[c] = [pc |-> "submitting", left |-> slot[c].left]
    BY <1>3, <2>1 DEF CreateApproval, SlotState, Free
  <2>3. [slot[c] EXCEPT !.left = @ - 1]
          = [pc |-> "submitting", left |-> slot[c].left - 1]
    BY <2>2
  <2>4. [pc |-> "submitting", left |-> slot[c].left - 1] \in SlotState
    BY <2>1 DEF SlotState
  <2>5. slot' \in [Slots -> SlotState]
    BY <1>3, <2>3, <2>4 DEF CreateApproval, Go
  <2>6. QED
    BY <1>3, <2>5 DEF CreateApproval
<1>4. ASSUME NEW c \in Slots, ReadChange(c)
      PROVE  ChangeTyped'
  <2>1. /\ Free \in SlotState
        /\ [pc |-> "deciding", id |-> slot[c].id, verdict |-> slot[c].verdict,
            seen |-> status] \in SlotState
    BY <1>4, TurnShape DEF ReadChange, SlotState, Deciding
  <2>2. slot' \in [Slots -> SlotState]
    BY <1>4, <2>1 DEF ReadChange, Go
  <2>3. QED
    BY <1>4, <2>2 DEF ReadChange
<1>5. ASSUME NEW c \in Slots, RecordVote(c)
      PROVE  ChangeTyped'
  <2>1. slot[c] \in SlotState /\ slot[c].verdict \in Verdicts
    BY <1>5, TurnShape DEF RecordVote
  <2>2. slot[c] \in [pc: {"deciding", "decided"}, id: Approvals,
                     verdict: Verdicts, seen: ChangeStatuses]
    BY <1>5, <2>1 DEF RecordVote, SlotState, Free
  <2>3. [slot[c] EXCEPT !.pc = "decided"] \in SlotState
    BY <2>2 DEF SlotState
  <2>4. slot' \in [Slots -> SlotState]
    BY <1>5, <2>3 DEF RecordVote, Go
  <2>5. QED
    BY <1>5, <2>1, <2>4 DEF RecordVote
<1>6. ASSUME NEW c \in Slots, ListApprovals(c)
      PROVE  ChangeTyped'
  <2>1. Tally(slot[c].seen) \in ChangeStatuses /\ slot[c].id \in Approvals
    BY <1>6, TurnShape, TallyType DEF ListApprovals, Deciding
  <2>2. /\ Free \in SlotState
        /\ [pc |-> "moving", id |-> slot[c].id,
            to |-> Tally(slot[c].seen)] \in SlotState
    BY <2>1 DEF SlotState
  <2>3. slot' \in [Slots -> SlotState]
    BY <1>6, <2>2 DEF ListApprovals, Go
  <2>4. QED
    BY <1>6, <2>3 DEF ListApprovals
<1>7. ASSUME NEW c \in Slots, Fail(c)
      PROVE  ChangeTyped'
  BY <1>7 DEF Fail, Go, SlotState
<1>8. CASE UNCHANGED changeVars
  BY <1>8 DEF changeVars
<1>9. QED
  BY <1>1, <1>2, <1>3, <1>4, <1>5, <1>6, <1>7, <1>8, TurnKinds DEF Proceed

\* An update and a submission overlap nothing.
LEMMA Lone ==
  ASSUME Apart, NEW c \in Slots, slot[c].pc \in {"updating", "submitting"}
  PROVE  \A d \in Slots \ {c} : slot[d] = Free
BY DEF Apart, Compatible, Deciding, Free

\* A call that goes on with its approval, or ends, comes near no other.
LEMMA StayApart ==
  ASSUME ChangeTyped, Apart, NEW c \in Slots, NEW k, Go(c, k),
         \/ k = Free
         \/ Deciding(slot[c]) /\ Deciding(k) /\ k.id = slot[c].id
  PROVE  Apart'
<1>1. slot'[c] = k /\ \A d \in Slots \ {c} : slot'[d] = slot[d]
  BY DEF Go, ChangeTyped
<1>2. Deciding(slot[c]) => slot[c] # Free
  BY DEF Deciding, Free
<1>3. ASSUME NEW a \in Slots, NEW b \in Slots, a # b,
             slot'[a] # Free, slot'[b] # Free
      PROVE  Compatible(slot'[a], slot'[b])
  <2>1. slot[a] # Free /\ slot[b] # Free
    BY <1>1, <1>2, <1>3
  <2>2. Compatible(slot[a], slot[b])
    BY <1>3, <2>1 DEF Apart
  <2>3. QED
    BY <1>1, <1>3, <2>2 DEF Compatible
<1>4. QED
  BY <1>3 DEF Apart, Free, Compatible, Deciding

\* What holds while only decisions on different approvals have overlapped.
Calm ==
  /\ Apart
  /\ \A c \in Slots : Rightly(c)
  /\ Awaits
  /\ writer = "decide" => Justified(status)

LEMMA CalmStart ==
  ASSUME ChangeTyped, Calm, NEW c \in Slots, NEW k, Starting(c, k),
         Start(c, k), ~disturbed'
  PROVE  Calm'
<1>1. /\ slot[c] = Free /\ slot'[c] = k
      /\ \A d \in Slots \ {c} : slot'[d] = slot[d]
      /\ UNCHANGED <<status, approvals, writer>>
  BY DEF Start, ChangeTyped
<1>2. \A d \in Slots : slot[d] = Free \/ Compatible(k, slot[d])
  BY DEF Start
<1>3. Apart'
  <2>1. ASSUME NEW a \in Slots, NEW b \in Slots, a # b,
               slot'[a] # Free, slot'[b] # Free
        PROVE  Compatible(slot'[a], slot'[b])
    BY <1>1, <1>2, <2>1 DEF Apart, Calm, Compatible
  <2>2. QED
    BY <2>1 DEF Apart, Free, Compatible, Deciding
<1>4. k.pc \in {"updating", "submitting", "asked"}
  BY DEF Starting
<1>5. Rightly(c)'
  <2>1. CASE k.pc = "updating"
    BY <1>1, <2>1 DEF Rightly
  <2>2. CASE k.pc = "submitting"
    <3>1. k.left > 0 /\ CanTransition(status, "awaiting_approval")
      BY <2>2 DEF Starting
    <3>2. status \notin Verdicts
      BY <3>1 DEF CanTransition, NextStatuses, Verdicts
    <3>3. writer # "decide"
      BY <3>2 DEF Calm, Justified
    <3>4. QED
      BY <1>1, <2>2, <3>1, <3>3 DEF Rightly
  <2>3. CASE k.pc = "asked"
    <3>1. k.state = approvals[k.id]
      BY <2>3 DEF Starting
    <3>2. QED
      BY <1>1, <2>3, <3>1 DEF Rightly
  <2>4. QED
    BY <1>4, <2>1, <2>2, <2>3
<1>6. \A d \in Slots \ {c} : Rightly(d)'
  BY <1>1 DEF Calm, Rightly, Justified, States
<1>7. Awaits'
  <2>1. \A d \in Slots :
          slot'[d].pc \in {"deciding", "decided"} => slot'[d] = slot[d]
    BY <1>1, <1>4
  <2>2. \A d \in Slots :
          slot[d].pc \in {"decided", "moving"} => slot'[d] = slot[d]
    BY <1>1 DEF Free
  <2>3. QED
    BY <1>1, <2>1, <2>2 DEF Calm, Awaits, States
<1>8. (writer = "decide" => Justified(status))'
  BY <1>1 DEF Calm, Justified, States
<1>9. QED
  BY <1>3, <1>5, <1>6, <1>7, <1>8 DEF Calm

\* An update or the end of a submission: nothing else is in flight.
LEMMA CalmWrite ==
  ASSUME ChangeTyped, Calm, NEW c \in Slots,
         UpdateWrite(c) \/ SubmitWrite(c)
  PROVE  Calm'
<1>1. /\ slot[c].pc \in {"updating", "submitting"}
      /\ Go(c, Free) /\ approvals' = approvals
  BY DEF UpdateWrite, SubmitWrite
<1>2. \A d \in Slots : slot'[d] = Free
  BY <1>1, Lone DEF Calm, Go, ChangeTyped
<1>3. Apart'
  BY <1>2 DEF Apart, Free
<1>4. \A d \in Slots : Rightly(d)'
  BY <1>2 DEF Rightly, Free
<1>5. Awaits' /\ writer' # "decide"
  <2>1. CASE UpdateWrite(c)
    BY <2>1 DEF UpdateWrite, Awaits
  <2>2. CASE SubmitWrite(c)
    <3>1. slot[c].pc = "submitting" /\ slot[c].left = 0
      BY <2>2 DEF SubmitWrite
    <3>2. "pending" \in States
      BY <3>1 DEF Calm, Rightly
    <3>3. QED
      BY <1>1, <1>2, <2>2, <3>2 DEF SubmitWrite, Awaits, States, Free
  <2>3. QED
    BY <2>1, <2>2
<1>6. QED
  BY <1>3, <1>4, <1>5 DEF Calm

LEMMA CalmCreate ==
  ASSUME ChangeTyped, Calm, NEW c \in Slots, CreateApproval(c)
  PROVE  Calm'
<1>1. /\ slot[c].pc = "submitting" /\ UNCHANGED <<status, writer>>
      /\ writer # "decide"
  BY DEF CreateApproval, Calm, Rightly
<1>2. slot[c] \in SlotState
  BY DEF ChangeTyped
<1>3. slot[c] = [pc |-> "submitting", left |-> slot[c].left]
  BY <1>1, <1>2 DEF SlotState, Free
<1>4. [slot[c] EXCEPT !.left = @ - 1].pc = "submitting"
  BY <1>3
<1>5. /\ slot'[c].pc = "submitting"
      /\ \A d \in Slots \ {c} : slot'[d] = Free
  BY <1>1, <1>4, Lone DEF Calm, CreateApproval, Go, ChangeTyped
<1>6. "pending" \in States'
  BY DEF CreateApproval, States, ChangeTyped
<1>7. Apart'
  BY <1>5 DEF Apart, Free
<1>8. \A d \in Slots : Rightly(d)'
  <2>1. Rightly(c)'
    BY <1>1, <1>5, <1>6 DEF Rightly
  <2>2. \A d \in Slots \ {c} : Rightly(d)'
    BY <1>5 DEF Rightly, Free
  <2>3. QED
    BY <2>1, <2>2
<1>9. Awaits'
  <2>1. \A d \in Slots : slot'[d].pc \notin {"deciding", "decided"}
    BY <1>5 DEF Free
  <2>2. QED
    BY <1>1, <1>6, <2>1 DEF Calm, Awaits
<1>10. QED
  BY <1>1, <1>7, <1>8, <1>9 DEF Calm

LEMMA CalmRead ==
  ASSUME ChangeTyped, Calm, NEW c \in Slots, ReadChange(c)
  PROVE  Calm'
<1> DEFINE k == IF slot[c].state # "pending" THEN Free
                ELSE [pc |-> "deciding", id |-> slot[c].id,
                      verdict |-> slot[c].verdict, seen |-> status]
<1>1. /\ slot[c].pc = "asked" /\ Go(c, k)
      /\ UNCHANGED <<status, approvals, writer>>
  BY DEF ReadChange
<1>2. \/ k = Free
      \/ /\ k.pc = "deciding" /\ k.id = slot[c].id /\ k.seen = status
         /\ slot[c].state = "pending"
  OBVIOUS
<1> HIDE DEF k
<1>3. slot'[c] = k /\ \A d \in Slots \ {c} : slot'[d] = slot[d]
  BY <1>1 DEF Go, ChangeTyped
<1>4. Apart'
  BY <1>1, <1>2, StayApart DEF Calm, Deciding
<1>5. Rightly(c)'
  BY <1>1, <1>2, <1>3 DEF Calm, Rightly, Free
<1>6. \A d \in Slots \ {c} : Rightly(d)'
  BY <1>1, <1>3 DEF Calm, Rightly, Justified, States
<1>7. Awaits'
  <2>1. slot'[c].pc \in {"deciding", "decided"} => slot'[c].seen = status
    BY <1>2, <1>3 DEF Free
  <2>2. \A d \in Slots :
          slot[d].pc \in {"decided", "moving"} => slot'[d] = slot[d]
    BY <1>1, <1>3
  <2>3. QED
    BY <1>1, <1>3, <2>1, <2>2 DEF Calm, Awaits, States
<1>8. (writer = "decide" => Justified(status))'
  BY <1>1 DEF Calm, Justified, States
<1>9. QED
  BY <1>4, <1>5, <1>6, <1>7, <1>8 DEF Calm

\* What is justified stays so when a pending approval is decided.
LEMMA JustifiedStays ==
  ASSUME ChangeTyped, NEW a \in Approvals, approvals[a] = "pending",
         NEW verdict \in Verdicts,
         approvals' = [approvals EXCEPT ![a] = verdict], NEW to, Justified(to)
  PROVE  Justified(to)'
<1>1. /\ "pending" \in States
      /\ \A b \in Approvals \ {a} : approvals'[b] = approvals[b]
  BY DEF States, ChangeTyped
<1>2. to = "rejected"
  BY <1>1 DEF Justified, Verdicts
<1>3. PICK b \in Approvals : approvals[b] = "rejected"
  BY <1>2 DEF Justified, States
<1>4. approvals'[b] = "rejected"
  BY <1>1, <1>3
<1>5. QED
  BY <1>2, <1>4 DEF Justified, States, Verdicts

LEMMA CalmRecord ==
  ASSUME ChangeTyped, Calm, NEW c \in Slots, RecordVote(c)
  PROVE  Calm'
<1> DEFINE k == [slot[c] EXCEPT !.pc = "decided"]
           a == slot[c].id
<1>1. slot[c].pc = "deciding" /\ slot[c] \in SlotState /\ Rightly(c)
  BY DEF RecordVote, ChangeTyped, Calm
<1>2. /\ approvals[a] = "pending" /\ a \in Approvals
      /\ slot[c].verdict \in Verdicts
  BY <1>1, TurnShape DEF Rightly, Deciding
<1>3. slot[c] \in [pc: {"deciding", "decided"}, id: Approvals,
                   verdict: Verdicts, seen: ChangeStatuses]
  BY <1>1 DEF SlotState, Free
<1>4. k.pc = "decided" /\ k.id = a /\ k.seen = slot[c].seen
  BY <1>3
<1>5. /\ Go(c, k) /\ approvals' = [approvals EXCEPT ![a] = slot[c].verdict]
      /\ UNCHANGED <<status, writer>>
  BY DEF RecordVote
<1> HIDE DEF k
<1>6. slot'[c] = k /\ \A d \in Slots \ {c} : slot'[d] = slot[d]
  BY <1>5 DEF Go, ChangeTyped
<1>7. /\ approvals'[a] \in Verdicts
      /\ \A b \in Approvals \ {a} : approvals'[b] = approvals[b]
  BY <1>2, <1>5 DEF ChangeTyped
<1>8. Apart'
  BY <1>1, <1>4, <1>5, StayApart DEF Calm, Deciding
<1>9. PICK p \in Approvals, v \in Verdicts : p = a /\ v = slot[c].verdict
  BY <1>2
<1>10. \A to : Justified(to) => Justified(to)'
  BY <1>2, <1>5, <1>9, JustifiedStays
<1>11. Rightly(c)'
  BY <1>4, <1>6, <1>7 DEF Rightly
<1>12. ASSUME NEW d \in Slots, d # c
       PROVE  Rightly(d)'
  <2>1. slot'[d] = slot[d] /\ Rightly(d)
    BY <1>6, <1>12 DEF Calm
  <2>2. slot[d] = Free \/ (Deciding(slot[d]) /\ slot[d].id # a)
    BY <1>1, <1>12 DEF Calm, Apart, Compatible, Free
  <2>3. CASE slot[d] = Free
    BY <2>1, <2>3 DEF Rightly, Free
  <2>4. CASE Deciding(slot[d]) /\ slot[d].id # a
    <3>1. approvals'[slot[d].id] = approvals[slot[d].id]
      BY <1>7, <2>4, TurnShape DEF ChangeTyped
    <3>2. slot[d].pc = "moving" => Justified(slot[d].to)'
      BY <1>10, <2>1 DEF Rightly
    <3>3. QED
      BY <2>1, <2>4, <3>1, <3>2 DEF Rightly, Deciding, Justified
  <2>5. QED
    BY <2>2, <2>3, <2>4
<1>13. Awaits'
  <2>1. slot'[c].pc = "decided"
    BY <1>4, <1>6
  <2>2. \A d \in Slots :
          writer = "submit" /\ slot'[d].pc \in {"deciding", "decided"}
          => slot'[d].seen = status
    BY <1>1, <1>4, <1>6 DEF Calm, Awaits
  <2>3. QED
    BY <1>5, <2>1, <2>2 DEF Calm, Awaits
<1>14. (writer = "decide" => Justified(status))'
  BY <1>5, <1>10 DEF Calm, Justified
<1>15. QED
  BY <1>8, <1>11, <1>12, <1>13, <1>14 DEF Calm

\* The call that finds no approval pending moves the change.
LEMMA CalmList ==
  ASSUME ChangeTyped, Calm, NEW c \in Slots, ListApprovals(c)
  PROVE  Calm'
<1> DEFINE to == Tally(slot[c].seen)
           k == IF to = slot[c].seen THEN Free
                ELSE [pc |-> "moving", id |-> slot[c].id, to |-> to]
<1>1. /\ slot[c].pc = "decided" /\ Go(c, k)
      /\ UNCHANGED <<status, approvals, writer>>
  BY DEF ListApprovals
<1>2. \/ k = Free /\ to = slot[c].seen
      \/ k.pc = "moving" /\ k.id = slot[c].id /\ k.to = to /\ to # slot[c].seen
  OBVIOUS
<1>3. /\ to # slot[c].seen => Justified(to)
      /\ to = slot[c].seen /\ slot[c].seen = "awaiting_approval" =>
           "rejected" \notin States /\ States # {"approved"}
  BY DEF Tally, Justified, Verdicts
<1>4. /\ slot[c].id \in Approvals /\ approvals[slot[c].id] \in Verdicts
  BY <1>1, TurnShape DEF ChangeTyped, Calm, Rightly, Deciding
<1> HIDE DEF k, to
<1>5. slot'[c] = k /\ \A d \in Slots \ {c} : slot'[d] = slot[d]
  BY <1>1 DEF Go, ChangeTyped
<1>6. Apart'
  BY <1>1, <1>2, StayApart DEF Calm, Deciding
<1>7. Rightly(c)'
  BY <1>1, <1>2, <1>3, <1>4, <1>5 DEF Rightly, Free, Justified, States
<1>8. \A d \in Slots \ {c} : Rightly(d)'
  BY <1>1, <1>5 DEF Calm, Rightly, Justified, States
<1>9. Awaits'
  <2>1. ASSUME writer = "submit"
        PROVE  "pending" \in States \/ slot'[c].pc = "moving"
    <3>1. CASE k.pc = "moving"
      BY <1>5, <3>1
    <3>2. CASE k = Free /\ to = slot[c].seen
      <4>1. slot[c].seen = "awaiting_approval"
        BY <1>1, <2>1 DEF Calm, Awaits
      <4>2. "rejected" \notin States /\ States # {"approved"}
        BY <1>3, <3>2, <4>1
      <4>3. "approved" \in States
        BY <1>4, <4>2 DEF States, Verdicts
      <4>4. States \subseteq {"approved", "rejected", "pending"}
        BY DEF States, ChangeTyped, Verdicts
      <4>5. QED
        BY <4>2, <4>3, <4>4
    <3>3. QED
      BY <1>2, <3>1, <3>2
  <2>2. \A d \in Slots :
          slot'[d].pc \in {"deciding", "decided"} => slot'[d] = slot[d]
    BY <1>2, <1>5 DEF Free
  <2>3. States' = States
    BY <1>1 DEF States
  <2>4. QED
    BY <1>1, <2>1, <2>2, <2>3 DEF Calm, Awaits
<1>10. (writer = "decide" => Justified(status))'
  BY <1>1 DEF Calm, Justified, States
<1>11. QED
  BY <1>6, <1>7, <1>8, <1>9, <1>10 DEF Calm

LEMMA CalmMove ==
  ASSUME ChangeTyped, Calm, NEW c \in Slots, DecideWrite(c)
  PROVE  Calm'
<1>1. /\ slot[c].pc = "moving" /\ Go(c, Free) /\ approvals' = approvals
      /\ status' = slot[c].to /\ writer' = "decide"
  BY DEF DecideWrite
<1>2. slot'[c] = Free /\ \A d \in Slots \ {c} : slot'[d] = slot[d]
  BY <1>1 DEF Go, ChangeTyped
<1>3. Apart'
  BY <1>1, StayApart DEF Calm
<1>4. \A d \in Slots \ {c} : slot[d].pc # "submitting"
  BY <1>1 DEF Calm, Apart, Compatible, Deciding, Free
<1>5. \A d \in Slots \ {c} : Rightly(d)'
  BY <1>1, <1>2, <1>4 DEF Calm, Rightly, Justified, States
<1>6. Rightly(c)'
  BY <1>2 DEF Rightly, Free
<1>7. Awaits'
  BY <1>1 DEF Awaits
<1>8. Justified(status)'
  BY <1>1 DEF Calm, Rightly, Justified, States
<1>9. QED
  BY <1>3, <1>5, <1>6, <1>7, <1>8 DEF Calm

VotesInv == ChangeTyped /\ (~disturbed => Calm)

LEMMA VotesStep ==
  ASSUME VotesInv, [ChangeNext]_changeVars
  PROVE  VotesInv'
<1>1. ChangeTyped /\ ChangeTyped'
  BY ChangeTypeStep DEF VotesInv
<1>2. ASSUME ~disturbed'
      PROVE  Calm'
  <2>1. ASSUME NEW c \in Slots, NEW k, Starting(c, k), Start(c, k)
        PROVE  Calm'
    <3>1. ~disturbed
      BY <1>2, <2>1 DEF Start
    <3>2. QED
      BY <1>1, <1>2, <2>1, <3>1, CalmStart DEF VotesInv
  <2>2. ASSUME NEW c \in Slots, Proceed(c)
        PROVE  Calm'
    <3>1. ~disturbed
      BY <1>2, <2>2
         DEF Proceed, UpdateWrite, CreateApproval, SubmitWrite,
             ReadChange, RecordVote, ListApprovals, DecideWrite
    <3>2. Calm
      BY <3>1 DEF VotesInv
    <3>3. QED
      BY <1>1, <2>2, <3>2, CalmWrite, CalmCreate, CalmRead, CalmRecord, CalmList,
         CalmMove DEF Proceed
  <2>3. ASSUME NEW c \in Slots, Fail(c)
        PROVE  FALSE
    BY <1>2, <2>3 DEF Fail
  <2>4. CASE UNCHANGED changeVars
    <3>1. Calm
      BY <1>2, <2>4 DEF VotesInv, changeVars
    <3>2. \A d \in Slots : Rightly(d)'
      BY <2>4, <3>1 DEF Calm, Rightly, Justified, States, changeVars
    <3>3. Apart' /\ Awaits'
      BY <2>4, <3>1 DEF Calm, Apart, Awaits, States, changeVars
    <3>4. QED
      BY <2>4, <3>1, <3>2, <3>3 DEF Calm, Justified, States, changeVars
  <2>5. QED
    BY <2>1, <2>2, <2>3, <2>4, TurnKinds
<1>3. QED
  BY <1>1, <1>2 DEF VotesInv

LEMMA VotesInit ==
  ASSUME ChangeInit
  PROVE  VotesInv
<1>1. ChangeTyped
  BY DEF ChangeInit, ChangeTyped, SlotState, ChangeStatuses
<1>2. \A c \in Slots : Rightly(c)
  BY DEF ChangeInit, Rightly, Free
<1>3. QED
  BY <1>1, <1>2 DEF ChangeInit, VotesInv, Calm, Apart, Awaits

\* The change, its approvals and the calls keep the types they are declared with,
\* whatever updates, submissions and decisions overlap or fail.
THEOREM ChangeTypes == ChangeSpec => []ChangeTypeOK
<1>1. ChangeInit => fails \in 0..MaxFails
  BY ChangeAssumption DEF ChangeInit
<1>2. fails \in 0..MaxFails /\ [ChangeNext]_changeVars => (fails \in 0..MaxFails)'
  <2>1. ASSUME fails \in 0..MaxFails, [ChangeNext]_changeVars
        PROVE  fails' \in 0..MaxFails
    <3>1. \A c \in Slots : Fail(c) => fails' \in 0..MaxFails
      BY <2>1, ChangeAssumption DEF Fail
    <3>2. \A c \in Slots : Proceed(c) => fails' = fails
      BY DEF Proceed, UpdateWrite, CreateApproval, SubmitWrite,
             ReadChange, RecordVote, ListApprovals, DecideWrite
    <3>3. \A c \in Slots : \A k : Start(c, k) => fails' = fails
      BY DEF Start
    <3>4. UNCHANGED changeVars => fails' = fails
      BY DEF changeVars
    <3>5. QED
      BY <2>1, <3>1, <3>2, <3>3, <3>4, TurnKinds
  <2>2. QED
    BY <2>1
<1>3. VotesInv /\ fails \in 0..MaxFails => ChangeTypeOK
  BY DEF VotesInv, ChangeTyped, ChangeTypeOK
<1>4. QED
  BY <1>1, <1>2, <1>3, VotesInit, VotesStep, PTL DEF ChangeSpec

\* Votes cast at the same time on different approvals all count (decideApproval): the
\* change is moved by the vote that completes them, and never against them.
THEOREM AllVotesCount == ChangeSpec => []VotesCount
<1>1. ASSUME VotesInv, Quiet, ~disturbed
      PROVE  /\ writer = "submit" => "pending" \in States
             /\ writer = "decide" =>
                  /\ status = "approved" => States = {"approved"}
                  /\ status = "rejected" => "rejected" \in States
                  /\ status \in Verdicts
  <2>1. \A c \in Slots : slot[c].pc \notin {"decided", "moving"}
    BY <1>1 DEF Quiet, Free
  <2>2. QED
    BY <1>1, <2>1 DEF VotesInv, Calm, Awaits, Justified
<1>2. VotesInv => VotesCount
  BY <1>1 DEF VotesCount
<1>3. QED
  BY <1>2, VotesInit, VotesStep, PTL DEF ChangeSpec
=============================================================================
