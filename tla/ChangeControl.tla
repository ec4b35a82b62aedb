--------------------------- MODULE ChangeControl ---------------------------
(***************************************************************************)
(* One change and its approvals: the PATCH that moves it along, its        *)
(* submission to the change advisory board (CAB) and the decisions of the  *)
(* approvers.  The calls use no transaction: each await between a read and *)
(* a write is a point where another call may run or this one may fail.     *)
(*                                                                         *)
(* A call is named by its slot.  Init, Next and their like carry the name  *)
(* of the change, so that a module may speak of a change beside a ticket.  *)
(*                                                                         *)
(* Left out: the text, the planned window and the risk score of a change,  *)
(* the comment of a decision, the audit entries (module AuditChain).       *)
(*                                                                         *)
(* Definitions named Faulty... are slips somebody could make in the code.  *)
(* No specification uses them: each shows that a property would notice.    *)
(***************************************************************************)
EXTENDS Integers, FiniteSetsExt

CONSTANTS
  Slots,      \* each holds one of the calls in flight at the same time
  Approvals,  \* ids of the approval rows: their number bounds the submissions
  MaxFails    \* bound: calls that fail between two of their steps

ASSUME ChangeAssumption == IsFiniteSet(Approvals) /\ MaxFails \in Nat

ChangeStatuses == {"draft", "assessing", "awaiting_approval", "approved", "rejected",
             "scheduled", "implementing", "review", "closed", "cancelled"}

\* The table CHANGE_TRANSITIONS.
NextStatuses ==
  [draft             |-> {"assessing", "awaiting_approval", "cancelled"},
   assessing         |-> {"awaiting_approval", "draft", "cancelled"},
   awaiting_approval |-> {"approved", "rejected", "cancelled"},
   approved          |-> {"scheduled", "cancelled"},
   rejected          |-> {"draft", "cancelled"},
   scheduled         |-> {"implementing", "cancelled"},
   implementing      |-> {"review", "cancelled"},
   review            |-> {"closed"},
   closed            |-> {},
   cancelled         |-> {}]

CanTransition(from, to) == from = to \/ to \in NextStatuses[from]

VARIABLES
  status,    \* status of the change row
  approvals, \* approvals[a]: state of the approval row, none while there is no row
  slot,      \* slot[c]: what the call in slot c has read so far
  writer,    \* history: the operation that wrote the status last
  disturbed, \* history: a decision overlapped anything but a decision on another
             \* approval, or a call was cut short
  fails      \* calls that failed so far

changeVars == <<status, approvals, slot, writer, disturbed, fails>>

Verdicts == {"approved", "rejected"}

Free == [pc |-> "idle"]
SlotState ==
  {Free}
    \cup [pc: {"updating"}, to: ChangeStatuses]
    \cup [pc: {"submitting"}, left: Nat]
    \cup [pc: {"asked"}, id: Approvals, state: Verdicts \cup {"pending"},
          verdict: Verdicts]
    \cup [pc: {"deciding", "decided"}, id: Approvals, verdict: Verdicts,
          seen: ChangeStatuses]
    \cup [pc: {"moving"}, id: Approvals, to: ChangeStatuses]

Deciding(k) == k.pc \in {"asked", "deciding", "decided", "moving"}

Compatible(k, l) == Deciding(k) /\ Deciding(l) /\ k.id # l.id

\* createChange: a draft without approvals.
ChangeInit ==
  /\ status = "draft"
  /\ approvals = [a \in Approvals |-> "none"]
  /\ slot = [c \in Slots |-> Free]
  /\ writer = "create"
  /\ disturbed = FALSE
  /\ fails = 0

\* A call starts in a free slot; what it overlaps with is remembered.
Start(c, k) ==
  /\ slot[c] = Free
  /\ slot' = [slot EXCEPT ![c] = k]
  /\ disturbed' = (disturbed \/ \E d \in Slots :
                     slot[d] # Free /\ ~Compatible(k, slot[d]))
  /\ UNCHANGED <<status, approvals, writer, fails>>

Go(c, k) == slot' = [slot EXCEPT ![c] = k]

-----------------------------------------------------------------------------
(* updateChange *)

Update(c, to) ==
  /\ CanTransition(status, to)
  /\ Start(c, [pc |-> "updating", to |-> to])

\* The row is written without looking at it again.
UpdateWrite(c) ==
  /\ slot[c].pc = "updating"
  /\ status' = slot[c].to
  /\ writer' = "update"
  /\ Go(c, Free)
  /\ UNCHANGED <<approvals, disturbed, fails>>

-----------------------------------------------------------------------------
(* submitForApproval *)

\* A change that awaits approval may be submitted again: from = to is allowed.  The
\* only caller, the route, puts the change manager in for an empty list of approvers.
Submit(c, approvers) ==
  /\ CanTransition(status, "awaiting_approval")
  /\ Start(c, [pc |-> "submitting", left |-> approvers])

CreateApproval(c) ==
  /\ slot[c].pc = "submitting" /\ slot[c].left > 0
  /\ \E a \in Approvals :
       /\ approvals[a] = "none"
       /\ approvals' = [approvals EXCEPT ![a] = "pending"]
  /\ Go(c, [slot[c] EXCEPT !.left = @ - 1])
  /\ UNCHANGED <<status, writer, disturbed, fails>>

SubmitWrite(c) ==
  /\ slot[c].pc = "submitting" /\ slot[c].left = 0
  /\ status' = "awaiting_approval"
  /\ writer' = "submit"
  /\ Go(c, Free)
  /\ UNCHANGED <<approvals, disturbed, fails>>

-----------------------------------------------------------------------------
(* decideApproval *)

\* The approval is read,
DecideApproval(c, a, verdict) ==
  /\ approvals[a] # "none"
  /\ Start(c, [pc |-> "asked", id |-> a, state |-> approvals[a],
               verdict |-> verdict])

\* then the change; a decided approval is refused.
ReadChange(c) ==
  /\ slot[c].pc = "asked"
  /\ Go(c, IF slot[c].state # "pending" THEN Free
           ELSE [pc |-> "deciding", id |-> slot[c].id,
                 verdict |-> slot[c].verdict, seen |-> status])
  /\ UNCHANGED <<status, approvals, writer, disturbed, fails>>

RecordVote(c) ==
  /\ slot[c].pc = "deciding"
  /\ approvals' = [approvals EXCEPT ![slot[c].id] = slot[c].verdict]
  /\ Go(c, [slot[c] EXCEPT !.pc = "decided"])
  /\ UNCHANGED <<status, writer, disturbed, fails>>

States == {approvals[a] : a \in Approvals} \ {"none"}

FaultyState(seen) ==  \* takes the state of an approval for that of the change
  IF "pending" \in States THEN "pending"
  ELSE IF "rejected" \in States THEN "rejected" ELSE "approved"

FaultyCount(seen) ==  \* takes a rejection for a vote like another
  IF "pending" \notin States THEN "approved" ELSE seen

\* What all the approvals of the change amount to.
Tally(seen) ==
  IF "rejected" \in States THEN "rejected"
  ELSE IF States = {"approved"} THEN "approved"
  ELSE seen

FaultyList(c) ==  \* lists the approvals before its own decision is recorded
  /\ slot[c].pc = "decided"
  /\ LET to == IF slot[c].verdict = "rejected" THEN "rejected"
               ELSE IF \A a \in Approvals \ {slot[c].id} : approvals[a] = "none"
               THEN "approved" ELSE slot[c].seen
     IN Go(c, IF to = slot[c].seen THEN Free
              ELSE [pc |-> "moving", id |-> slot[c].id, to |-> to])
  /\ UNCHANGED <<status, approvals, writer, disturbed, fails>>

\* The approvals are listed; the change is written only if it is to move.
ListApprovals(c) ==
  /\ slot[c].pc = "decided"
  /\ LET to == Tally(slot[c].seen)
     IN Go(c, IF to = slot[c].seen THEN Free
              ELSE [pc |-> "moving", id |-> slot[c].id, to |-> to])
  /\ UNCHANGED <<status, approvals, writer, disturbed, fails>>

DecideWrite(c) ==
  /\ slot[c].pc = "moving"
  /\ status' = slot[c].to
  /\ writer' = "decide"
  /\ Go(c, Free)
  /\ UNCHANGED <<approvals, disturbed, fails>>

-----------------------------------------------------------------------------

\* A store call throws or the process ends: what has been written stays.
Fail(c) ==
  /\ slot[c] # Free /\ fails < MaxFails
  /\ Go(c, Free)
  /\ disturbed' = TRUE
  /\ fails' = fails + 1
  /\ UNCHANGED <<status, approvals, writer>>

Proceed(c) ==
  \/ UpdateWrite(c)
  \/ CreateApproval(c)
  \/ SubmitWrite(c)
  \/ ReadChange(c)
  \/ RecordVote(c)
  \/ ListApprovals(c)
  \/ DecideWrite(c)

\* A submission starts only while approval ids are left for it.
Unused ==
  LET wanted(c) == IF slot[c].pc = "submitting" THEN slot[c].left ELSE 0
  IN Cardinality({a \in Approvals : approvals[a] = "none"})
       - MapThenSumSet(wanted, Slots)

ChangeNext ==
  \E c \in Slots :
    \/ \E to \in ChangeStatuses : Update(c, to)
    \/ \E approvers \in 1..Unused : Submit(c, approvers)
    \/ \E a \in Approvals, verdict \in Verdicts : DecideApproval(c, a, verdict)
    \/ Proceed(c)
    \/ Fail(c)

ChangeSpec == ChangeInit /\ [][ChangeNext]_changeVars

\* A call that has not failed goes on.
ChangeFairSpec == ChangeSpec /\ \A c \in Slots : WF_changeVars(Proceed(c))

-----------------------------------------------------------------------------
(* Properties *)

\* The rows and the calls have the types they are declared with.
ChangeTypeOK ==
  /\ status \in ChangeStatuses
  /\ approvals \in [Approvals -> Verdicts \cup {"none", "pending"}]
  /\ slot \in [Slots -> SlotState]
  /\ writer \in {"create", "update", "submit", "decide"}
  /\ disturbed \in BOOLEAN
  /\ fails \in 0..MaxFails

Quiet == \A c \in Slots : slot[c] = Free

\* Votes that are cast at the same time on different approvals all count: when
\* they are in, a submitted change still waits only if somebody has not voted,
\* it is approved by a vote only if all voted so, and rejected only if one did.
VotesCount ==
  Quiet /\ ~disturbed =>
    /\ writer = "submit" => "pending" \in States
    /\ writer = "decide" => /\ status = "approved" => States = {"approved"}
                            /\ status = "rejected" => "rejected" \in States
                            /\ status \in Verdicts

\* A submitted change does not wait for ever once all its approvers have voted.
VotesAdvance ==
  writer = "submit" /\ "pending" \notin States ~> writer # "submit" \/ disturbed

\* Legal next states for a change: anything not listed is rejected.
ListedTransitionsOnly == [][CanTransition(status, status')]_changeVars
=============================================================================
