--------------------------- MODULE WorkflowOutbox ---------------------------
(***************************************************************************)
(* One mail in the durable outbox (a notificationDeliveries row), and the  *)
(* invocations of drainWorkflowOutbox that try to deliver it.              *)
(*                                                                         *)
(* The row is claimed with a compare-and-set that draws a fresh owner      *)
(* token and a lease of two minutes.  Reading the ticket, calling the mail *)
(* provider and recording the outcome are separate steps: an invocation    *)
(* may be killed, or outlive its lease, between any two of them.           *)
(*                                                                         *)
(* Time is abstract: a lease runs out and a retry falls due whenever they  *)
(* like.  Tokens are random in the code; here they count the claims.  The  *)
(* Faulty definitions are slips that some property would notice; no        *)
(* specification uses them.                                                *)
(***************************************************************************)
EXTENDS Naturals

CONSTANTS
  Runs,         \* invocations of drainWorkflowOutbox at work at one time
  MaxAttempts,  \* attempts after which a failing delivery is given up
  MaxRequeues,  \* bound: times an administrator requeues the failed mail
  MaxMishaps    \* bound: invocations killed or outliving their lease

ASSUME OutboxAssumption ==
  MaxAttempts \in Nat \ {0} /\ MaxRequeues \in Nat /\ MaxMishaps \in Nat

VARIABLES
  row,       \* the delivery row
  run,       \* run[r]: how far invocation r is with this row
  wanted,    \* ticket, recipient and resolution still ask for the mail
  claims,    \* tokens drawn so far
  accepted,  \* times the mail provider accepted the mail
  requeues,  \* times the mail was requeued
  mishaps,   \* invocations killed or outliving their lease so far
  doubt      \* a lease or an acceptance was lost on the way

vars == <<row, run, wanted, claims, accepted, requeues, mishaps, doubt>>

Open == {"pending", "sending"}
Over == {"sent", "suppressed", "failed"}

\* owner 0 is null; leased: leaseUntil lies ahead; due: nextAttemptAt is past.
Row == [status: Open \cup Over \cup {"removed"}, attempts: Nat, owner: Nat,
        leased: BOOLEAN, due: BOOLEAN]

\* What updateIf compares when a listed row is claimed.
Seen == [status: Open, attempts: Nat, owner: Nat]
Steps == {"judge", "drop", "send", "record", "fail"}
RunState == [pc: {"idle"}] \cup [pc: {"listed"}, seen: Seen]
                           \cup [pc: Steps, owner: Nat, attempts: Nat]
Idle == [pc |-> "idle"]

\* queueWorkflowNotice, inside the transaction of the ticket event.
Init ==
  /\ row = [status |-> "pending", attempts |-> 0, owner |-> 0,
            leased |-> FALSE, due |-> TRUE]
  /\ run = [r \in Runs |-> Idle]
  /\ wanted = TRUE
  /\ claims = 0 /\ accepted = 0 /\ requeues = 0 /\ mishaps = 0
  /\ doubt = FALSE

Goto(r, pc) == run' = [run EXCEPT ![r].pc = pc]
Leave(r) == run' = [run EXCEPT ![r] = Idle]

\* A live invocation that still owns the row's claim.
Holds(r) == run[r].pc \in Steps /\ row.owner = run[r].owner

FaultyList(r) ==  \* forgets abandoned deliveries
  /\ run[r] = Idle
  /\ row.status = "pending" /\ row.due
  /\ run' = [run EXCEPT ![r] = [pc |-> "listed",
               seen |-> [status |-> row.status, attempts |-> row.attempts,
                         owner |-> row.owner]]]
  /\ UNCHANGED <<row, wanted, claims, accepted, requeues, mishaps, doubt>>

\* The row is in the lists of pending and of abandoned deliveries, is due, and
\* nobody's lease on it is running.
List(r) ==
  /\ run[r] = Idle
  /\ row.status \in Open /\ row.due /\ ~row.leased
  /\ run' = [run EXCEPT ![r] = [pc |-> "listed",
               seen |-> [status |-> row.status, attempts |-> row.attempts,
                         owner |-> row.owner]]]
  /\ UNCHANGED <<row, wanted, claims, accepted, requeues, mishaps, doubt>>

FaultyClaim(r) ==  \* claims whatever the row has become
  /\ run[r].pc = "listed"
  /\ claims' = claims + 1
  /\ row' = [row EXCEPT !.status = "sending", !.owner = claims + 1,
                        !.leased = TRUE, !.attempts = @ + 1]
  /\ run' = [run EXCEPT ![r] = [pc |-> "judge", owner |-> claims + 1,
                                attempts |-> row.attempts + 1]]
  /\ UNCHANGED <<wanted, accepted, requeues, mishaps, doubt>>

Claim(r) ==
  /\ run[r].pc = "listed"
  /\ LET seen == run[r].seen IN
     IF row.status = seen.status /\ row.attempts = seen.attempts
          /\ row.owner = seen.owner
     THEN /\ claims' = claims + 1
          /\ row' = [row EXCEPT !.status = "sending", !.owner = claims + 1,
                                !.leased = TRUE, !.attempts = seen.attempts + 1]
          /\ run' = [run EXCEPT ![r] = [pc |-> "judge", owner |-> claims + 1,
                                        attempts |-> seen.attempts + 1]]
     ELSE Leave(r) /\ UNCHANGED <<row, claims>>
  /\ UNCHANGED <<wanted, accepted, requeues, mishaps, doubt>>

\* Obsolete mail is dropped; a read that fails counts as a failed attempt.
Judge(r) ==
  /\ run[r].pc = "judge"
  /\ Goto(r, IF wanted THEN "send" ELSE "drop") \/ Goto(r, "fail")
  /\ UNCHANGED <<row, wanted, claims, accepted, requeues, mishaps, doubt>>

FaultySettle(r, status) ==  \* writes over anybody's claim
  row' = [row EXCEPT !.status = status, !.owner = 0, !.leased = FALSE]

\* Every outcome is written only over one's own claim.
Settle(r, status) ==
  row' = IF row.owner = run[r].owner
         THEN [row EXCEPT !.status = status, !.owner = 0, !.leased = FALSE]
         ELSE row

Drop(r) ==
  /\ run[r].pc = "drop"
  /\ \/ Settle(r, "suppressed") /\ Leave(r)
     \/ Goto(r, "fail") /\ UNCHANGED row
  /\ UNCHANGED <<wanted, claims, accepted, requeues, mishaps, doubt>>

\* The provider accepts the mail, refuses it, or accepts it and times out.
Send(r) ==
  /\ run[r].pc = "send"
  /\ \/ accepted' = accepted + 1 /\ Goto(r, "record") /\ UNCHANGED doubt
     \/ Goto(r, "fail") /\ UNCHANGED <<accepted, doubt>>
     \/ accepted' = accepted + 1 /\ Goto(r, "fail") /\ doubt' = TRUE
  /\ UNCHANGED <<row, wanted, claims, requeues, mishaps>>

\* Recording the success is a transaction, which may fail too.
Record(r) ==
  /\ run[r].pc = "record"
  /\ \/ Settle(r, "sent") /\ Leave(r) /\ UNCHANGED doubt
     \/ Goto(r, "fail") /\ doubt' = TRUE /\ UNCHANGED row
  /\ UNCHANGED <<wanted, claims, accepted, requeues, mishaps>>

\* Back off, or give up after MaxAttempts.
Fail(r) ==
  /\ run[r].pc = "fail"
  /\ row' = IF row.owner = run[r].owner
            THEN [row EXCEPT
                    !.status = IF run[r].attempts >= MaxAttempts THEN "failed"
                                                                 ELSE "pending",
                    !.owner = 0, !.leased = FALSE, !.due = FALSE]
            ELSE row
  /\ Leave(r)
  /\ UNCHANGED <<wanted, claims, accepted, requeues, mishaps, doubt>>

-----------------------------------------------------------------------------
(* The surroundings *)

\* The serverless invocation is killed; nothing it knew survives.
Kill(r) ==
  /\ run[r] # Idle /\ mishaps < MaxMishaps
  /\ mishaps' = mishaps + 1
  /\ Leave(r)
  /\ UNCHANGED <<row, wanted, claims, accepted, requeues, doubt>>

\* Two minutes passed since the claim; counted when the claimant is still alive.
LeaseExpires ==
  /\ row.leased
  /\ IF \E r \in Runs : Holds(r)
     THEN mishaps < MaxMishaps /\ mishaps' = mishaps + 1
     ELSE UNCHANGED mishaps
  /\ row' = [row EXCEPT !.leased = FALSE]
  /\ doubt' = TRUE
  /\ UNCHANGED <<run, wanted, claims, accepted, requeues>>

RetryFallsDue ==
  /\ ~row.due
  /\ row' = [row EXCEPT !.due = TRUE]
  /\ UNCHANGED <<run, wanted, claims, accepted, requeues, mishaps, doubt>>

\* The ticket moves on, or the recipient's preference changes.
WantedChanges ==
  /\ wanted' = ~wanted
  /\ UNCHANGED <<row, run, claims, accepted, requeues, mishaps, doubt>>

\* "Retry failed emails" on the monitoring page.
Requeue ==
  /\ row.status = "failed" /\ requeues < MaxRequeues
  /\ requeues' = requeues + 1
  /\ row' = [row EXCEPT !.status = "pending", !.attempts = 0, !.owner = 0,
                        !.leased = FALSE, !.due = TRUE]
  /\ UNCHANGED <<run, wanted, claims, accepted, mishaps, doubt>>

\* cleanWorkflowMetadata, thirty days later.
Clean ==
  /\ row.status \in {"sent", "suppressed"}
  /\ row' = [row EXCEPT !.status = "removed"]
  /\ UNCHANGED <<run, wanted, claims, accepted, requeues, mishaps, doubt>>

Step(r) ==
  List(r) \/ Claim(r) \/ Judge(r) \/ Drop(r) \/ Send(r) \/ Record(r) \/ Fail(r)

Next ==
  \/ \E r \in Runs : Step(r) \/ Kill(r)
  \/ LeaseExpires
  \/ RetryFallsDue
  \/ WantedChanges
  \/ Requeue
  \/ Clean

Spec == Init /\ [][Next]_vars

\* The minute trigger starts an invocation again and again, each runs on until
\* it is killed, and time passes.
Fairness ==
  /\ \A r \in Runs : WF_vars(Step(r))
  /\ WF_vars(LeaseExpires)
  /\ WF_vars(RetryFallsDue)
FairSpec == Spec /\ Fairness

-----------------------------------------------------------------------------
(* Properties *)

\* Row and invocations are well formed.
TypeOK ==
  /\ row \in Row
  /\ run \in [Runs -> RunState]
  /\ wanted \in BOOLEAN /\ doubt \in BOOLEAN
  /\ claims \in Nat /\ accepted \in Nat /\ requeues \in Nat /\ mishaps \in Nat

\* The fence: a claim is held by one invocation, its token was drawn, and the
\* row counts the attempt the holder thinks it is making.
Fenced ==
  /\ \A r \in Runs : run[r].pc \in Steps => run[r].owner \in 1..claims
  /\ \A r, s \in Runs : Holds(r) /\ Holds(s) => r = s
  /\ \A r \in Runs : Holds(r) => row.status = "sending"
                                   /\ run[r].attempts = row.attempts
  /\ row.owner # 0 <=> row.status = "sending"
  /\ row.owner <= claims

\* An outcome stands: an invocation that lost its lease never overwrites what
\* a later one recorded; only an administrator reopens a failed delivery.
OutcomeStands ==
  [][row.status \in Over =>
       \/ row'.status \in {row.status, "removed"}
       \/ row.status = "failed" /\ requeues' = requeues + 1]_vars

\* Mail is recorded as sent only if the provider accepted it, and the provider
\* is given it twice only if a lease ran out or an acceptance got lost.
SentOnce ==
  /\ row.status = "sent" => accepted > 0
  /\ accepted > 1 => doubt

\* Every queued mail comes to an outcome.
DeliverySettles == row.status \in Open ~> row.status \notin Open
=============================================================================
