---------------------------- MODULE WorkflowSweep ----------------------------
(***************************************************************************)
(* The minute sweep: runWorkflowMaintenance under its row lease.  Every    *)
(* invocation tries to take the lease, walks the tickets in id order from  *)
(* the cursor kept in the lease row, and writes the cursor back when it    *)
(* finishes, fails, or runs out of its twenty seconds.                     *)
(*                                                                         *)
(* Taking the lease is a read and a compare-and-set; an invocation may be  *)
(* killed or outlive its lease anywhere.  A lease runs out whenever it     *)
(* likes, and an invocation may run out of time before any ticket.  What   *)
(* the sweep does to a ticket is MonitorStep of TicketWorkflow, what it    *)
(* does to the outbox is WorkflowOutbox.  The Faulty definitions are slips *)
(* that some property would notice; no specification uses them.            *)
(***************************************************************************)
EXTENDS Naturals

CONSTANTS
  Runs,       \* invocations at work at one time
  Tokens,     \* what randomUUID may draw
  None,       \* no token
  Last,       \* tickets are numbered 1..Last in the order of their ids
  MaxMishaps  \* bound: invocations killed, failing, outliving
              \* their lease or starved of time

ASSUME SweepAssumption ==
  Last \in Nat \ {0} /\ MaxMishaps \in Nat /\ None \notin Tokens

VARIABLES
  lease,    \* the jobLeases row "workflow-monitor"
  run,      \* run[r]: how far invocation r is
  visited,  \* tickets monitored since the scan began
  inTime,   \* history: invocations at work whose two minutes are not over
  mishaps

vars == <<lease, run, visited, inTime, mishaps>>

Tickets == 1..Last

\* released: leaseUntil is the epoch; lapsed: leaseUntil is past.  A cursor of
\* 0 is null.  success alternates with every new lastSuccessAt.
Lease == [owner: Tokens \cup {None}, released: BOOLEAN, lapsed: BOOLEAN,
          cursor: 0..Last, success: BOOLEAN]

RunState == [pc: {"idle"}]
  \cup [pc: {"looked"}, owner: Tokens \cup {None}, released: BOOLEAN]
  \cup [pc: {"scan", "done"}, token: Tokens, cursor: 0..Last, complete: BOOLEAN]
Idle == [pc |-> "idle"]

\* No row yet: creating one succeeds for one of several creators, just as the
\* updateIf of a row that None owns.
Init ==
  /\ lease = [owner |-> None, released |-> TRUE, lapsed |-> TRUE, cursor |-> 0,
              success |-> FALSE]
  /\ run = [r \in Runs |-> Idle]
  /\ visited = {}
  /\ inTime = {}
  /\ mishaps = 0

Active(r) == run[r].pc \in {"scan", "done"}
Holds(r) == Active(r) /\ lease.owner = run[r].token /\ ~lease.released

\* A token nobody remembers.
Unused(t) ==
  /\ t # lease.owner
  /\ \A r \in Runs : /\ Active(r) => run[r].token # t
                     /\ run[r].pc = "looked" => run[r].owner # t

-----------------------------------------------------------------------------
(* acquireLease and finishLease *)

Look(r) ==
  /\ run[r] = Idle
  /\ lease.lapsed
  /\ run' = [run EXCEPT ![r] = [pc |-> "looked", owner |-> lease.owner,
                                released |-> lease.released]]
  /\ UNCHANGED <<lease, visited, inTime, mishaps>>

\* The lease is invocation r's from here on, under a new token.
Acquire(r) ==
  /\ \E t \in Tokens :
       /\ Unused(t)
       /\ lease' = [lease EXCEPT !.owner = t, !.released = FALSE, !.lapsed = FALSE]
       /\ run' = [run EXCEPT ![r] = [pc |-> "scan", token |-> t,
                                     cursor |-> lease.cursor, complete |-> FALSE]]
  /\ inTime' = inTime \cup {r}

FaultyTake(r) ==  \* writes the row whatever happened to it since the read
  /\ run[r].pc = "looked"
  /\ Acquire(r)
  /\ UNCHANGED <<visited, mishaps>>

\* updateIf on the owner and the leaseUntil that were read.
Take(r) ==
  /\ run[r].pc = "looked"
  /\ IF lease.owner = run[r].owner /\ lease.released = run[r].released
     THEN Acquire(r)
     ELSE run' = [run EXCEPT ![r] = Idle] /\ UNCHANGED <<lease, inTime>>
  /\ UNCHANGED <<visited, mishaps>>

\* Invocation r is over.
Leave(r) == run' = [run EXCEPT ![r] = Idle] /\ inTime' = inTime \ {r}

FaultyRelease(r, succeeded) ==  \* anybody may write the cursor back
  /\ lease' = [lease EXCEPT !.released = TRUE, !.lapsed = TRUE,
       !.cursor = IF run[r].complete THEN 0 ELSE run[r].cursor,
       !.success = IF succeeded /\ run[r].complete THEN ~@ ELSE @]
  /\ visited' = IF run[r].complete THEN {} ELSE visited
  /\ Leave(r)

FaultySuccess(r, succeeded) ==  \* every run that ends well is fresh
  /\ IF Holds(r)
     THEN /\ lease' = [lease EXCEPT !.released = TRUE, !.lapsed = TRUE,
               !.cursor = IF run[r].complete THEN 0 ELSE run[r].cursor,
               !.success = IF succeeded THEN ~@ ELSE @]
          /\ visited' = IF run[r].complete THEN {} ELSE visited
     ELSE UNCHANGED <<lease, visited>>
  /\ Leave(r)

FaultyEnd(r, succeeded) ==  \* a complete scan does not start over
  /\ IF Holds(r)
     THEN lease' = [lease EXCEPT !.released = TRUE, !.lapsed = TRUE,
                      !.cursor = run[r].cursor,
                      !.success = IF succeeded /\ run[r].complete THEN ~@ ELSE @]
     ELSE UNCHANGED lease
  /\ UNCHANGED visited
  /\ Leave(r)

\* The scan ends at the cursor it reached; a complete scan starts over.
Release(r, succeeded) ==
  LET reached == IF run[r].complete THEN 0 ELSE run[r].cursor
      fresh == succeeded /\ run[r].complete
  IN /\ IF Holds(r)
        THEN /\ lease' = [lease EXCEPT !.released = TRUE, !.lapsed = TRUE,
                            !.cursor = reached,
                            !.success = IF fresh THEN ~@ ELSE @]
             /\ visited' = IF reached = 0 THEN {} ELSE visited
        ELSE UNCHANGED <<lease, visited>>
     /\ Leave(r)

-----------------------------------------------------------------------------
(* runWorkflowMaintenance *)

\* The next ticket of the page, in a transaction of its own.
Visit(r, t) ==
  /\ run[r].pc = "scan" /\ t = run[r].cursor + 1
  /\ visited' = visited \cup {t}
  /\ run' = [run EXCEPT ![r].cursor = t]
  /\ UNCHANGED <<lease, inTime, mishaps>>

\* A short page whose last ticket was visited: no ticket is left.
Complete(r) ==
  /\ run[r].pc = "scan" /\ run[r].cursor = Last
  /\ run' = [run EXCEPT ![r].pc = "done", ![r].complete = TRUE]
  /\ UNCHANGED <<lease, visited, inTime, mishaps>>

\* The twenty seconds are over; before the first ticket, that is a mishap.
OutOfTime(r) ==
  /\ run[r].pc = "scan"
  /\ IF run[r].cursor > lease.cursor
     THEN UNCHANGED mishaps
     ELSE mishaps < MaxMishaps /\ mishaps' = mishaps + 1
  /\ run' = [run EXCEPT ![r].pc = "done"]
  /\ UNCHANGED <<lease, visited, inTime>>

\* Clean-up and outbox are through: the cursor is written back.
Finish(r) ==
  /\ run[r].pc = "done"
  /\ Release(r, TRUE)
  /\ UNCHANGED mishaps

\* A ticket, the clean-up or the outbox threw: the cursor is written back,
\* the success is not.
Fail(r) ==
  /\ Active(r) /\ mishaps < MaxMishaps
  /\ mishaps' = mishaps + 1
  /\ Release(r, FALSE)

-----------------------------------------------------------------------------
(* The surroundings *)

Kill(r) ==
  /\ run[r] # Idle /\ mishaps < MaxMishaps
  /\ mishaps' = mishaps + 1
  /\ Leave(r)
  /\ UNCHANGED <<lease, visited>>

\* Two minutes after the lease was taken, and any taken before it; counted while
\* its holder lives.
LeaseExpires ==
  /\ ~lease.lapsed
  /\ IF \E r \in Runs : Holds(r)
     THEN mishaps < MaxMishaps /\ mishaps' = mishaps + 1
     ELSE UNCHANGED mishaps
  /\ lease' = [lease EXCEPT !.lapsed = TRUE]
  /\ inTime' = {}
  /\ UNCHANGED <<run, visited>>

Sweep(r) == (\E t \in Tickets : Visit(r, t)) \/ Complete(r)
Step(r) == Look(r) \/ Take(r) \/ Sweep(r) \/ Finish(r)

Next ==
  \/ \E r \in Runs : Step(r) \/ OutOfTime(r) \/ Fail(r) \/ Kill(r)
  \/ LeaseExpires

Spec == Init /\ [][Next]_vars

\* The trigger calls every minute, an invocation runs on until it is killed,
\* and time passes.
Fairness == (\A r \in Runs : WF_vars(Step(r))) /\ WF_vars(LeaseExpires)
FairSpec == Spec /\ Fairness

-----------------------------------------------------------------------------
(* Properties *)

\* Row and invocations are well formed.
TypeOK ==
  /\ lease \in Lease
  /\ run \in [Runs -> RunState]
  /\ visited \subseteq Tickets
  /\ inTime \subseteq Runs
  /\ mishaps \in Nat

\* The lease excludes: an invocation whose two minutes are not over is the only
\* such one, and nobody has taken or released the lease under it, although all
\* who saw the last lease run out tried to take the next one.
OneHolder == \A r \in inTime : inTime = {r} /\ Holds(r)

\* No ticket is skipped: every ticket up to the saved cursor, and up to the
\* holder's own, was monitored in this scan.
NoTicketSkipped ==
  /\ 1..lease.cursor \subseteq visited
  /\ \A r \in Runs : Holds(r) => 1..run[r].cursor \subseteq visited

\* "Freshness updates only when the full cursor scan completes."
FreshMeansComplete ==
  [][lease'.success # lease.success => visited = Tickets]_vars

\* Every ticket is monitored again and again.
EveryTicketMonitored ==
  \A t \in Tickets : []<><<\E r \in Runs : Visit(r, t)>>_vars

=============================================================================
