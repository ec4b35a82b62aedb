------------------------ MODULE WorkflowSweep_proofs ------------------------
(***************************************************************************)
(* The lease excludes, the scan skips no ticket and a success is           *)
(* recorded only after a whole scan, for any number of invocations,        *)
(* tickets and mishaps.                                                    *)
(*                                                                         *)
(* Invocations at work drew different tokens (OneToken), so the row names  *)
(* one of them at most, and the scan of a holder is complete only at the   *)
(* last ticket (AtTheEnd).  A lease that has not run out is not the one    *)
(* that anybody at the compare-and-set has read (InUse).                   *)
(***************************************************************************)
EXTENDS WorkflowSweep, TLAPS

OneToken ==
  \A r, s \in Runs : Active(r) /\ Active(s) /\ run[r].token = run[s].token => r = s

AtTheEnd == \A r \in Runs : Active(r) /\ run[r].complete => run[r].cursor = Last

SweepInv == TypeOK /\ OneToken /\ AtTheEnd /\ NoTicketSkipped

Walking == [pc: {"scan", "done"}, token: Tokens, cursor: 0..Last, complete: BOOLEAN]

-----------------------------------------------------------------------------

LEMMA RunType ==
  ASSUME TypeOK, NEW r \in Runs
  PROVE  /\ run[r].pc \in {"idle", "looked", "scan", "done"}
         /\ Active(r) => run[r] \in Walking
BY DEF TypeOK, RunState, Idle, Active, Walking

\* One invocation stops, or looks at the lease: nobody else is concerned.
LEMMA LeaveStep ==
  ASSUME SweepInv, NEW r \in Runs, run' \in [Runs -> RunState], ~Active(r)',
         \A s \in Runs \ {r} : run'[s] = run[s],
         UNCHANGED <<lease, visited>>, inTime' \subseteq Runs, mishaps' \in Nat
  PROVE  SweepInv'
<1>1. TypeOK'
  BY DEF SweepInv, TypeOK
<1>2. \A s \in Runs : Active(s)' => s # r /\ run'[s] = run[s] /\ Active(s)
  BY DEF Active
<1>3. OneToken' /\ AtTheEnd'
  BY <1>2 DEF SweepInv, OneToken, AtTheEnd
<1>4. \A s \in Runs : Holds(s)' => Holds(s) /\ run'[s] = run[s]
  BY <1>2 DEF Holds
<1>5. NoTicketSkipped'
  BY <1>4 DEF SweepInv, NoTicketSkipped
<1>6. QED
  BY <1>1, <1>3, <1>5 DEF SweepInv

\* One invocation goes on walking under its token.
LEMMA WalkStep ==
  ASSUME SweepInv, NEW r \in Runs, Active(r), NEW w \in Walking,
         run' = [run EXCEPT ![r] = w], w.token = run[r].token,
         w.complete => w.cursor = Last,
         visited' \subseteq Tickets, visited \subseteq visited',
         Holds(r) => 1..w.cursor \subseteq visited',
         UNCHANGED <<lease, inTime>>, mishaps' \in Nat
  PROVE  SweepInv'
<1>1. run' \in [Runs -> RunState] /\ run'[r] = w
      /\ \A s \in Runs \ {r} : run'[s] = run[s]
  BY DEF SweepInv, TypeOK, RunState, Walking
<1>2. TypeOK'
  BY <1>1 DEF SweepInv, TypeOK
<1>3. \A s \in Runs : /\ Active(s)' <=> Active(s)
                      /\ run'[s].token = run[s].token \/ ~Active(s)
  BY <1>1 DEF Active, Walking
<1>4. OneToken'
  BY <1>3 DEF SweepInv, OneToken
<1>5. AtTheEnd'
  BY <1>1, <1>3 DEF SweepInv, AtTheEnd
<1>6. \A s \in Runs : Holds(s)' <=> Holds(s)
  BY <1>3 DEF Holds
<1>7. NoTicketSkipped'
  BY <1>1, <1>6 DEF SweepInv, NoTicketSkipped
<1>8. QED
  BY <1>2, <1>4, <1>5, <1>7 DEF SweepInv

\* acquireLease: the new holder starts where the last one stopped.
LEMMA TakeStep ==
  ASSUME SweepInv, NEW r \in Runs, Take(r)
  PROVE  SweepInv'
<1>1. CASE run' = [run EXCEPT ![r] = Idle] /\ UNCHANGED lease
  <2>1. /\ run' \in [Runs -> RunState] /\ ~Active(r)'
        /\ \A s \in Runs \ {r} : run'[s] = run[s]
    BY <1>1 DEF SweepInv, TypeOK, RunState, Idle, Active
  <2>2. mishaps' \in Nat /\ visited' = visited /\ inTime' \subseteq Runs
    BY DEF Take, Acquire, SweepInv, TypeOK
  <2>3. QED
    BY <1>1, <2>1, <2>2, LeaveStep
<1>2. CASE ~(run' = [run EXCEPT ![r] = Idle] /\ UNCHANGED lease)
  <2>1. PICK t \in Tokens :
          /\ Unused(t)
          /\ lease' = [lease EXCEPT !.owner = t, !.released = FALSE, !.lapsed = FALSE]
          /\ run' = [run EXCEPT ![r] = [pc |-> "scan", token |-> t,
                       cursor |-> lease.cursor, complete |-> FALSE]]
    BY <1>2 DEF Take, Acquire
  <2>2. /\ lease' \in Lease /\ lease'.owner = t /\ lease'.cursor = lease.cursor
    BY <2>1 DEF SweepInv, TypeOK, Lease
  <2>3. /\ run' \in [Runs -> RunState]
        /\ run'[r] = [pc |-> "scan", token |-> t, cursor |-> lease.cursor,
                      complete |-> FALSE]
        /\ \A s \in Runs \ {r} : run'[s] = run[s]
    BY <2>1 DEF SweepInv, TypeOK, RunState, Lease
  <2>4. visited' = visited /\ mishaps' = mishaps /\ inTime' \subseteq Runs
    BY DEF Take, Acquire, SweepInv, TypeOK
  <2>5. TypeOK'
    BY <2>2, <2>3, <2>4 DEF SweepInv, TypeOK
  <2>6. \A s \in Runs \ {r} : (Active(s)' <=> Active(s)) /\ (Active(s) => run[s].token # t)
    BY <2>1, <2>3 DEF Active, Unused
  <2>7. OneToken' /\ AtTheEnd'
    BY <2>3, <2>6 DEF SweepInv, OneToken, AtTheEnd
  <2>8. \A s \in Runs : Holds(s)' => s = r
    BY <2>2, <2>3, <2>6 DEF Holds
  <2>9. NoTicketSkipped'
    BY <2>2, <2>3, <2>4, <2>8 DEF SweepInv, NoTicketSkipped
  <2>10. QED
    BY <2>5, <2>7, <2>9 DEF SweepInv
<1>3. QED
  BY <1>1, <1>2

\* finishLease: only the holder writes the cursor it reached.
LEMMA ReleaseStep ==
  ASSUME SweepInv, NEW r \in Runs, Active(r), NEW succeeded \in BOOLEAN,
         Release(r, succeeded), mishaps' \in Nat
  PROVE  SweepInv'
<1>1. /\ run' \in [Runs -> RunState] /\ ~Active(r)'
      /\ \A s \in Runs \ {r} : run'[s] = run[s]
      /\ inTime' \subseteq Runs
  BY DEF Release, Leave, SweepInv, TypeOK, RunState, Idle, Active
<1>2. CASE ~Holds(r)
  BY <1>1, <1>2, LeaveStep DEF Release
<1>3. CASE Holds(r)
  <2> DEFINE reached == IF run[r].complete THEN 0 ELSE run[r].cursor
  <2>1. run[r].cursor \in 0..Last /\ reached \in 0..Last
    BY RunType, SweepAssumption DEF SweepInv, Walking
  <2>2. /\ lease' = [lease EXCEPT !.released = TRUE, !.lapsed = TRUE,
                       !.cursor = reached,
                       !.success = IF succeeded /\ run[r].complete THEN ~@ ELSE @]
        /\ visited' = IF reached = 0 THEN {} ELSE visited
    BY <1>3 DEF Release
  <2>3. lease' \in Lease /\ lease'.released /\ lease'.cursor = reached
    BY <2>1, <2>2 DEF SweepInv, TypeOK, Lease
  <2>4. TypeOK'
    BY <1>1, <2>2, <2>3 DEF SweepInv, TypeOK
  <2>5. \A s \in Runs : Active(s)' => s # r /\ run'[s] = run[s] /\ Active(s)
    BY <1>1 DEF Active
  <2>6. OneToken' /\ AtTheEnd'
    BY <2>5 DEF SweepInv, OneToken, AtTheEnd
  <2>7. \A s \in Runs : ~Holds(s)'
    BY <2>3 DEF Holds
  <2>8. 1..reached \subseteq visited'
    <3>1. CASE reached = 0
      BY <3>1
    <3>2. CASE reached # 0
      BY <1>3, <2>2, <3>2 DEF SweepInv, NoTicketSkipped
    <3>3. QED
      BY <3>1, <3>2
  <2>9. NoTicketSkipped'
    BY <2>3, <2>7, <2>8 DEF NoTicketSkipped
  <2>10. QED
    BY <2>4, <2>6, <2>9 DEF SweepInv
<1>4. QED
  BY <1>2, <1>3

LEMMA VisitStep ==
  ASSUME SweepInv, NEW r \in Runs, NEW t \in Tickets, Visit(r, t)
  PROVE  SweepInv'
<1>1. Active(r) /\ run[r] \in Walking /\ t = run[r].cursor + 1 /\ t \in 1..Last
  BY RunType DEF Visit, Active, SweepInv, Tickets
<1> DEFINE w == [run[r] EXCEPT !.cursor = t]
<1>2. w \in Walking /\ w.token = run[r].token /\ w.cursor = t
      /\ w.complete = run[r].complete
  BY <1>1 DEF Walking
<1>3. run' = [run EXCEPT ![r] = w] /\ visited' = visited \cup {t}
      /\ UNCHANGED <<lease, inTime, mishaps>>
  BY DEF Visit
<1>4. ~w.complete
  BY <1>1, <1>2, SweepAssumption DEF SweepInv, AtTheEnd, Walking
<1>5. Holds(r) => 1..t \subseteq visited'
  <2>1. run[r].cursor \in Nat /\ 1..t = 1..run[r].cursor \cup {t}
    BY <1>1, SweepAssumption DEF Walking
  <2>2. QED
    BY <1>3, <2>1 DEF SweepInv, NoTicketSkipped
<1>6. QED
  <2>1. visited' \subseteq Tickets /\ visited \subseteq visited' /\ mishaps' \in Nat
    BY <1>3 DEF SweepInv, TypeOK
  <2> HIDE DEF w
  <2>2. QED
    BY <1>1, <1>2, <1>3, <1>4, <1>5, <2>1, WalkStep

\* The scan stops at the last ticket, or when the time is over.
LEMMA StopStep ==
  ASSUME SweepInv, NEW r \in Runs, Complete(r) \/ OutOfTime(r)
  PROVE  SweepInv'
<1>1. Active(r) /\ run[r] \in Walking
  BY RunType DEF Complete, OutOfTime, Active, SweepInv
<1>2. PICK w \in Walking : /\ run' = [run EXCEPT ![r] = w]
                           /\ w.token = run[r].token /\ w.cursor = run[r].cursor
                           /\ w.complete => w.cursor = Last
  <2>1. CASE Complete(r)
    <3> DEFINE w == [[run[r] EXCEPT !.pc = "done"] EXCEPT !.complete = TRUE]
    <3>1. /\ w \in Walking /\ w.token = run[r].token /\ w.cursor = run[r].cursor
          /\ run[r].cursor = Last
      BY <1>1, <2>1 DEF Complete, Walking
    <3>2. run' = [run EXCEPT ![r] = w]
      BY <2>1 DEF Complete, SweepInv, TypeOK
    <3>3. QED
      BY <3>1, <3>2
  <2>2. CASE OutOfTime(r)
    <3> DEFINE w == [run[r] EXCEPT !.pc = "done"]
    <3>1. /\ w \in Walking /\ w.token = run[r].token /\ w.cursor = run[r].cursor
          /\ w.complete = run[r].complete
      BY <1>1 DEF Walking
    <3>2. run' = [run EXCEPT ![r] = w]
      BY <2>2 DEF OutOfTime
    <3>3. w.complete => w.cursor = Last
      BY <1>1, <3>1 DEF SweepInv, AtTheEnd
    <3>4. QED
      BY <3>1, <3>2, <3>3
  <2>3. QED
    BY <2>1, <2>2
<1>3. visited' = visited /\ visited \subseteq Tickets /\ UNCHANGED <<lease, inTime>>
  BY DEF Complete, OutOfTime, SweepInv, TypeOK
<1>4. mishaps' \in Nat
  BY DEF Complete, OutOfTime, SweepInv, TypeOK
<1>5. Holds(r) => 1..w.cursor \subseteq visited'
  BY <1>2, <1>3 DEF SweepInv, NoTicketSkipped
<1>6. QED
  BY <1>1, <1>2, <1>3, <1>4, <1>5, WalkStep

LEMMA SweepStep == SweepInv /\ [Next]_vars => SweepInv'
<1> SUFFICES ASSUME SweepInv, [Next]_vars PROVE SweepInv'
  OBVIOUS
<1>1. CASE UNCHANGED vars
  BY <1>1 DEF vars, SweepInv, TypeOK, OneToken, AtTheEnd, NoTicketSkipped, Active, Holds
<1>2. ASSUME NEW r \in Runs, Look(r) PROVE SweepInv'
  <2>1. /\ run' \in [Runs -> RunState] /\ ~Active(r)'
        /\ \A s \in Runs \ {r} : run'[s] = run[s]
    BY <1>2 DEF Look, SweepInv, TypeOK, RunState, Lease, Active
  <2>2. mishaps' \in Nat /\ inTime' \subseteq Runs
    BY <1>2 DEF Look, SweepInv, TypeOK
  <2>3. QED
    BY <1>2, <2>1, <2>2, LeaveStep DEF Look
<1>3. ASSUME NEW r \in Runs, Kill(r) PROVE SweepInv'
  <2>1. /\ run' \in [Runs -> RunState] /\ ~Active(r)'
        /\ \A s \in Runs \ {r} : run'[s] = run[s]
    BY <1>3 DEF Kill, Leave, SweepInv, TypeOK, RunState, Idle, Active
  <2>2. mishaps' \in Nat /\ inTime' \subseteq Runs
    BY <1>3 DEF Kill, Leave, SweepInv, TypeOK
  <2>3. QED
    BY <1>3, <2>1, <2>2, LeaveStep DEF Kill
<1>4. ASSUME NEW r \in Runs, Finish(r) \/ Fail(r) PROVE SweepInv'
  <2>1. mishaps \in Nat
    BY DEF SweepInv, TypeOK
  <2>2. CASE Finish(r)
    <3>1. Active(r) /\ mishaps' = mishaps /\ Release(r, TRUE)
      BY <2>2 DEF Finish, Active
    <3>2. QED
      BY <2>1, <3>1, ReleaseStep
  <2>3. CASE Fail(r)
    <3>1. Active(r) /\ mishaps' = mishaps + 1 /\ Release(r, FALSE)
      BY <2>3 DEF Fail
    <3>2. mishaps' \in Nat
      BY <2>1, <3>1
    <3>3. QED
      BY <3>1, <3>2, ReleaseStep
  <2>4. QED
    BY <1>4, <2>2, <2>3
<1>5. CASE LeaseExpires
  <2>1. lease' \in Lease /\ lease'.owner = lease.owner /\ lease'.cursor = lease.cursor
        /\ lease'.released = lease.released
    BY <1>5 DEF LeaseExpires, SweepInv, TypeOK, Lease
  <2>2. mishaps' \in Nat /\ inTime' \subseteq Runs
    BY <1>5 DEF LeaseExpires, SweepInv, TypeOK
  <2>3. QED
    BY <1>5, <2>1, <2>2 DEF LeaseExpires, SweepInv, TypeOK, OneToken, AtTheEnd,
       NoTicketSkipped, Active, Holds
<1>6. QED
  BY <1>1, <1>2, <1>3, <1>4, <1>5, TakeStep, VisitStep, StopStep DEF Next, Step, Sweep

LEMMA SweepInit == Init => SweepInv
<1> SUFFICES ASSUME Init PROVE SweepInv
  OBVIOUS
<1>1. lease \in Lease /\ lease.cursor = 0
  BY SweepAssumption DEF Init, Lease
<1>2. run \in [Runs -> RunState]
  BY DEF Init, RunState, Idle
<1>3. \A r \in Runs : ~Active(r)
  BY DEF Init, Idle, Active
<1>4. TypeOK
  BY <1>1, <1>2 DEF Init, TypeOK
<1>5. NoTicketSkipped
  BY <1>1, <1>3 DEF NoTicketSkipped, Holds
<1>6. QED
  BY <1>3, <1>4, <1>5 DEF SweepInv, OneToken, AtTheEnd

\* Lease row and invocations of runWorkflowMaintenance stay well formed.
THEOREM SweepTypes == Spec => []TypeOK
<1>1. SweepInv => TypeOK
  BY DEF SweepInv
<1>2. QED
  BY <1>1, SweepInit, SweepStep, PTL DEF Spec

-----------------------------------------------------------------------------
(* The lease excludes *)

\* What invocation r has read of the lease is what the row says.
SeesRow(r) ==
  /\ run[r].pc = "looked"
  /\ lease.owner = run[r].owner /\ lease.released = run[r].released

\* A lease that has not run out is in use: whoever looked at the row has seen
\* another one, since every lease has an owner of its own.
InUse ==
  /\ inTime # {} => ~lease.lapsed
  /\ \A r \in Runs : SeesRow(r) => lease.lapsed

HolderInv == InUse /\ OneHolder

\* A step that leaves the row alone, and that no invocation in time ends or
\* joins, keeps the lease exclusive.
LEMMA SameHolder ==
  ASSUME TypeOK, HolderInv, NEW r \in Runs, lease' = lease,
         inTime' \subseteq inTime,
         \A s \in Runs \ {r} : run'[s] = run[s],
         SeesRow(r)' => lease.lapsed,
         r \in inTime' => Active(r)' /\ run'[r].token = run[r].token
  PROVE  HolderInv'
<1>1. \A s \in Runs : SeesRow(s)' => lease'.lapsed
  BY DEF HolderInv, InUse, SeesRow
<1>2. inTime' # {} => ~lease'.lapsed
  BY DEF HolderInv, InUse
<1>3. ASSUME NEW s \in inTime'
      PROVE  inTime' = {s} /\ Holds(s)'
  <2>1. s \in inTime /\ inTime = {s} /\ Holds(s) /\ s \in Runs
    BY <1>3 DEF HolderInv, OneHolder, TypeOK
  <2>2. inTime' = {s}
    BY <1>3, <2>1
  <2>3. Active(s)' /\ run'[s].token = run[s].token
    BY <1>3, <2>1 DEF Active, Holds
  <2>4. QED
    BY <2>1, <2>2, <2>3 DEF Holds
<1>4. QED
  BY <1>1, <1>2, <1>3 DEF HolderInv, InUse, OneHolder

\* updateIf lets one of those who saw the last lease run out take the next one.
LEMMA TakeHolder ==
  ASSUME TypeOK, HolderInv, NEW r \in Runs, Take(r)
  PROVE  HolderInv'
<1>1. CASE ~SeesRow(r)
  <2>1. /\ run' = [run EXCEPT ![r] = Idle] /\ UNCHANGED <<lease, inTime>>
        /\ run[r].pc = "looked"
    BY <1>1 DEF Take, SeesRow
  <2>2. /\ run'[r] = Idle
        /\ \A s \in Runs \ {r} : run'[s] = run[s]
    BY <2>1 DEF TypeOK
  <2>3. r \notin inTime'
    BY <2>1 DEF HolderInv, OneHolder, Holds, Active
  <2>4. ~SeesRow(r)'
    BY <2>2 DEF SeesRow, Idle
  <2>5. QED
    BY <2>1, <2>2, <2>3, <2>4, SameHolder
<1>2. CASE SeesRow(r)
  <2>1. inTime = {}
    BY <1>2 DEF HolderInv, InUse
  <2>2. Acquire(r)
    BY <1>2 DEF Take, SeesRow
  <2>3. PICK t \in Tokens :
          /\ Unused(t)
          /\ lease' = [lease EXCEPT !.owner = t, !.released = FALSE, !.lapsed = FALSE]
          /\ run' = [run EXCEPT ![r] = [pc |-> "scan", token |-> t,
                       cursor |-> lease.cursor, complete |-> FALSE]]
    BY <2>2 DEF Acquire
  <2>4. lease'.owner = t /\ ~lease'.released /\ ~lease'.lapsed
    BY <2>3 DEF TypeOK, Lease
  <2>5. /\ run'[r].pc = "scan" /\ run'[r].token = t
        /\ \A s \in Runs \ {r} : run'[s] = run[s]
    BY <2>3 DEF TypeOK
  <2>6. inTime' = {r}
    BY <2>1, <2>2 DEF Acquire
  <2>7. Holds(r)'
    BY <2>4, <2>5 DEF Holds, Active
  <2>8. ASSUME NEW s \in Runs
        PROVE  ~SeesRow(s)'
    BY <2>3, <2>4, <2>5 DEF SeesRow, Unused
  <2>9. QED
    BY <2>4, <2>6, <2>7, <2>8 DEF HolderInv, InUse, OneHolder
<1>3. QED
  BY <1>1, <1>2

\* finishLease ends the lease of the invocation itself or nobody's.
LEMMA ReleaseHolder ==
  ASSUME SweepInv, HolderInv, NEW r \in Runs, NEW succeeded \in BOOLEAN,
         Release(r, succeeded)
  PROVE  HolderInv'
<1>1. /\ run'[r] = Idle /\ inTime' = inTime \ {r}
      /\ \A s \in Runs \ {r} : run'[s] = run[s]
  BY DEF Release, Leave, SweepInv, TypeOK
<1>2. ~SeesRow(r)'
  BY <1>1 DEF SeesRow, Idle
<1>3. CASE ~Holds(r)
  BY <1>1, <1>2, <1>3, SameHolder DEF Release, SweepInv
<1>4. CASE Holds(r)
  <2>1. lease'.lapsed /\ lease'.released
    BY <1>4 DEF Release, SweepInv, TypeOK, Lease
  <2>2. ASSUME NEW s \in inTime
        PROVE  s = r
    <3>1. Holds(s) /\ s \in Runs
      BY DEF HolderInv, OneHolder, SweepInv, TypeOK
    <3>2. QED
      BY <1>4, <3>1 DEF Holds, SweepInv, OneToken
  <2>3. inTime' = {}
    BY <1>1, <2>2
  <2>4. QED
    BY <2>1, <2>3 DEF HolderInv, InUse, OneHolder
<1>5. QED
  BY <1>3, <1>4

LEMMA HolderStep == SweepInv /\ HolderInv /\ [Next]_vars => HolderInv'
<1> SUFFICES ASSUME SweepInv, HolderInv, [Next]_vars PROVE HolderInv'
  OBVIOUS
<1>0. TypeOK
  BY DEF SweepInv
<1>1. CASE UNCHANGED vars
  BY <1>1 DEF vars, HolderInv, InUse, OneHolder, SeesRow, Holds, Active
<1>2. ASSUME NEW r \in Runs, Look(r) PROVE HolderInv'
  <2>1. /\ r \notin inTime /\ lease.lapsed
    BY <1>2 DEF Look, HolderInv, OneHolder, Holds, Active, Idle
  <2>2. UNCHANGED <<lease, inTime>> /\ \A s \in Runs \ {r} : run'[s] = run[s]
    BY <1>2 DEF Look, SweepInv, TypeOK
  <2>3. QED
    BY <1>0, <2>1, <2>2, SameHolder
<1>3. ASSUME NEW r \in Runs, Kill(r) PROVE HolderInv'
  <2>1. /\ run'[r] = Idle /\ inTime' = inTime \ {r} /\ lease' = lease
        /\ \A s \in Runs \ {r} : run'[s] = run[s]
    BY <1>3 DEF Kill, Leave, SweepInv, TypeOK
  <2>2. ~SeesRow(r)'
    BY <2>1 DEF SeesRow, Idle
  <2>3. QED
    BY <1>0, <2>1, <2>2, SameHolder
<1>4. ASSUME NEW r \in Runs, (\E t \in Tickets : Visit(r, t)) \/ Complete(r) \/ OutOfTime(r)
      PROVE  HolderInv'
  <2>1. Active(r) /\ run[r] \in Walking
    BY <1>0, <1>4, RunType DEF Visit, Complete, OutOfTime, Active
  <2>2. /\ UNCHANGED <<lease, inTime>>
        /\ \A s \in Runs \ {r} : run'[s] = run[s]
    BY <1>4 DEF Visit, Complete, OutOfTime, SweepInv, TypeOK
  <2>3. run'[r].pc \in {"scan", "done"} /\ run'[r].token = run[r].token
    BY <1>4, <2>1 DEF Visit, Complete, OutOfTime, SweepInv, TypeOK, Walking
  <2>4. Active(r)' /\ ~SeesRow(r)'
    BY <2>3 DEF Active, SeesRow
  <2>5. QED
    BY <1>0, <2>2, <2>3, <2>4, SameHolder
<1>5. ASSUME NEW r \in Runs, Finish(r) \/ Fail(r) PROVE HolderInv'
  BY <1>5, ReleaseHolder DEF Finish, Fail
<1>6. CASE LeaseExpires
  <2>1. lease'.lapsed /\ inTime' = {}
    BY <1>0, <1>6 DEF LeaseExpires, TypeOK, Lease
  <2>2. QED
    BY <2>1 DEF HolderInv, InUse, OneHolder
<1>7. QED
  BY <1>0, <1>1, <1>2, <1>3, <1>4, <1>5, <1>6, TakeHolder DEF Next, Step, Sweep

\* acquireLease excludes: while the two minutes of an invocation last, no other one
\* gets a lease or ends this one, however many saw the last lease run out.
THEOREM OneHolderAtATime == Spec => []OneHolder
<1>1. Init => HolderInv
  BY DEF Init, HolderInv, InUse, OneHolder, SeesRow, Idle
<1>2. HolderInv => OneHolder
  BY DEF HolderInv
<1>3. QED
  BY <1>1, <1>2, SweepInit, SweepStep, HolderStep, PTL DEF Spec

-----------------------------------------------------------------------------

\* Every ticket before the saved cursor was monitored in this scan.
THEOREM NothingSkipped == Spec => []NoTicketSkipped
<1>1. SweepInv => NoTicketSkipped
  BY DEF SweepInv
<1>2. QED
  BY <1>1, SweepInit, SweepStep, PTL DEF Spec

\* The success the monitoring page shows is that of a whole scan.
THEOREM FreshOnlyWhenComplete == Spec => FreshMeansComplete
<1> DEFINE Fresh == lease'.success # lease.success => visited = Tickets
<1>1. ASSUME SweepInv, Next PROVE Fresh
  <2> SUFFICES ASSUME lease'.success # lease.success PROVE visited = Tickets
    OBVIOUS
  <2>1. lease \in Lease
    BY <1>1 DEF SweepInv, TypeOK
  <2>2. ~LeaseExpires
    BY <2>1 DEF LeaseExpires, Lease
  <2>3. \A r \in Runs : ~(Look(r) \/ Sweep(r) \/ OutOfTime(r) \/ Kill(r))
    BY DEF Look, Sweep, Visit, Complete, OutOfTime, Kill
  <2>4. \A r \in Runs : ~Take(r)
    BY <2>1 DEF Take, Acquire, Lease
  <2>5. PICK r \in Runs : Finish(r) \/ Fail(r)
    BY <1>1, <2>2, <2>3, <2>4 DEF Next, Step
  <2>6. PICK succeeded \in BOOLEAN : Release(r, succeeded)
    BY <2>5 DEF Finish, Fail
  <2>7. Active(r) /\ Holds(r) /\ run[r].complete
    BY <2>1, <2>6 DEF Release, Lease, Holds
  <2>8. 1..Last \subseteq visited /\ visited \subseteq Tickets
    BY <1>1, <2>7 DEF SweepInv, AtTheEnd, NoTicketSkipped, TypeOK
  <2>9. QED
    BY <2>8 DEF Tickets
<1>2. ASSUME SweepInv, [Next]_vars PROVE [Fresh]_vars
  BY <1>1, <1>2
<1>3. QED
  BY <1>2, SweepInit, SweepStep, PTL DEF Spec, FreshMeansComplete
=============================================================================
