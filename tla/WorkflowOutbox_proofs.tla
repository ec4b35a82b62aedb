------------------------ MODULE WorkflowOutbox_proofs ------------------------
(***************************************************************************)
(* The fence around a delivery holds, outcomes stand and mail goes out     *)
(* once, for any number of invocations, attempts, requeues and mishaps.    *)
(*                                                                         *)
(* The tokens in hand differ (Distinct), so a row has one holder.  As long *)
(* as no lease and no acceptance was lost, every invocation at work is     *)
(* that holder, and once the mail was accepted the only thing it still     *)
(* does is to record this (Calm).                                          *)
(***************************************************************************)
EXTENDS WorkflowOutbox, TLAPS

AtWork(r) == run[r].pc \in Steps

Distinct ==
  \A r, s \in Runs : AtWork(r) /\ AtWork(s) /\ run[r].owner = run[s].owner => r = s

Accepted ==
  /\ \A r \in Runs : run[r].pc = "record" => accepted > 0
  /\ row.status = "sent" => accepted > 0

Calm ==
  ~doubt =>
    /\ row.owner # 0 => row.leased
    /\ \A r \in Runs : AtWork(r) => row.owner = run[r].owner
    /\ \A r \in Runs : run[r].pc = "listed" => run[r].seen.status = "pending"
    /\ accepted > 0 => /\ accepted = 1
                       /\ row.status \in {"sent", "removed", "sending"}
                       /\ \A r \in Runs : AtWork(r) => run[r].pc = "record"

OutboxInv == TypeOK /\ Fenced /\ Distinct /\ Accepted /\ Calm

-----------------------------------------------------------------------------

LEMMA RunType ==
  ASSUME TypeOK, NEW r \in Runs
  PROVE  /\ run[r].pc \in {"idle", "listed"} \cup Steps
         /\ run[r].pc = "idle" => run[r] = Idle
         /\ run[r].pc = "listed" => run[r] \in [pc: {"listed"}, seen: Seen]
         /\ AtWork(r) => run[r] \in [pc: Steps, owner: Nat, attempts: Nat]
BY DEF TypeOK, RunState, Idle, AtWork, Steps

\* An invocation that goes on with the same claim.
LEMMA GotoStep ==
  ASSUME TypeOK, NEW r \in Runs, AtWork(r), NEW pc \in Steps, Goto(r, pc)
  PROVE  /\ run' \in [Runs -> RunState]
         /\ run'[r].pc = pc /\ run'[r].owner = run[r].owner
         /\ run'[r].attempts = run[r].attempts
         /\ \A s \in Runs \ {r} : run'[s] = run[s]
<1>1. run[r] \in [pc: Steps, owner: Nat, attempts: Nat]
  BY RunType
<1>2. [run[r] EXCEPT !.pc = pc] \in [pc: Steps, owner: Nat, attempts: Nat]
  BY <1>1
<1>3. run' = [run EXCEPT ![r] = [run[r] EXCEPT !.pc = pc]]
  BY DEF Goto
<1>4. run'[r] = [run[r] EXCEPT !.pc = pc] /\ \A s \in Runs \ {r} : run'[s] = run[s]
  BY <1>3 DEF TypeOK
<1>5. run' \in [Runs -> RunState]
  BY <1>2, <1>3 DEF TypeOK, RunState
<1>6. QED
  BY <1>1, <1>4, <1>5

LEMMA LeaveStep ==
  ASSUME TypeOK, NEW r \in Runs, Leave(r)
  PROVE  /\ run' \in [Runs -> RunState] /\ run'[r] = Idle
         /\ \A s \in Runs \ {r} : run'[s] = run[s]
BY DEF TypeOK, Leave, RunState, Idle

\* An invocation moves on or ends, and nothing else changes.
LEMMA PassStep ==
  ASSUME OutboxInv, NEW r \in Runs, UNCHANGED <<row, claims, accepted, requeues>>,
         wanted' \in BOOLEAN, mishaps' \in Nat, doubt' \in BOOLEAN, doubt => doubt',
         run' \in [Runs -> RunState],
         \A s \in Runs \ {r} : run'[s] = run[s],
         \/ run'[r] = Idle
         \/ /\ AtWork(r) /\ run'[r].pc \in Steps \ {"record"}
            /\ run'[r].owner = run[r].owner /\ run'[r].attempts = run[r].attempts
            /\ run[r].pc = "record" => doubt'
  PROVE  OutboxInv'
<1>1. TypeOK'
  BY DEF OutboxInv, TypeOK
<1>2. \A s \in Runs : AtWork(s)' =>
        /\ AtWork(s) /\ run'[s].owner = run[s].owner
        /\ run'[s].attempts = run[s].attempts
  BY DEF AtWork, Idle, Steps
<1>3. Fenced'
  BY <1>2 DEF OutboxInv, Fenced, Holds, AtWork
<1>4. Distinct'
  BY <1>2 DEF OutboxInv, Distinct
<1>5. Accepted'
  BY DEF OutboxInv, Accepted, Idle
<1>6. Calm'
  <2>1. \A s \in Runs : run'[s].pc = "listed" => run'[s] = run[s]
    BY DEF Idle, Steps
  <2>2. ~doubt' => \A s \in Runs : AtWork(s)' /\ run[s].pc = "record" => run'[s].pc = "record"
    BY DEF AtWork, Idle, Steps
  <2>3. QED
    BY <1>2, <2>1, <2>2 DEF OutboxInv, Calm
<1>7. QED
  BY <1>1, <1>3, <1>4, <1>5, <1>6 DEF OutboxInv

\* A row that nobody has claimed is listed, or one whose lease has run out.
LEMMA ListStep ==
  ASSUME OutboxInv, NEW r \in Runs, List(r)
  PROVE  OutboxInv'
<1> DEFINE seen == [status |-> row.status, attempts |-> row.attempts, owner |-> row.owner]
<1>1. /\ run[r] = Idle /\ row.status \in Open /\ ~row.leased
      /\ run' = [run EXCEPT ![r] = [pc |-> "listed", seen |-> seen]]
      /\ UNCHANGED <<row, wanted, claims, accepted, requeues, mishaps, doubt>>
  BY DEF List
<1>2. seen \in Seen
  BY <1>1 DEF Seen, OutboxInv, TypeOK, Row
<1>3. /\ run'[r] = [pc |-> "listed", seen |-> seen]
      /\ \A s \in Runs \ {r} : run'[s] = run[s]
  BY <1>1 DEF OutboxInv, TypeOK
<1>4. TypeOK'
  BY <1>1, <1>2 DEF OutboxInv, TypeOK, RunState
<1>5. \A s \in Runs : AtWork(s)' => AtWork(s) /\ run'[s] = run[s]
  BY <1>3 DEF AtWork, Steps
<1>6. Fenced'
  BY <1>1, <1>5 DEF OutboxInv, Fenced, Holds, AtWork
<1>7. Distinct' /\ Accepted'
  BY <1>1, <1>3, <1>5 DEF OutboxInv, Distinct, Accepted
<1>8. Calm'
  <2>1. ~doubt => seen.status = "pending"
    BY <1>1 DEF OutboxInv, Calm, Fenced, Open
  <2>2. QED
    BY <1>1, <1>3, <1>5, <2>1 DEF OutboxInv, Calm
<1>9. QED
  BY <1>4, <1>6, <1>7, <1>8 DEF OutboxInv

\* A claim takes a new token.  Without a loss, it is on a row nobody works on.
LEMMA ClaimStep ==
  ASSUME OutboxInv, NEW r \in Runs, Claim(r)
  PROVE  OutboxInv'
<1> DEFINE seen == run[r].seen
<1>0. /\ run[r].pc = "listed" /\ UNCHANGED <<wanted, accepted, requeues, mishaps, doubt>>
      /\ seen \in Seen /\ claims \in Nat /\ row \in Row
  BY RunType DEF Claim, OutboxInv, TypeOK
<1>1. CASE ~(row.status = seen.status /\ row.attempts = seen.attempts
               /\ row.owner = seen.owner)
  <2>1. Leave(r) /\ UNCHANGED <<row, claims>>
    BY <1>1 DEF Claim
  <2>2. QED
    BY <1>0, <2>1, LeaveStep, PassStep DEF OutboxInv, TypeOK
<1>2. CASE row.status = seen.status /\ row.attempts = seen.attempts
             /\ row.owner = seen.owner
  <2> DEFINE k == [pc |-> "judge", owner |-> claims + 1, attempts |-> seen.attempts + 1]
  <2>1. /\ claims' = claims + 1 /\ run' = [run EXCEPT ![r] = k]
        /\ row' = [row EXCEPT !.status = "sending", !.owner = claims + 1,
                              !.leased = TRUE, !.attempts = seen.attempts + 1]
    BY <1>2 DEF Claim
  <2>2. /\ row' \in Row /\ row'.status = "sending" /\ row'.owner = claims + 1
        /\ row'.leased /\ row'.attempts = seen.attempts + 1
    <3>1. seen.attempts + 1 \in Nat /\ claims + 1 \in Nat
      BY <1>0 DEF Seen
    <3> HIDE DEF seen
    <3>2. QED
      BY <1>0, <2>1, <3>1 DEF Row, Open
  <2>3. k \in RunState /\ k.pc = "judge" /\ k.owner = claims + 1
    BY <1>0 DEF RunState, Steps, Seen
  <2>4. run'[r] = k /\ \A s \in Runs \ {r} : run'[s] = run[s]
    BY <2>1 DEF OutboxInv, TypeOK
  <2>5. TypeOK'
    BY <1>0, <2>1, <2>2, <2>3 DEF OutboxInv, TypeOK
  <2>6. \A s \in Runs \ {r} : AtWork(s)' =>
          AtWork(s) /\ run'[s].owner \in 1..claims /\ run'[s].owner # claims + 1
    BY <1>0, <2>4 DEF OutboxInv, Fenced, AtWork
  <2>7. Fenced'
    <3>1. \A s \in Runs : AtWork(s)' => run'[s].owner \in 1..claims'
      BY <1>0, <2>1, <2>3, <2>4, <2>6
    <3>2. \A s \in Runs : Holds(s)' => s = r
      BY <2>2, <2>6 DEF Holds, AtWork
    <3>3. row'.owner # 0
      BY <1>0, <2>2
    <3>4. QED
      BY <1>0, <2>1, <2>2, <2>4, <3>1, <3>2, <3>3 DEF Fenced, AtWork
  <2>8. Distinct'
    BY <2>3, <2>4, <2>6 DEF OutboxInv, Distinct, AtWork
  <2>9. Accepted'
    BY <1>0, <2>2, <2>3, <2>4 DEF OutboxInv, Accepted
  <2>10. Calm'
    <3> SUFFICES ASSUME ~doubt PROVE Calm'
      BY <1>0 DEF Calm
    <3>1. row.status = "pending" /\ row.owner = 0
      BY <1>0, <1>2 DEF OutboxInv, Calm, Fenced
    <3>2. \A s \in Runs : ~AtWork(s)
      BY <1>0, <3>1 DEF OutboxInv, Calm, Fenced, AtWork
    <3>3. accepted = 0
      BY <1>0, <3>1 DEF OutboxInv, Calm, TypeOK
    <3>4. QED
      BY <1>0, <2>2, <2>3, <2>4, <2>6, <3>2, <3>3 DEF OutboxInv, Calm
  <2>11. QED
    BY <2>5, <2>7, <2>8, <2>9, <2>10 DEF OutboxInv
<1>3. QED
  BY <1>1, <1>2

\* The holder writes an outcome over its claim, and is done with the row.
LEMMA SettleStep ==
  ASSUME OutboxInv, NEW r \in Runs, AtWork(r), row.owner = run[r].owner, Leave(r),
         UNCHANGED <<wanted, claims, accepted, requeues, mishaps, doubt>>,
         row' \in Row, row'.owner = 0,
         row'.status \in {"sent", "suppressed", "failed", "pending"},
         row'.status = "sent" <=> run[r].pc = "record",
         run[r].pc = "fail" => accepted = 0 \/ doubt
  PROVE  OutboxInv'
<1>1. /\ run' \in [Runs -> RunState] /\ run'[r] = Idle
      /\ \A s \in Runs \ {r} : run'[s] = run[s]
  BY LeaveStep DEF OutboxInv
<1>2. TypeOK'
  BY <1>1 DEF OutboxInv, TypeOK
<1>3. \A s \in Runs : AtWork(s)' => /\ AtWork(s) /\ run'[s] = run[s] /\ s # r
                                   /\ run[s].owner # row.owner
                                   /\ run[s].owner \in 1..claims
  BY <1>1 DEF AtWork, Idle, Steps, OutboxInv, Distinct, Fenced
<1>4. Fenced'
  <2>1. \A s \in Runs : ~Holds(s)'
    BY <1>3 DEF Holds, AtWork
  <2>2. claims \in Nat
    BY DEF OutboxInv, TypeOK
  <2>3. QED
    BY <1>3, <2>1, <2>2 DEF Fenced, AtWork
<1>5. Distinct'
  BY <1>3 DEF OutboxInv, Distinct
<1>6. Accepted'
  BY <1>1 DEF OutboxInv, Accepted, Idle
<1>7. Calm'
  <2> SUFFICES ASSUME ~doubt PROVE Calm'
    BY DEF Calm
  <2>1. \A s \in Runs : ~AtWork(s)'
    BY <1>3 DEF OutboxInv, Calm
  <2>2. \A s \in Runs : run'[s].pc = "listed" => run'[s] = run[s]
    BY <1>1 DEF Idle
  <2>3. accepted > 0 => accepted = 1 /\ row'.status = "sent"
    BY DEF OutboxInv, Calm
  <2>4. QED
    BY <2>1, <2>2, <2>3 DEF OutboxInv, Calm
<1>8. QED
  BY <1>2, <1>4, <1>5, <1>6, <1>7 DEF OutboxInv

LEMMA JudgeStep ==
  ASSUME OutboxInv, NEW r \in Runs, Judge(r)
  PROVE  OutboxInv'
<1>1. /\ run[r].pc = "judge" /\ AtWork(r)
      /\ UNCHANGED <<row, wanted, claims, accepted, requeues, mishaps, doubt>>
  BY DEF Judge, AtWork, Steps
<1>2. PICK pc \in {"send", "drop", "fail"} : Goto(r, pc)
  BY DEF Judge
<1>3. /\ run' \in [Runs -> RunState] /\ run'[r].pc = pc
      /\ run'[r].owner = run[r].owner /\ run'[r].attempts = run[r].attempts
      /\ \A s \in Runs \ {r} : run'[s] = run[s]
  BY <1>1, <1>2, GotoStep DEF OutboxInv, Steps
<1>4. QED
  BY <1>1, <1>3, PassStep DEF OutboxInv, TypeOK, Steps

LEMMA DropStep ==
  ASSUME OutboxInv, NEW r \in Runs, Drop(r)
  PROVE  OutboxInv'
<1>1. /\ run[r].pc = "drop" /\ AtWork(r)
      /\ UNCHANGED <<wanted, claims, accepted, requeues, mishaps, doubt>>
  BY DEF Drop, AtWork, Steps
<1>2. CASE Goto(r, "fail") /\ UNCHANGED row
  <2>1. /\ run' \in [Runs -> RunState] /\ run'[r].pc = "fail"
        /\ run'[r].owner = run[r].owner /\ run'[r].attempts = run[r].attempts
        /\ \A s \in Runs \ {r} : run'[s] = run[s]
    BY <1>1, <1>2, GotoStep DEF OutboxInv, Steps
  <2>2. QED
    BY <1>1, <1>2, <2>1, PassStep DEF OutboxInv, TypeOK, Steps
<1>3. CASE Settle(r, "suppressed") /\ Leave(r)
  <2>1. CASE row.owner = run[r].owner
    <3>1. row' = [row EXCEPT !.status = "suppressed", !.owner = 0, !.leased = FALSE]
      BY <1>3, <2>1 DEF Settle
    <3>2. row' \in Row /\ row'.status = "suppressed" /\ row'.owner = 0
      BY <3>1 DEF OutboxInv, TypeOK, Row, Over
    <3>3. QED
      BY <1>1, <1>3, <2>1, <3>2, SettleStep
  <2>2. CASE row.owner # run[r].owner
    BY <1>1, <1>3, <2>2, LeaveStep, PassStep DEF Settle, OutboxInv, TypeOK
  <2>3. QED
    BY <2>1, <2>2
<1>4. QED
  BY <1>2, <1>3 DEF Drop

\* Acceptance is counted; without a loss it is the first, and by the only holder.
LEMMA SendStep ==
  ASSUME OutboxInv, NEW r \in Runs, Send(r)
  PROVE  OutboxInv'
<1>1. /\ run[r].pc = "send" /\ AtWork(r) /\ accepted \in Nat
      /\ UNCHANGED <<row, wanted, claims, requeues, mishaps>>
  BY DEF Send, AtWork, Steps, OutboxInv, TypeOK
<1>2. PICK pc \in {"record", "fail"} :
        /\ Goto(r, pc)
        /\ \/ accepted' = accepted /\ doubt' = doubt /\ pc = "fail"
           \/ accepted' = accepted + 1 /\ doubt' = doubt /\ pc = "record"
           \/ accepted' = accepted + 1 /\ doubt' = TRUE
  BY DEF Send
<1>3. /\ run' \in [Runs -> RunState] /\ run'[r].pc = pc
      /\ run'[r].owner = run[r].owner /\ run'[r].attempts = run[r].attempts
      /\ \A s \in Runs \ {r} : run'[s] = run[s]
  BY <1>1, <1>2, GotoStep DEF OutboxInv, Steps
<1>a. doubt \in BOOLEAN /\ accepted \in Nat
  BY DEF OutboxInv, TypeOK
<1>b. accepted' \in Nat
  BY <1>a, <1>2
<1>c. doubt' \in BOOLEAN
  BY <1>a, <1>2, Zenon
<1>4. TypeOK'
  BY <1>1, <1>3, <1>b, <1>c DEF OutboxInv, TypeOK
<1>5. \A s \in Runs : AtWork(s)' <=> AtWork(s)
  BY <1>1, <1>3 DEF AtWork, Steps
<1>6. \A s \in Runs : run'[s].owner = run[s].owner /\ run'[s].attempts = run[s].attempts
  BY <1>3
<1>7. Fenced' /\ Distinct'
  BY <1>1, <1>5, <1>6 DEF OutboxInv, Fenced, Distinct, Holds, AtWork
<1>8. Accepted'
  BY <1>1, <1>2, <1>3 DEF OutboxInv, Accepted
<1>9. Calm'
  <2> SUFFICES ASSUME ~doubt' PROVE Calm'
    BY DEF Calm
  <2>1. ~doubt /\ accepted = 0
    BY <1>1, <1>2 DEF OutboxInv, Calm
  <2>2. row.owner = run[r].owner
    BY <1>1, <2>1 DEF OutboxInv, Calm
  <2>3. row.status = "sending" /\ \A s \in Runs \ {r} : ~AtWork(s)
    BY <1>1, <2>1, <2>2 DEF OutboxInv, Calm, Fenced, Distinct, Holds, AtWork
  <2>4. QED
    BY <1>1, <1>2, <1>3, <1>5, <1>6, <2>1, <2>2, <2>3 DEF OutboxInv, Calm
<1>10. QED
  BY <1>4, <1>7, <1>8, <1>9 DEF OutboxInv

LEMMA RecordStep ==
  ASSUME OutboxInv, NEW r \in Runs, Record(r)
  PROVE  OutboxInv'
<1>1. /\ run[r].pc = "record" /\ AtWork(r)
      /\ UNCHANGED <<wanted, claims, accepted, requeues, mishaps>>
  BY DEF Record, AtWork, Steps
<1>2. CASE Goto(r, "fail") /\ doubt' = TRUE /\ UNCHANGED row
  <2>1. /\ run' \in [Runs -> RunState] /\ run'[r].pc = "fail"
        /\ run'[r].owner = run[r].owner /\ run'[r].attempts = run[r].attempts
        /\ \A s \in Runs \ {r} : run'[s] = run[s]
    BY <1>1, <1>2, GotoStep DEF OutboxInv, Steps
  <2>2. QED
    BY <1>1, <1>2, <2>1, PassStep DEF OutboxInv, TypeOK, Steps
<1>3. CASE Settle(r, "sent") /\ Leave(r) /\ UNCHANGED doubt
  <2>1. CASE row.owner = run[r].owner
    <3>1. row' = [row EXCEPT !.status = "sent", !.owner = 0, !.leased = FALSE]
      BY <1>3, <2>1 DEF Settle
    <3>2. row' \in Row /\ row'.status = "sent" /\ row'.owner = 0
      BY <3>1 DEF OutboxInv, TypeOK, Row, Over
    <3>3. QED
      BY <1>1, <1>3, <2>1, <3>2, SettleStep
  <2>2. CASE row.owner # run[r].owner
    BY <1>1, <1>3, <2>2, LeaveStep, PassStep DEF Settle, OutboxInv, TypeOK
  <2>3. QED
    BY <2>1, <2>2
<1>4. QED
  BY <1>2, <1>3 DEF Record

LEMMA FailStep ==
  ASSUME OutboxInv, NEW r \in Runs, Fail(r)
  PROVE  OutboxInv'
<1>1. /\ run[r].pc = "fail" /\ AtWork(r) /\ Leave(r)
      /\ UNCHANGED <<wanted, claims, accepted, requeues, mishaps, doubt>>
  BY DEF Fail, AtWork, Steps
<1>2. CASE row.owner = run[r].owner
  <2>1. PICK status \in {"failed", "pending"} :
          row' = [row EXCEPT !.status = status, !.owner = 0, !.leased = FALSE,
                             !.due = FALSE]
    BY <1>2 DEF Fail
  <2>2. row' \in Row /\ row'.status = status /\ row'.owner = 0
    BY <2>1 DEF OutboxInv, TypeOK, Row, Over, Open
  <2>3. accepted = 0 \/ doubt
    BY <1>1 DEF OutboxInv, Calm, TypeOK
  <2>4. QED
    BY <1>1, <1>2, <2>2, <2>3, SettleStep
<1>3. CASE row.owner # run[r].owner
  BY <1>1, <1>3, LeaveStep, PassStep DEF Fail, OutboxInv, TypeOK
<1>4. QED
  BY <1>2, <1>3

\* Time, the administrator and the clean-up change the row, not its claim.
LEMMA RowStep ==
  ASSUME OutboxInv, UNCHANGED <<run, claims, accepted>>,
         wanted' \in BOOLEAN, doubt' \in BOOLEAN, requeues' \in Nat, mishaps' \in Nat,
         row' \in Row, row'.owner = row.owner, row'.attempts = row.attempts \/ row.owner = 0,
         \/ row'.status = row.status
         \/ row.status = "failed" /\ row'.status = "pending"
         \/ row.status \in {"sent", "suppressed"} /\ row'.status = "removed",
         doubt => doubt', doubt' \/ row'.leased = row.leased \/ row.owner = 0
  PROVE  OutboxInv'
<1>1. TypeOK'
  BY DEF OutboxInv, TypeOK
<1>2. \A r \in Runs : Holds(r) => row.owner # 0 /\ row.status = "sending"
  BY DEF OutboxInv, Fenced, Holds, TypeOK
<1>3. \A r \in Runs : Holds(r)' <=> Holds(r)
  BY DEF Holds
<1>4. Fenced'
  BY <1>2, <1>3 DEF OutboxInv, Fenced
<1>5. Distinct' /\ Accepted'
  BY DEF OutboxInv, Distinct, Accepted, AtWork
<1>6. Calm'
  BY DEF OutboxInv, Calm, AtWork
<1>7. QED
  BY <1>1, <1>4, <1>5, <1>6 DEF OutboxInv

LEMMA OutboxStep ==
  ASSUME OutboxInv, [Next]_vars
  PROVE  OutboxInv'
<1>1. CASE UNCHANGED vars
  BY <1>1, RowStep DEF vars, OutboxInv, TypeOK
<1>2. ASSUME NEW r \in Runs, Step(r) PROVE OutboxInv'
  BY <1>2, ListStep, ClaimStep, JudgeStep, DropStep, SendStep, RecordStep, FailStep
     DEF Step
<1>3. ASSUME NEW r \in Runs, Kill(r) PROVE OutboxInv'
  BY <1>3, LeaveStep, PassStep DEF Kill, OutboxInv, TypeOK
<1>4. CASE LeaseExpires
  <2>1. row' \in Row /\ row'.owner = row.owner /\ row'.attempts = row.attempts
        /\ row'.status = row.status
    BY <1>4 DEF LeaseExpires, OutboxInv, TypeOK, Row
  <2>2. mishaps' \in Nat
    BY <1>4 DEF LeaseExpires, OutboxInv, TypeOK
  <2>3. QED
    BY <1>4, <2>1, <2>2, RowStep DEF LeaseExpires, OutboxInv, TypeOK
<1>5. CASE RetryFallsDue
  <2>1. row' \in Row /\ row'.owner = row.owner /\ row'.attempts = row.attempts
        /\ row'.status = row.status /\ row'.leased = row.leased
    BY <1>5 DEF RetryFallsDue, OutboxInv, TypeOK, Row
  <2>2. QED
    BY <1>5, <2>1, RowStep DEF RetryFallsDue, OutboxInv, TypeOK
<1>6. CASE WantedChanges
  BY <1>6, RowStep DEF WantedChanges, OutboxInv, TypeOK
<1>7. CASE Requeue
  <2>1. row.status = "failed" /\ row.owner = 0
    BY <1>7 DEF Requeue, OutboxInv, Fenced
  <2>2. row' \in Row /\ row'.owner = 0 /\ row'.status = "pending"
    BY <1>7 DEF Requeue, OutboxInv, TypeOK, Row, Open
  <2>3. requeues' \in Nat
    BY <1>7 DEF Requeue, OutboxInv, TypeOK
  <2>4. QED
    BY <1>7, <2>1, <2>2, <2>3, RowStep DEF Requeue, OutboxInv, TypeOK
<1>8. CASE Clean
  <2>1. row' \in Row /\ row'.owner = row.owner /\ row'.attempts = row.attempts
        /\ row'.status = "removed" /\ row'.leased = row.leased
        /\ row.status \in {"sent", "suppressed"}
    BY <1>8 DEF Clean, OutboxInv, TypeOK, Row
  <2>2. QED
    BY <1>8, <2>1, RowStep DEF Clean, OutboxInv, TypeOK
<1>9. QED
  BY <1>1, <1>2, <1>3, <1>4, <1>5, <1>6, <1>7, <1>8 DEF Next

LEMMA OutboxInit == Init => OutboxInv
<1> SUFFICES ASSUME Init PROVE OutboxInv
  OBVIOUS
<1>1. row \in Row
  BY DEF Init, Row, Open, Over
<1>2. run \in [Runs -> RunState]
  BY DEF Init, RunState, Idle
<1>3. wanted \in BOOLEAN /\ doubt \in BOOLEAN
  BY DEF Init
<1>4. TypeOK
  BY <1>1, <1>2, <1>3 DEF Init, TypeOK
<1>5. \A r \in Runs : run[r].pc = "idle"
  BY DEF Init, Idle
<1>6. \A r \in Runs : ~AtWork(r) /\ run[r].pc \notin Steps
  BY <1>5 DEF AtWork, Steps
<1>7. Fenced
  BY <1>6 DEF Init, Fenced, Holds
<1>8. Distinct
  BY <1>6 DEF Distinct
<1>9. Accepted
  BY <1>5 DEF Init, Accepted
<1>10. Calm
  BY <1>5, <1>6 DEF Init, Calm
<1>11. QED
  BY <1>4, <1>7, <1>8, <1>9, <1>10 DEF OutboxInv

\* Row and invocations of drainWorkflowOutbox stay well formed.
THEOREM OutboxTypes == Spec => []TypeOK
<1>1. OutboxInv => TypeOK
  BY DEF OutboxInv
<1>2. QED
  BY <1>1, OutboxInit, OutboxStep, PTL DEF Spec

\* A claim has one holder at most, which knows the attempt it makes, whatever
\* invocations overlap and whenever leases lapse.
THEOREM ClaimsFenced == Spec => []Fenced
<1>1. OutboxInv => Fenced
  BY DEF OutboxInv
<1>2. QED
  BY <1>1, OutboxInit, OutboxStep, PTL DEF Spec

\* Mail is recorded as sent only once accepted, and the provider accepts it twice
\* only if a lease ran out or an acceptance was lost.
THEOREM AtMostOnceUnlessLost == Spec => []SentOnce
<1>1. OutboxInv => SentOnce
  BY DEF OutboxInv, TypeOK, SentOnce, Accepted, Calm
<1>2. QED
  BY <1>1, OutboxInit, OutboxStep, PTL DEF Spec

\* An outcome that was recorded is never overwritten by an invocation.
THEOREM OutcomesFinal == Spec => OutcomeStands
<1> DEFINE Stands == row.status \in Over =>
             \/ row'.status \in {row.status, "removed"}
             \/ row.status = "failed" /\ requeues' = requeues + 1
<1>1. ASSUME OutboxInv, Next PROVE Stands
  <2> SUFFICES ASSUME row.status \in Over, ~Requeue
               PROVE  row'.status \in {row.status, "removed"}
    BY DEF Requeue
  <2>1. \A r \in Runs : run[r].pc \in Steps => row.owner # run[r].owner
    BY <1>1 DEF OutboxInv, Fenced, TypeOK, Over
  <2>2. ASSUME NEW r \in Runs, Step(r) PROVE row' = row
    <3>1. CASE Claim(r)
      <4>1. run[r].seen \in Seen
        BY <1>1, <3>1, RunType DEF Claim, OutboxInv
      <4>2. row.status # run[r].seen.status
        BY <4>1 DEF Seen, Open, Over
      <4>3. QED
        BY <3>1, <4>2 DEF Claim
    <3>2. CASE ~Claim(r)
      BY <2>1, <2>2, <3>2 DEF Step, List, Judge, Drop, Send, Record, Fail, Settle, Steps
    <3>3. QED
      BY <3>1, <3>2
  <2>3. CASE LeaseExpires \/ RetryFallsDue \/ WantedChanges \/ Clean
    BY <1>1, <2>3 DEF LeaseExpires, RetryFallsDue, WantedChanges, Clean, OutboxInv,
       TypeOK, Row
  <2>4. CASE \E r \in Runs : Kill(r)
    BY <2>4 DEF Kill
  <2>5. QED
    BY <1>1, <2>2, <2>3, <2>4 DEF Next
<1>2. ASSUME OutboxInv, [Next]_vars PROVE [Stands]_vars
  BY <1>1, <1>2
<1>3. QED
  BY <1>2, OutboxInit, OutboxStep, PTL DEF Spec, OutcomeStands
=============================================================================
