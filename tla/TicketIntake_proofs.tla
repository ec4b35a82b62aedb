------------------------ MODULE TicketIntake_proofs ------------------------
(***************************************************************************)
(* Proofs about TicketIntake and the WebhookDelivery it contains, for any  *)
(* number of requests with the key, of sweeps, of payloads, of attempts    *)
(* and of mishaps.                                                         *)
(*                                                                         *)
(* One ticket: a request that works on a ticket works on the one it has    *)
(* created, and a ticket, once there, is the only one.  Attempts: a worker *)
(* never counts more attempts than were made, however stale its count is,  *)
(* so that a callback is given up only after all of them.  Receipts: as    *)
(* long as nothing is in doubt one worker at most is past reading the row, *)
(* and an accepted callback is removed before anybody reads it again.      *)
(* Set-backs: a worker counts up from what it has read, so that the least  *)
(* count anybody holds never falls, and the row passes every number.       *)
(***************************************************************************)
EXTENDS TicketIntake, TLAPS

-----------------------------------------------------------------------------
(* Types *)

LEMMA DeliveryStepType ==
  DeliveryTypeOK /\ DeliveryNext /\ UNCHANGED load => DeliveryTypeOK'
<1> SUFFICES ASSUME DeliveryTypeOK, DeliveryNext, load' = load
             PROVE  DeliveryTypeOK'
  OBVIOUS
<1> USE DeliveryAssumption
<1>0. /\ work \in [Workers -> WorkState] /\ row \in Row
      /\ Idle \in WorkState /\ Sweeps \subseteq Workers
      /\ tries \in 0..MaxAttempts /\ received \in 0..2
      /\ load.mishaps \in Nat /\ mishaps \in 0..load.mishaps
  BY DEF DeliveryTypeOK, Idle, WorkState, Workers
<1>1. ASSUME NEW w \in Workers, NEW pc \in {"called", "dropping", "posting",
                    "accepted", "noting", "failed", "counting"}, MoveTo(w, pc)
      PROVE  work' \in [Workers -> WorkState]
  BY <1>0, <1>1 DEF MoveTo, WorkState
<1>2. ASSUME NEW w \in Workers, Leave(w)
      PROVE  work' \in [Workers -> WorkState]
  BY <1>0, <1>2 DEF Leave
<1>3. OneMore(tries, MaxAttempts) \in 0..MaxAttempts /\ OneMore(received, 2) \in 0..2
  BY <1>0 DEF OneMore
<1>4. ASSUME NEW w \in Workers, ReadRow(w)
      PROVE  DeliveryTypeOK'
  <2>1. work' \in [Workers -> WorkState]
    BY <1>0, <1>4 DEF ReadRow, WorkState, Row
  <2>2. QED
    BY <1>4, <2>1 DEF ReadRow, DeliveryTypeOK
<1>5. ASSUME NEW w \in Workers, Drop(w) \/ RemoveSent(w)
      PROVE  DeliveryTypeOK'
  <2>1. row' \in Row
    BY <1>0, <1>5 DEF Drop, RemoveSent, Row
  <2>2. QED
    BY <1>1, <1>2, <1>5, <2>1 DEF Drop, RemoveSent, DeliveryTypeOK, history
<1>6. ASSUME NEW w \in Workers, Post(w)
      PROVE  DeliveryTypeOK'
  <2>1. work' \in [Workers -> WorkState]
    BY <1>1, <1>6 DEF Post
  <2>2. QED
    BY <1>3, <1>6, <2>1 DEF Post, DeliveryTypeOK
<1>7. ASSUME NEW w \in Workers, NoteKey(w)
      PROVE  DeliveryTypeOK'
  BY <1>1, <1>2, <1>7 DEF NoteKey, DeliveryTypeOK, history
<1>8. ASSUME NEW w \in Workers, Count(w)
      PROVE  DeliveryTypeOK'
  <2>1. row' \in Row
    BY <1>0, <1>8 DEF Count, Row, WorkState
  <2>2. QED
    BY <1>2, <1>8, <2>1 DEF Count, DeliveryTypeOK, history
<1>9. ASSUME NEW w \in Workers, StoreThrows(w)
      PROVE  DeliveryTypeOK'
  <2>1. work' \in [Workers -> WorkState] /\ mishaps' \in 0..load.mishaps
    BY <1>0, <1>1, <1>2, <1>9 DEF StoreThrows
  <2>2. QED
    BY <1>9, <2>1 DEF StoreThrows, DeliveryTypeOK
<1>10. ASSUME NEW s \in Sweeps, StartSweep(s)
       PROVE  DeliveryTypeOK'
  BY <1>0, <1>1, <1>10 DEF StartSweep, DeliveryTypeOK, history
<1>11. ASSUME NEW s \in Sweeps, KillSweep(s)
       PROVE  DeliveryTypeOK'
  BY <1>0, <1>2, <1>11 DEF KillSweep, DeliveryTypeOK
<1>12. CASE TimePasses
  <2>1. row' \in Row
    BY <1>0, <1>12 DEF TimePasses, Row
  <2>2. QED
    BY <1>12, <2>1 DEF TimePasses, DeliveryTypeOK, history
<1>13. CASE Unsubscribe
  BY <1>13 DEF Unsubscribe, DeliveryTypeOK, history
<1>14. QED
  BY <1>4, <1>5, <1>6, <1>7, <1>8, <1>9, <1>10, <1>11, <1>12, <1>13
     DEF DeliveryNext, Deliver

\* A request that was sent says what it asks for.
Asked == \A q \in Callers : req[q].pc # "new" => req[q].payload \in Payloads
TypeInv == TypeOK /\ Asked

\* What a request's step does to the requests.
LEMMA GotoType ==
  ASSUME TypeInv, NEW q \in Callers, req[q].pc # "new",
         NEW pc \in {"creating", "queueing", "delivering", "grading", "serving",
                     "answering", "rechecking", "done"},
         Goto(q, pc)
  PROVE  req' \in [Callers -> ReqState] /\ Asked'
BY DEF TypeInv, TypeOK, Asked, Goto, ReqState

LEMMA TellType ==
  ASSUME TypeInv, NEW q \in Callers, req[q].pc # "new", NEW s, NEW t,
         [status |-> s, ticket |-> t] \in Answer, Tell(q, s, t)
  PROVE  req' \in [Callers -> ReqState] /\ Asked'
<1> DEFINE a == [status |-> s, ticket |-> t]
<1>1. req' = [req EXCEPT ![q].pc = "done", ![q].answer = a] /\ a \in Answer
  BY DEF Tell
<1> HIDE DEF a
<1>2. QED
  BY <1>1 DEF TypeInv, TypeOK, Asked, ReqState

LEMMA ReplayType ==
  ASSUME TypeInv, NEW q \in Callers, req[q].pc # "new", NEW t \in tickets,
         Replay(q, t)
  PROVE  req' \in [Callers -> ReqState] /\ Asked'
<1>1. t.by \in Callers
  BY DEF TypeInv, TypeOK, Ticket
<1>2. /\ [status |-> 200, ticket |-> t.by] \in Answer
      /\ [status |-> 409, ticket |-> None] \in Answer
  BY <1>1 DEF Answer
<1>3. QED
  BY <1>2, TellType DEF Replay

LEMMA ContinueType ==
  ASSUME TypeInv, NEW q \in Callers, Continue(q), load' = load
  PROVE  TypeInv'
<1>0. /\ DeliveryTypeOK /\ tickets \subseteq Ticket
      /\ graded \subseteq Callers /\ served \subseteq Callers
  BY DEF TypeInv, TypeOK
<1>1. ASSUME UNCHANGED deliveryVars PROVE DeliveryTypeOK'
  BY <1>0, <1>1 DEF deliveryVars, DeliveryTypeOK
<1>2. CASE Lookup(q)
  <2>1. req' \in [Callers -> ReqState] /\ Asked'
    BY <1>2, GotoType, ReplayType DEF Lookup
  <2>2. QED
    BY <1>0, <1>1, <1>2, <2>1 DEF Lookup, TypeInv, TypeOK
<1>3. CASE Create(q)
  <2>1. [by |-> q, payload |-> req[q].payload] \in Ticket
    BY <1>3 DEF Create, TypeInv, Asked, Ticket
  <2>2. req' \in [Callers -> ReqState] /\ Asked' /\ tickets' \subseteq Ticket
    BY <1>0, <1>3, <2>1, GotoType DEF Create
  <2>3. QED
    BY <1>0, <1>1, <1>3, <2>2 DEF Create, TypeInv, TypeOK
<1>4. CASE Queue(q)
  <2>1. req' \in [Callers -> ReqState] /\ Asked'
    BY <1>4, GotoType DEF Queue
  <2>2. row' \in Row /\ work' \in [Workers -> WorkState]
    <3>1. [state |-> "queued", attempts |-> 0, due |-> TRUE] \in Row
      BY DEF Row
    <3>2. [work EXCEPT ![q].pc = "called"] \in [Workers -> WorkState]
      BY <1>0 DEF DeliveryTypeOK, WorkState, Workers
    <3>3. QED
      BY <1>0, <1>4, <3>1, <3>2 DEF Queue, MoveTo, DeliveryTypeOK
  <2>3. DeliveryTypeOK'
    BY <1>0, <1>4, <2>2 DEF Queue, DeliveryTypeOK, history
  <2>4. QED
    BY <1>0, <1>4, <2>1, <2>3 DEF Queue, TypeInv, TypeOK
<1>5. CASE Delivered(q)
  <2>1. req' \in [Callers -> ReqState] /\ Asked'
    BY <1>5, GotoType DEF Delivered
  <2>2. QED
    BY <1>0, <1>1, <1>5, <2>1 DEF Delivered, TypeInv, TypeOK
<1>6. CASE ApplySla(q)
  <2>1. req' \in [Callers -> ReqState] /\ Asked'
    BY <1>6, GotoType DEF ApplySla
  <2>2. QED
    BY <1>0, <1>1, <1>6, <2>1 DEF ApplySla, TypeInv, TypeOK
<1>7. CASE ProcessPipeline(q)
  <2>1. req' \in [Callers -> ReqState] /\ Asked'
    BY <1>7, GotoType DEF ProcessPipeline
  <2>2. QED
    BY <1>0, <1>1, <1>7, <2>1 DEF ProcessPipeline, TypeInv, TypeOK
<1>8. CASE Created(q)
  <2>1. [status |-> 201, ticket |-> q] \in Answer
    BY DEF Answer
  <2>2. req' \in [Callers -> ReqState] /\ Asked'
    BY <1>8, <2>1, TellType DEF Created
  <2>3. QED
    BY <1>0, <1>1, <1>8, <2>2 DEF Created, TypeInv, TypeOK
<1>9. CASE Recheck(q)
  <2>1. [status |-> 500, ticket |-> None] \in Answer
    BY DEF Answer
  <2>2. req' \in [Callers -> ReqState] /\ Asked'
    BY <1>9, <2>1, TellType, ReplayType DEF Recheck
  <2>3. QED
    BY <1>0, <1>1, <1>9, <2>2 DEF Recheck, TypeInv, TypeOK
<1>10. QED
  BY <1>2, <1>3, <1>4, <1>5, <1>6, <1>7, <1>8, <1>9 DEF Continue

LEMMA MishapType ==
  ASSUME TypeInv, NEW q \in Callers, Throws(q) \/ Kill(q), load' = load
  PROVE  TypeInv'
<1>0. DeliveryTypeOK /\ mishaps' \in 0..load.mishaps
  BY DeliveryAssumption DEF TypeInv, TypeOK, DeliveryTypeOK, Throws, Kill, Mishap
<1>1. CASE Throws(q)
  <2>1. [status |-> 500, ticket |-> None] \in Answer
    BY DEF Answer
  <2>2. req' \in [Callers -> ReqState] /\ Asked'
    BY <1>1, <2>1, GotoType, TellType DEF Throws
  <2>3. DeliveryTypeOK'
    BY <1>0, <1>1 DEF Throws, DeliveryTypeOK, history
  <2>4. QED
    BY <1>1, <2>2, <2>3 DEF Throws, TypeInv, TypeOK
<1>2. CASE Kill(q)
  <2>1. req' \in [Callers -> ReqState] /\ Asked'
    BY <1>2, GotoType DEF Kill
  <2>2. work' \in [Workers -> WorkState]
    BY <1>0, <1>2 DEF Kill, Leave, DeliveryTypeOK, Idle, WorkState, Workers
  <2>3. DeliveryTypeOK'
    BY <1>0, <1>2, <2>2 DEF Kill, DeliveryTypeOK
  <2>4. QED
    BY <1>2, <2>1, <2>3 DEF Kill, TypeInv, TypeOK
<1>3. QED
  BY <1>1, <1>2

LEMMA InitTypes == Init => TypeInv
<1> SUFFICES ASSUME Init PROVE TypeInv
  OBVIOUS
<1>1. DeliveryTypeOK
  <2>1. row \in Row
    BY DEF Init, DeliveryInit, Row
  <2>2. Idle \in WorkState
    BY DEF Idle, WorkState
  <2>3. work \in [Workers -> WorkState]
    BY <2>2 DEF Init, DeliveryInit
  <2>4. tries \in 0..MaxAttempts /\ received \in 0..2 /\ mishaps \in 0..load.mishaps
    BY DeliveryAssumption DEF Init, DeliveryInit
  <2>5. QED
    BY <2>1, <2>3, <2>4 DEF Init, DeliveryInit, DeliveryTypeOK
<1>2. req \in [Callers -> ReqState]
  BY DEF Init, ReqState
<1>3. QED
  BY <1>1, <1>2 DEF Init, TypeInv, TypeOK, Asked

LEMMA NextTypes == TypeInv /\ [Next]_vars => TypeInv'
<1> SUFFICES ASSUME TypeInv, [Next]_vars PROVE TypeInv'
  OBVIOUS
<1>1. ASSUME NEW q \in Callers, NEW p \in Payloads, Send(q, p), load' = load
      PROVE  TypeInv'
  <2>1. DeliveryTypeOK'
    BY <1>1 DEF Send, deliveryVars, TypeInv, TypeOK, DeliveryTypeOK
  <2>2. req' \in [Callers -> ReqState] /\ Asked'
    BY <1>1 DEF Send, TypeInv, TypeOK, ReqState, Asked
  <2>3. QED
    BY <1>1, <2>1, <2>2 DEF Send, TypeInv, TypeOK
<1>2. CASE DeliveryNext /\ UNCHANGED intakeVars /\ load' = load
  <2>1. DeliveryTypeOK'
    BY <1>2, DeliveryStepType DEF TypeInv, TypeOK
  <2>2. QED
    BY <1>2, <2>1 DEF intakeVars, TypeInv, TypeOK, Asked
<1>3. CASE UNCHANGED vars
  BY <1>3 DEF vars, deliveryVars, intakeVars, TypeInv, TypeOK, DeliveryTypeOK, Asked
<1>4. QED
  BY <1>1, <1>2, <1>3, ContinueType, MishapType DEF Next, IntakeNext

\* Type correctness: whatever requests, sweeps and mishaps overlap, the
\* callback's row, its workers, the requests and the tickets are well formed.
THEOREM IntakeTypes == Spec => []TypeOK
<1>1. TypeInv => TypeOK
  BY DEF TypeInv
<1>2. QED
  BY <1>1, InitTypes, NextTypes, PTL DEF Spec

-----------------------------------------------------------------------------
(* One ticket *)

Working == {"queueing", "delivering", "grading", "serving", "answering"}
OwnTicket(q) == [by |-> q, payload |-> req[q].payload]

\* A request that works on a ticket works on the one it has created; nobody is
\* told anything before the end.
WorksOnOwn ==
  \A q \in Callers :
    /\ req[q].pc # "done" => req[q].answer = NoAnswer
    /\ req[q].pc \in Working => OwnTicket(q) \in tickets

TicketInv == WorksOnOwn /\ OneTicket

\* What OneTicket says of one request.
RightlyTold(q) ==
  /\ req[q].answer.status \in {200, 201} =>
       [by |-> req[q].answer.ticket, payload |-> req[q].payload] \in tickets
  /\ req[q].answer.status = 409 =>
       \E t \in tickets : t.payload # req[q].payload

\* A step of request q among tickets that stay, or become the first one.
LEMMA RequestStep ==
  ASSUME TypeInv, TicketInv, NEW q \in Callers,
         tickets' = tickets \/ (tickets = {} /\ \E t : tickets' = {t}),
         \A r \in Callers \ {q} : req'[r] = req[r],
         req'[q].pc # "done" => req'[q].answer = NoAnswer,
         req'[q].pc \in Working => OwnTicket(q)' \in tickets',
         RightlyTold(q)'
  PROVE  TicketInv'
<1>1. (\A t, u \in tickets : t = u)'
  BY DEF TicketInv, OneTicket
<1>2. tickets \subseteq tickets'
  OBVIOUS
<1>3. ASSUME NEW r \in Callers \ {q}
      PROVE  /\ req'[r].pc # "done" => req'[r].answer = NoAnswer
             /\ req'[r].pc \in Working => OwnTicket(r)' \in tickets'
             /\ RightlyTold(r)'
  BY <1>2, <1>3 DEF TicketInv, WorksOnOwn, OneTicket, OwnTicket, RightlyTold
<1>4. WorksOnOwn'
  BY <1>3 DEF WorksOnOwn
<1>5. OneTicket'
  BY <1>1, <1>3 DEF OneTicket, RightlyTold
<1>6. QED
  BY <1>4, <1>5 DEF TicketInv

\* A request that goes on among the tickets there are.
LEMMA GotoStep ==
  ASSUME TypeInv, TicketInv, NEW q \in Callers, req[q].pc # "done", NEW pc,
         Goto(q, pc), tickets' = tickets,
         pc \in Working => req[q].pc \in Working
  PROVE  TicketInv'
<1>1. /\ \A r \in Callers \ {q} : req'[r] = req[r]
      /\ req'[q].pc = pc
      /\ req'[q].answer = NoAnswer /\ req'[q].payload = req[q].payload
  BY DEF Goto, TypeInv, TypeOK, ReqState, TicketInv, WorksOnOwn
<1>2. RightlyTold(q)'
  BY <1>1 DEF RightlyTold, NoAnswer
<1>3. pc \in Working => OwnTicket(q)' \in tickets'
  BY <1>1 DEF OwnTicket, TicketInv, WorksOnOwn
<1>4. QED
  BY <1>1, <1>2, <1>3, RequestStep

\* What may be told to a request, and a request that is told so.
Truthful(q, s, t) ==
  /\ s \in {200, 201} => [by |-> t, payload |-> req[q].payload] \in tickets
  /\ s = 409 => \E u \in tickets : u.payload # req[q].payload

LEMMA TellStep ==
  ASSUME TypeInv, TicketInv, NEW q \in Callers, NEW s, NEW t, Tell(q, s, t),
         tickets' = tickets, Truthful(q, s, t)
  PROVE  TicketInv'
<1>1. /\ \A r \in Callers \ {q} : req'[r] = req[r]
      /\ req'[q].pc = "done" /\ req'[q].payload = req[q].payload
      /\ req'[q].answer = [status |-> s, ticket |-> t]
  BY DEF Tell, TypeInv, TypeOK, ReqState
<1>2. RightlyTold(q)'
  BY <1>1 DEF RightlyTold, Truthful
<1>3. QED
  BY <1>1, <1>2, RequestStep DEF Working

LEMMA ReplayStep ==
  ASSUME TypeInv, TicketInv, NEW q \in Callers, NEW t \in tickets,
         Replay(q, t), tickets' = tickets
  PROVE  TicketInv'
<1>1. t = [by |-> t.by, payload |-> t.payload]
  BY DEF TypeInv, TypeOK, Ticket
<1>2. CASE t.payload = req[q].payload
  <2>1. Tell(q, 200, t.by) /\ Truthful(q, 200, t.by)
    BY <1>1, <1>2 DEF Replay, Truthful
  <2>2. QED
    BY <2>1, TellStep
<1>3. CASE t.payload # req[q].payload
  <2>1. Tell(q, 409, None) /\ Truthful(q, 409, None)
    BY <1>3 DEF Replay, Truthful
  <2>2. QED
    BY <2>1, TellStep
<1>4. QED
  BY <1>2, <1>3

LEMMA ContinueTicket ==
  ASSUME TypeInv, TicketInv, NEW q \in Callers, Continue(q)
  PROVE  TicketInv'
<1>1. CASE Lookup(q)
  BY <1>1, GotoStep, ReplayStep DEF Lookup, Working
<1>2. CASE Create(q)
  <2>1. CASE tickets = {}
    <3>1. /\ \A r \in Callers \ {q} : req'[r] = req[r]
          /\ req'[q].pc = "queueing" /\ req'[q].payload = req[q].payload
          /\ req'[q].answer = NoAnswer
      BY <1>2, <2>1 DEF Create, Goto, TypeInv, TypeOK, ReqState, TicketInv, WorksOnOwn
    <3>2. tickets' = {OwnTicket(q)} /\ OwnTicket(q)' = OwnTicket(q)
      BY <1>2, <2>1, <3>1 DEF Create, OwnTicket
    <3>3. RightlyTold(q)'
      BY <3>1 DEF RightlyTold, NoAnswer
    <3>4. QED
      BY <2>1, <3>1, <3>2, <3>3, RequestStep
  <2>2. CASE tickets # {}
    BY <1>2, <2>2, GotoStep DEF Create, Working
  <2>3. QED
    BY <2>1, <2>2
<1>3. CASE Queue(q)
  BY <1>3, GotoStep DEF Queue, Working
<1>4. CASE Delivered(q)
  BY <1>4, GotoStep DEF Delivered, Working
<1>5. CASE ApplySla(q)
  BY <1>5, GotoStep DEF ApplySla, Working
<1>6. CASE ProcessPipeline(q)
  BY <1>6, GotoStep DEF ProcessPipeline, Working
<1>7. CASE Created(q)
  <2>1. Truthful(q, 201, q)
    BY <1>7 DEF Created, TicketInv, WorksOnOwn, Working, OwnTicket, Truthful
  <2>2. QED
    BY <1>7, <2>1, TellStep DEF Created
<1>8. CASE Recheck(q)
  <2>1. tickets' = tickets /\ (Tell(q, 500, None) \/ \E t \in tickets : Replay(q, t))
    BY <1>8 DEF Recheck
  <2>2. Truthful(q, 500, None)
    BY DEF Truthful
  <2>3. QED
    BY <2>1, <2>2, TellStep, ReplayStep
<1>9. QED
  BY <1>1, <1>2, <1>3, <1>4, <1>5, <1>6, <1>7, <1>8 DEF Continue

LEMMA NextTicket == TypeInv /\ TicketInv /\ [Next]_vars => TicketInv'
<1> SUFFICES ASSUME TypeInv, TicketInv, [Next]_vars PROVE TicketInv'
  OBVIOUS
<1>1. ASSUME NEW q \in Callers, NEW p \in Payloads, Send(q, p)
      PROVE  TicketInv'
  <2>1. /\ \A r \in Callers \ {q} : req'[r] = req[r]
        /\ req'[q].pc = "looking" /\ req'[q].answer = NoAnswer
    BY <1>1 DEF Send, TypeInv, TypeOK, ReqState, TicketInv, WorksOnOwn
  <2>2. RightlyTold(q)'
    BY <2>1 DEF RightlyTold, NoAnswer
  <2>3. QED
    BY <1>1, <2>1, <2>2, RequestStep DEF Send, Working
<1>2. ASSUME NEW q \in Callers, Throws(q)
      PROVE  TicketInv'
  <2>1. tickets' = tickets
    BY <1>2 DEF Throws
  <2>2. Truthful(q, 500, None)
    BY DEF Truthful
  <2>3. CASE req[q].pc # "done" /\ Goto(q, "rechecking")
    BY <2>1, <2>3, GotoStep DEF Working
  <2>4. CASE req[q].pc = "queueing" /\ Goto(q, "grading")
    BY <2>1, <2>4, GotoStep DEF Working
  <2>5. QED
    BY <1>2, <2>1, <2>2, <2>3, <2>4, TellStep DEF Throws
<1>3. ASSUME NEW q \in Callers, Kill(q)
      PROVE  TicketInv'
  BY <1>3, GotoStep DEF Kill, Working
<1>4. CASE UNCHANGED <<req, tickets>>
  BY <1>4 DEF TicketInv, WorksOnOwn, OneTicket, OwnTicket
<1>5. QED
  BY <1>1, <1>2, <1>3, <1>4, ContinueTicket
     DEF Next, IntakeNext, vars, intakeVars

LEMMA InitTicket == Init => TicketInv
BY DEF Init, TicketInv, WorksOnOwn, OneTicket, NoAnswer, Working

\* One key, one ticket: however many requests look the key up before any of
\* them has created the ticket, and whatever fails in between, one ticket comes
\* of it, and everybody is told of that one or of the conflict there is.
THEOREM OneTicketPerKey == Spec => []OneTicket
<1>1. TicketInv => OneTicket
  BY DEF TicketInv
<1>2. QED
  BY <1>1, InitTypes, NextTypes, InitTicket, NextTicket, PTL DEF Spec

-----------------------------------------------------------------------------
(* Attempts *)

\* A worker that is past the POST, and has seen it accepted.
Posted(w) == work[w].pc \in {"accepted", "noting", "failed", "counting"}
SawAccepted(w) == work[w].pc \in {"accepted", "noting"}

\* What the row or a worker says of attempts is never more than were made, and
\* leaves room for one more until the last one is counted.
RowCounted == row.attempts <= tries /\ row.attempts < MaxAttempts
WorkerCounted(w) ==
  /\ At(w, "posting") => work[w].attempts <= tries /\ work[w].attempts < MaxAttempts
  /\ Posted(w) => work[w].attempts < tries
  /\ SawAccepted(w) => accepted
Counted == RowCounted /\ NotLost /\ \A w \in Workers : WorkerCounted(w)

\* Nothing is taken back of what was tried and accepted.
Forward == tries' \in Nat /\ tries <= tries' /\ (accepted => accepted')
OthersStay(w) == \A v \in Workers \ {w} : work'[v] = work[v]

LEMMA StaysCounted ==
  ASSUME DeliveryTypeOK, Counted, NEW v \in Workers, work'[v] = work[v], Forward
  PROVE  WorkerCounted(v)'
<1>1. work[v].attempts \in Nat /\ tries \in Nat /\ MaxAttempts \in Nat
  BY DeliveryAssumption DEF DeliveryTypeOK, WorkState
<1>2. QED
  BY <1>1 DEF Counted, WorkerCounted, At, Posted, SawAccepted, Forward

\* A step of one worker, and a step of none.
LEMMA CountedStep ==
  ASSUME DeliveryTypeOK, Counted, NEW w \in Workers, OthersStay(w), Forward,
         RowCounted', NotLost', WorkerCounted(w)'
  PROVE  Counted'
BY StaysCounted DEF OthersStay, Counted

LEMMA CountedStays ==
  ASSUME DeliveryTypeOK, Counted, work' = work, Forward, RowCounted', NotLost'
  PROVE  Counted'
BY StaysCounted DEF Counted

\* A worker that leaves, or is called, has nothing to count.
LEMMA NothingToCount ==
  ASSUME NEW w \in Workers, work'[w].pc \in {"idle", "called", "dropping"}
  PROVE  WorkerCounted(w)'
BY DEF WorkerCounted, At, Posted, SawAccepted

LEMMA DeliverCounted ==
  ASSUME DeliveryTypeOK, Counted, NEW w \in Workers, Deliver(w)
  PROVE  Counted'
<1> USE DeliveryAssumption
<1>0. /\ work \in [Workers -> WorkState] /\ row \in Row
      /\ tries \in 0..MaxAttempts /\ MaxAttempts \in Nat \ {0}
      /\ work[w].attempts \in Nat /\ row.attempts \in Nat
  BY DEF DeliveryTypeOK, WorkState, Row
<1>1. RowCounted /\ NotLost /\ WorkerCounted(w)
  BY DEF Counted
<1>2. ASSUME NEW pc, MoveTo(w, pc)
      PROVE  /\ OthersStay(w)
             /\ work'[w].pc = pc /\ work'[w].attempts = work[w].attempts
  BY <1>0, <1>2 DEF MoveTo, WorkState, OthersStay
<1>3. ASSUME Leave(w)
      PROVE  /\ OthersStay(w)
             /\ work'[w].pc = "idle"
  BY <1>0, <1>3 DEF Leave, Idle, OthersStay
<1>f. ASSUME tries' = tries, accepted => accepted'
      PROVE  Forward
  BY <1>0, <1>f DEF Forward
<1>4. CASE ReadRow(w)
  <2>1. OthersStay(w)
    BY <1>0, <1>4 DEF ReadRow, OthersStay
  <2>2. \/ work'[w].pc \in {"idle", "dropping"}
        \/ work'[w] = [pc |-> "posting", attempts |-> row.attempts]
    BY <1>0, <1>4 DEF ReadRow, Idle
  <2>3. WorkerCounted(w)'
    BY <1>1, <1>4, <2>2, NothingToCount
       DEF ReadRow, WorkerCounted, RowCounted, At, Posted, SawAccepted
  <2>4. RowCounted' /\ NotLost'
    BY <1>1, <1>4 DEF ReadRow, RowCounted, NotLost
  <2>5. QED
    BY <1>4, <1>f, <2>1, <2>3, <2>4, CountedStep DEF ReadRow
<1>5. CASE Drop(w)
  <2>1. RowCounted' /\ NotLost'
    BY <1>0, <1>1, <1>5 DEF Drop, RowCounted, NotLost, Row
  <2>2. OthersStay(w) /\ WorkerCounted(w)' /\ Forward
    BY <1>3, <1>5, <1>f, NothingToCount DEF Drop
  <2>3. QED
    BY <2>1, <2>2, CountedStep
<1>6. CASE Post(w)
  <2>1. /\ tries' = OneMore(tries, MaxAttempts) /\ row' = row
        /\ dropped' = dropped /\ (accepted => accepted')
    BY <1>6 DEF Post
  <2>2. work[w].attempts <= tries /\ work[w].attempts < MaxAttempts
    BY <1>1, <1>6 DEF Post, WorkerCounted
  <2>3. tries' \in Nat /\ tries <= tries' /\ work[w].attempts < tries'
        /\ (tries = MaxAttempts => tries' = MaxAttempts)
    BY <1>0, <2>1, <2>2 DEF OneMore
  <2>4. \/ MoveTo(w, "accepted") /\ accepted'
        \/ MoveTo(w, "failed")
    BY <1>6 DEF Post
  <2>5. WorkerCounted(w)'
    BY <1>2, <2>3, <2>4 DEF WorkerCounted, At, Posted, SawAccepted
  <2>6. RowCounted' /\ NotLost'
    BY <1>0, <1>1, <2>1, <2>3 DEF RowCounted, NotLost
  <2>7. OthersStay(w) /\ Forward
    BY <1>2, <2>1, <2>3, <2>4 DEF Forward
  <2>8. QED
    BY <2>5, <2>6, <2>7, CountedStep
<1>7. CASE RemoveSent(w)
  <2>1. accepted /\ work[w].attempts < tries
    BY <1>1, <1>7 DEF RemoveSent, WorkerCounted, At, Posted, SawAccepted
  <2>2. RowCounted' /\ NotLost' /\ accepted' /\ tries' = tries
    BY <1>0, <1>1, <1>7, <2>1 DEF RemoveSent, RowCounted, NotLost, Row, history
  <2>3. WorkerCounted(w)'
    BY <1>2, <1>7, <2>1, <2>2
       DEF RemoveSent, WorkerCounted, At, Posted, SawAccepted
  <2>4. OthersStay(w) /\ Forward
    BY <1>2, <1>7, <1>f, <2>2 DEF RemoveSent
  <2>5. QED
    BY <2>2, <2>3, <2>4, CountedStep
<1>8. CASE NoteKey(w)
  <2>1. row' = row /\ tries' = tries /\ accepted' = accepted /\ dropped' = dropped
    BY <1>8 DEF NoteKey, history
  <2>2. RowCounted' /\ NotLost'
    BY <1>1, <2>1 DEF RowCounted, NotLost
  <2>3. OthersStay(w) /\ Forward
    BY <1>2, <1>3, <1>8, <1>f, <2>1 DEF NoteKey
  <2>4. WorkerCounted(w)'
    <3>1. CASE At(w, "noting") /\ Leave(w)
      BY <1>3, <3>1, NothingToCount
    <3>2. CASE At(w, "failed") /\ MoveTo(w, "counting")
      BY <1>1, <1>2, <2>1, <3>2 DEF WorkerCounted, At, Posted, SawAccepted
    <3>3. QED
      BY <1>8, <3>1, <3>2 DEF NoteKey
  <2>5. QED
    BY <2>2, <2>3, <2>4, CountedStep
<1>9. CASE Count(w)
  <2> DEFINE attempts == work[w].attempts + 1
  <2>1. attempts <= tries /\ attempts \in Nat
    BY <1>0, <1>1, <1>9 DEF Count, WorkerCounted, At, Posted
  <2>2. /\ tries' = tries /\ accepted' = accepted /\ dropped' = dropped
        /\ row' = IF attempts >= MaxAttempts THEN [row EXCEPT !.state = "gone"]
                  ELSE IF row.state = "gone" THEN row
                  ELSE [state |-> "queued", attempts |-> attempts, due |-> FALSE]
    BY <1>9 DEF Count, history
  <2> HIDE DEF attempts
  <2>3. RowCounted'
    BY <1>0, <1>1, <2>1, <2>2 DEF RowCounted, Row
  <2>4. NotLost'
    <3>1. CASE attempts >= MaxAttempts
      BY <1>0, <2>1, <2>2, <3>1 DEF NotLost
    <3>2. CASE ~(attempts >= MaxAttempts)
      BY <1>1, <2>2, <3>2 DEF NotLost
    <3>3. QED
      BY <3>1, <3>2
  <2>5. OthersStay(w) /\ WorkerCounted(w)' /\ Forward
    BY <1>3, <1>9, <1>f, <2>2, NothingToCount DEF Count
  <2>6. QED
    BY <2>3, <2>4, <2>5, CountedStep
<1>10. QED
  BY <1>4, <1>5, <1>6, <1>7, <1>8, <1>9 DEF Deliver

LEMMA OtherCounted ==
  ASSUME DeliveryTypeOK, Counted, DeliveryNext,
         ~ \E w \in Workers : Deliver(w)
  PROVE  Counted'
<1>0. work \in [Workers -> WorkState] /\ row \in Row /\ tries \in Nat
  BY DeliveryAssumption DEF DeliveryTypeOK
<1>1. RowCounted /\ NotLost
  BY DEF Counted
<1>2. ASSUME row' = row, tries' = tries, accepted' = accepted, dropped' = dropped
      PROVE  RowCounted' /\ NotLost' /\ Forward
  BY <1>0, <1>1, <1>2 DEF RowCounted, NotLost, Forward
<1>3. ASSUME NEW w \in Workers, Leave(w) \/ MoveTo(w, "called")
      PROVE  OthersStay(w) /\ WorkerCounted(w)'
  <2>1. OthersStay(w) /\ work'[w].pc \in {"idle", "called"}
    BY <1>0, <1>3 DEF Leave, MoveTo, Idle, WorkState, OthersStay
  <2>2. QED
    BY <2>1, NothingToCount
<1>4. ASSUME NEW w \in Workers, StoreThrows(w)
      PROVE  Counted'
  <2>1. row' = row /\ tries' = tries /\ accepted' = accepted /\ dropped' = dropped
    BY <1>4 DEF StoreThrows
  <2>2. CASE Leave(w)
    BY <1>2, <1>3, <2>1, <2>2, CountedStep
  <2>3. CASE (At(w, "accepted") \/ At(w, "noting")) /\ MoveTo(w, "failed")
    <3>1. /\ OthersStay(w)
          /\ work'[w].pc = "failed" /\ work'[w].attempts = work[w].attempts
      BY <1>0, <2>3 DEF MoveTo, WorkState, OthersStay
    <3>2. work[w].attempts < tries
      BY <2>3 DEF Counted, WorkerCounted, At, Posted
    <3>3. WorkerCounted(w)'
      BY <2>1, <3>1, <3>2 DEF WorkerCounted, At, Posted, SawAccepted
    <3>4. QED
      BY <1>2, <2>1, <3>1, <3>3, CountedStep
  <2>4. QED
    BY <1>4, <2>2, <2>3 DEF StoreThrows
<1>5. ASSUME NEW s \in Sweeps, StartSweep(s) \/ KillSweep(s)
      PROVE  Counted'
  <2>1. row' = row /\ tries' = tries /\ accepted' = accepted /\ dropped' = dropped
    BY <1>5 DEF StartSweep, KillSweep, history
  <2>2. s \in Workers /\ (Leave(s) \/ MoveTo(s, "called"))
    BY <1>5 DEF StartSweep, KillSweep, Workers
  <2>3. QED
    BY <1>2, <1>3, <2>1, <2>2, CountedStep
<1>6. CASE TimePasses \/ Unsubscribe
  <2>1. work' = work /\ tries' = tries /\ accepted' = accepted /\ dropped' = dropped
    BY <1>6 DEF TimePasses, Unsubscribe, history
  <2>2. row'.state = row.state /\ row'.attempts = row.attempts
    BY <1>0, <1>6 DEF TimePasses, Unsubscribe, Row
  <2>3. RowCounted' /\ NotLost' /\ Forward
    BY <1>0, <1>1, <2>1, <2>2 DEF RowCounted, NotLost, Forward
  <2>4. QED
    BY <2>1, <2>3, CountedStays
<1>7. QED
  BY <1>4, <1>5, <1>6 DEF DeliveryNext

LEMMA NextCounted == TypeInv /\ Counted /\ [Next]_vars => Counted'
<1> SUFFICES ASSUME TypeInv, Counted, [Next]_vars PROVE Counted'
  OBVIOUS
<1>0. /\ DeliveryTypeOK /\ work \in [Workers -> WorkState]
      /\ tries \in Nat /\ Callers \subseteq Workers
  BY DeliveryAssumption DEF TypeInv, TypeOK, DeliveryTypeOK, Workers
<1>1. ASSUME UNCHANGED <<row, work, tries, accepted, dropped>>
      PROVE  Counted'
  <2>1. RowCounted' /\ NotLost' /\ Forward
    BY <1>0, <1>1 DEF Counted, RowCounted, NotLost, Forward
  <2>2. QED
    BY <1>0, <1>1, <2>1, CountedStays
<1>2. ASSUME NEW q \in Callers, Queue(q)
      PROVE  Counted'
  <2>1. CASE subscribed
    <3>1. /\ row' = [state |-> "queued", attempts |-> 0, due |-> TRUE]
          /\ tries' = tries /\ accepted' = accepted
          /\ OthersStay(q)
          /\ work'[q].pc = "called"
      BY <1>0, <1>2, <2>1 DEF Queue, MoveTo, WorkState, OthersStay, history
    <3>2. RowCounted' /\ NotLost' /\ Forward
      BY <1>0, <3>1, DeliveryAssumption DEF RowCounted, NotLost, Forward
    <3>3. q \in Workers /\ WorkerCounted(q)'
      BY <1>0, <3>1, NothingToCount
    <3>4. QED
      BY <1>0, <3>1, <3>2, <3>3, CountedStep
  <2>2. CASE ~subscribed
    BY <1>1, <1>2, <2>2 DEF Queue, history
  <2>3. QED
    BY <2>1, <2>2
<1>3. ASSUME NEW q \in Callers, Kill(q)
      PROVE  Counted'
  <2>1. /\ OthersStay(q)
        /\ work'[q].pc = "idle"
    BY <1>0, <1>3 DEF Kill, Leave, Idle, OthersStay
  <2>2. row' = row /\ tries' = tries /\ accepted' = accepted /\ dropped' = dropped
    BY <1>3 DEF Kill
  <2>3. RowCounted' /\ NotLost' /\ Forward
    BY <1>0, <2>2 DEF Counted, RowCounted, NotLost, Forward
  <2>4. q \in Workers /\ WorkerCounted(q)'
    BY <1>0, <2>1, NothingToCount
  <2>5. QED
    BY <1>0, <2>1, <2>3, <2>4, CountedStep
<1>4. ASSUME NEW q \in Callers,
             \/ \E p \in Payloads : Send(q, p)
             \/ Throws(q)
             \/ Continue(q) /\ ~Queue(q)
      PROVE  UNCHANGED <<row, work, tries, accepted, dropped>>
  BY <1>4 DEF Send, Throws, Continue, Lookup, Create, Delivered, ApplySla,
              ProcessPipeline, Created, Recheck, deliveryVars, history
<1>5. CASE DeliveryNext
  BY <1>0, <1>5, DeliverCounted, OtherCounted
<1>6. CASE UNCHANGED vars
  BY <1>1, <1>6 DEF vars, deliveryVars
<1>7. QED
  BY <1>1, <1>2, <1>3, <1>4, <1>5, <1>6 DEF Next, IntakeNext, Continue

LEMMA InitCounted == Init => Counted
BY DeliveryAssumption
   DEF Init, DeliveryInit, Counted, RowCounted, NotLost, WorkerCounted, Idle, At,
       Posted, SawAccepted

\* No callback is lost: workers overlap and set the count back to what they
\* have read, and still a callback that is given up was tried as often as it
\* may be.
THEOREM CallbackNotLost == Spec => []NotLost
<1>1. Counted => NotLost
  BY DEF Counted
<1>2. QED
  BY <1>1, InitTypes, NextTypes, InitCounted, NextCounted, PTL DEF Spec

-----------------------------------------------------------------------------
(* Receipts *)

Busy(w) == ~At(w, "idle") /\ ~At(w, "called")

\* The row is queued once: by the request that has created the ticket, before
\* anybody can work on it.
QueuedOnce ==
  /\ row.state = "none" => \A w \in Workers : At(w, "idle")
  /\ tickets = {} => row.state = "none"
  /\ \A q \in Callers : req[q].pc = "queueing" => row.state = "none"

\* As long as nothing is in doubt one worker at most is past reading the row,
\* and it posts nothing that was received before.
AloneAtWork ==
  /\ \A v, w \in Workers : Busy(v) /\ Busy(w) => v = w
  /\ received <= 1
  /\ received = 1 => row.state = "gone" \/ \E w \in Workers : At(w, "accepted")
  /\ \A w \in Workers : At(w, "posting") => received = 0

ReceiptInv == QueuedOnce /\ (~doubt => AloneAtWork)

LEMMA NextQueuedOnce ==
  TypeInv /\ TicketInv /\ QueuedOnce /\ [Next]_vars => QueuedOnce'
<1> SUFFICES ASSUME TypeInv, TicketInv, QueuedOnce, [Next]_vars
             PROVE  QueuedOnce'
  OBVIOUS
<1>0. /\ work \in [Workers -> WorkState] /\ row \in Row
      /\ req \in [Callers -> ReqState] /\ Callers \subseteq Workers
      /\ Sweeps \subseteq Workers
  BY DEF TypeInv, TypeOK, DeliveryTypeOK, Workers
<1>1. CASE DeliveryNext /\ UNCHANGED intakeVars
  <2>1. ASSUME NEW w \in Workers, Deliver(w) \/ StoreThrows(w)
        PROVE  row.state # "none" /\ row'.state # "none"
    <3>1. row.state # "none"
      BY <2>1 DEF QueuedOnce, Deliver, ReadRow, Drop, Post, RemoveSent, NoteKey,
                  Count, StoreThrows, At
    <3>2. QED
      BY <1>0, <2>1, <3>1 DEF Deliver, ReadRow, Drop, Post, RemoveSent, NoteKey,
                  Count, StoreThrows, Row, history
  <2>2. ASSUME NEW s \in Sweeps, StartSweep(s) \/ KillSweep(s)
        PROVE  row.state # "none" /\ row'.state # "none"
    BY <1>0, <2>2 DEF QueuedOnce, StartSweep, KillSweep, At
  <2>3. ASSUME TimePasses \/ Unsubscribe
        PROVE  row'.state = row.state /\ work' = work
    BY <1>0, <2>3 DEF TimePasses, Unsubscribe, Row
  <2>4. QED
    BY <1>1, <2>1, <2>2, <2>3 DEF DeliveryNext, intakeVars, QueuedOnce, At
<1>2. ASSUME NEW q \in Callers, Create(q)
      PROVE  QueuedOnce'
  BY <1>0, <1>2 DEF Create, Goto, deliveryVars, QueuedOnce, At, ReqState
<1>3. ASSUME NEW q \in Callers, Queue(q)
      PROVE  QueuedOnce'
  <2>1. OwnTicket(q) \in tickets
    BY <1>3 DEF Queue, TicketInv, WorksOnOwn, Working
  <2>2. ASSUME NEW r \in Callers, req'[r].pc = "queueing"
        PROVE  FALSE
    <3>1. r # q /\ req[r].pc = "queueing"
      BY <1>0, <1>3, <2>2 DEF Queue, Goto, ReqState
    <3>2. OwnTicket(r) \in tickets
      BY <3>1 DEF TicketInv, WorksOnOwn, Working
    <3>3. OwnTicket(r) = OwnTicket(q)
      BY <2>1, <3>2 DEF TicketInv, OneTicket
    <3>4. QED
      BY <3>1, <3>3 DEF OwnTicket
  <2>3. tickets' = tickets /\ ((row' = row /\ work' = work) \/ row'.state = "queued")
    BY <1>3 DEF Queue
  <2>4. QED
    BY <2>1, <2>2, <2>3 DEF QueuedOnce, At
<1>4. ASSUME NEW q \in Callers,
             \/ \E p \in Payloads : Send(q, p)
             \/ Throws(q) \/ Kill(q)
             \/ Continue(q) /\ ~Create(q) /\ ~Queue(q)
      PROVE  QueuedOnce'
  <2>1. row' = row /\ tickets' = tickets /\ (work' = work \/ Leave(q))
    BY <1>4 DEF Send, Throws, Kill, Continue, Lookup, Delivered, ApplySla,
                ProcessPipeline, Created, Recheck, deliveryVars
  <2>2. \A r \in Callers : req'[r].pc = "queueing" => req[r].pc = "queueing"
    BY <1>0, <1>4 DEF Send, Throws, Kill, Continue, Lookup, Delivered, ApplySla,
                ProcessPipeline, Created, Recheck, Goto, Tell, Replay, ReqState
  <2>3. \A w \in Workers : At(w, "idle") => work'[w].pc = "idle"
    BY <1>0, <2>1 DEF Leave, Idle, At
  <2>4. QED
    BY <2>1, <2>2, <2>3 DEF QueuedOnce, At
<1>5. CASE UNCHANGED vars
  BY <1>5 DEF vars, deliveryVars, intakeVars, QueuedOnce, At
<1>6. QED
  BY <1>1, <1>2, <1>3, <1>4, <1>5 DEF Next, IntakeNext

\* A step of a worker that posts nothing and ends up no busier than it was.
LEMMA QuietStep ==
  ASSUME TypeInv, AloneAtWork, NEW w \in Workers, OthersStay(w),
         received' = received,
         Busy(w)' => Busy(w), work'[w].pc \notin {"posting", "accepted"},
         ~At(w, "accepted") \/ row'.state = "gone",
         row.state = "gone" => row'.state = "gone"
  PROVE  AloneAtWork'
<1>1. \A v \in Workers \ {w} : work'[v] = work[v]
  BY DEF OthersStay
<1>2. \A v \in Workers : Busy(v)' => Busy(v)
  BY <1>1 DEF Busy, At
<1>3. \A v \in Workers : work'[v].pc = "posting" => At(v, "posting")
  BY <1>1 DEF At
<1>4. \A v \in Workers \ {w} : At(v, "accepted") => work'[v].pc = "accepted"
  BY <1>1 DEF At
<1>5. \A v, u \in Workers : Busy(v)' /\ Busy(u)' => v = u
  BY <1>2 DEF AloneAtWork
<1>6. received' = 1 => row'.state = "gone" \/ \E v \in Workers : At(v, "accepted")'
  BY <1>4 DEF AloneAtWork, At
<1>7. \A v \in Workers : At(v, "posting")' => received' = 0
  BY <1>3 DEF AloneAtWork, At
<1>8. QED
  BY <1>5, <1>6, <1>7 DEF AloneAtWork

LEMMA DeliverAlone ==
  ASSUME TypeInv, AloneAtWork, NEW w \in Workers, Deliver(w), ~doubt'
  PROVE  AloneAtWork'
<1>0. work \in [Workers -> WorkState] /\ row \in Row /\ received \in 0..2
  BY DEF TypeInv, TypeOK, DeliveryTypeOK
<1>1. ASSUME NEW pc, MoveTo(w, pc)
      PROVE  OthersStay(w) /\ work'[w].pc = pc
  BY <1>0, <1>1 DEF MoveTo, OthersStay, WorkState
<1>2. ASSUME Leave(w)
      PROVE  OthersStay(w) /\ work'[w].pc = "idle"
  BY <1>0, <1>2 DEF Leave, OthersStay, Idle
<1>3. CASE ReadRow(w)
  <2>1. /\ OthersStay(w) /\ received' = received /\ row' = row
        /\ At(w, "called")
        /\ \A v \in Workers \ {w} : At(v, "idle")
        /\ row.state = "gone" => work'[w].pc = "idle"
        /\ work'[w].pc \in {"idle", "dropping", "posting"}
    BY <1>0, <1>3 DEF ReadRow, OthersStay, Idle
  <2>2. \A v \in Workers \ {w} : work'[v].pc = "idle"
    BY <2>1 DEF OthersStay, At
  <2>3. \A v \in Workers : ~At(v, "accepted")
    BY <2>1 DEF At
  <2>4. received = 1 => row.state = "gone"
    BY <2>3 DEF AloneAtWork
  <2>5. \A v, u \in Workers : Busy(v)' /\ Busy(u)' => v = u
    BY <2>2 DEF Busy, At
  <2>6. \A v \in Workers : At(v, "posting")' => received' = 0
    BY <1>0, <2>1, <2>2, <2>4 DEF At, AloneAtWork
  <2>7. QED
    BY <2>1, <2>4, <2>5, <2>6 DEF AloneAtWork
<1>4. CASE Post(w)
  <2>1. /\ row' = row /\ received = 0 /\ Busy(w) /\ At(w, "posting")
        /\ OthersStay(w)
    BY <1>1, <1>4 DEF Post, AloneAtWork, Busy, At
  <2>2. \/ work'[w].pc = "accepted" /\ received' = 1
        \/ work'[w].pc = "failed" /\ received' = 0
    BY <1>1, <1>4, <2>1 DEF Post, OneMore
  <2>3. \A v \in Workers \ {w} : ~Busy(v) /\ work'[v] = work[v]
    BY <2>1 DEF AloneAtWork, OthersStay
  <2>4. \A v, u \in Workers : Busy(v)' /\ Busy(u)' => v = u
    BY <2>3 DEF Busy, At
  <2>5. \A v \in Workers : ~At(v, "posting")'
    BY <2>2, <2>3 DEF Busy, At
  <2>6. received' = 1 => \E v \in Workers : At(v, "accepted")'
    BY <2>2 DEF At
  <2>7. QED
    BY <2>2, <2>4, <2>5, <2>6 DEF AloneAtWork
<1>5. CASE RemoveSent(w)
  <2>1. received' = received /\ row'.state = "gone" /\ Busy(w)
    BY <1>0, <1>5 DEF RemoveSent, Row, Busy, At, history
  <2>2. QED
    BY <1>1, <1>5, <2>1, QuietStep DEF RemoveSent
<1>6. CASE Drop(w)
  <2>1. received' = received /\ row'.state = "gone"
    BY <1>0, <1>6 DEF Drop, Row
  <2>2. QED
    BY <1>2, <1>6, <2>1, QuietStep DEF Drop, Busy, At
<1>7. CASE NoteKey(w)
  <2>1. received' = received /\ row' = row /\ ~At(w, "accepted") /\ Busy(w)
    BY <1>7 DEF NoteKey, history, Busy, At
  <2>2. OthersStay(w) /\ work'[w].pc \in {"idle", "counting"}
    BY <1>1, <1>2, <1>7 DEF NoteKey
  <2>3. QED
    BY <2>1, <2>2, QuietStep
<1>8. CASE Count(w)
  <2>1. received' = received /\ ~At(w, "accepted")
    BY <1>8 DEF Count, history, At
  <2>2. row.state = "gone" => row'.state = "gone"
    BY <1>0, <1>8 DEF Count, Row
  <2>3. OthersStay(w) /\ work'[w].pc = "idle"
    BY <1>2, <1>8 DEF Count
  <2>4. QED
    BY <2>1, <2>2, <2>3, QuietStep DEF Busy, At
<1>9. QED
  BY <1>3, <1>4, <1>5, <1>6, <1>7, <1>8 DEF Deliver

\* Everybody keeps their place, and the row is not queued again.
LEMMA IdleStep ==
  ASSUME AloneAtWork, received' = received, row'.state = row.state,
         \A w \in Workers :
           work'[w].pc = work[w].pc \/ (At(w, "idle") /\ work'[w].pc = "called")
  PROVE  AloneAtWork'
<1>1. \A w \in Workers : /\ Busy(w)' = Busy(w)
                         /\ At(w, "posting")' = At(w, "posting")
                         /\ At(w, "accepted")' = At(w, "accepted")
  BY DEF Busy, At
<1>2. \A v, u \in Workers : Busy(v)' /\ Busy(u)' => v = u
  BY <1>1 DEF AloneAtWork
<1>3. QED
  BY <1>1, <1>2 DEF AloneAtWork

LEMMA NextReceipt ==
  TypeInv /\ TicketInv /\ ReceiptInv /\ [Next]_vars => ReceiptInv'
<1> SUFFICES ASSUME TypeInv, TicketInv, ReceiptInv, [Next]_vars, ~doubt'
             PROVE  AloneAtWork'
  BY NextQueuedOnce DEF ReceiptInv
<1>0. /\ work \in [Workers -> WorkState] /\ row \in Row /\ doubt \in BOOLEAN
      /\ Callers \subseteq Workers /\ Sweeps \subseteq Workers
  BY DEF TypeInv, TypeOK, DeliveryTypeOK, Workers
<1>1. ASSUME NEW w \in Workers, StoreThrows(w)
      PROVE  FALSE
  BY <1>1 DEF StoreThrows
<1>2. ASSUME NEW s \in Sweeps, KillSweep(s)
      PROVE  FALSE
  BY <1>2 DEF KillSweep
<1>3. ASSUME NEW q \in Callers, Kill(q)
      PROVE  FALSE
  BY <1>3 DEF Kill
<1>4. ASSUME NEW w \in Workers, Deliver(w)
      PROVE  AloneAtWork'
  <2>1. ~doubt
    BY <1>0, <1>4 DEF Deliver, ReadRow, Drop, Post, RemoveSent, NoteKey, Count,
                      history
  <2>2. QED
    BY <1>4, <2>1, DeliverAlone DEF ReceiptInv
<1>5. ASSUME doubt' = doubt, received' = received, row'.state = row.state,
             \A w \in Workers : work'[w].pc = work[w].pc
                \/ (At(w, "idle") /\ work'[w].pc = "called")
      PROVE  AloneAtWork'
  BY <1>5, IdleStep DEF ReceiptInv
<1>6. ASSUME NEW s \in Sweeps, StartSweep(s)
      PROVE  AloneAtWork'
  BY <1>0, <1>5, <1>6 DEF StartSweep, MoveTo, WorkState, At, history
<1>7. CASE TimePasses \/ Unsubscribe
  BY <1>0, <1>5, <1>7 DEF TimePasses, Unsubscribe, Row, history
<1>8. ASSUME NEW q \in Callers, Queue(q)
      PROVE  AloneAtWork'
  <2>1. row.state = "none" /\ (\A w \in Workers : At(w, "idle")) /\ AloneAtWork
    BY <1>8 DEF Queue, ReceiptInv, QueuedOnce, history
  <2>2. received' = received /\ received \in 0..2 /\ received # 1 /\ received <= 1
    BY <1>8, <2>1 DEF Queue, history, AloneAtWork, At, TypeInv, TypeOK,
                      DeliveryTypeOK
  <2>3. \A w \in Workers : work'[w].pc \in {"idle", "called"}
    BY <1>0, <1>8, <2>1 DEF Queue, MoveTo, WorkState, At
  <2>4. \A w \in Workers : ~Busy(w)' /\ ~At(w, "posting")'
    BY <2>3 DEF Busy, At
  <2>5. QED
    BY <2>2, <2>4 DEF AloneAtWork
<1>9. ASSUME NEW q \in Callers,
             \/ \E p \in Payloads : Send(q, p)
             \/ Throws(q)
             \/ Continue(q) /\ ~Queue(q)
      PROVE  AloneAtWork'
  <2>1. UNCHANGED <<row, work, received, doubt>>
    BY <1>9 DEF Send, Throws, Continue, Lookup, Create, Delivered, ApplySla,
                ProcessPipeline, Created, Recheck, deliveryVars, history
  <2>2. QED
    BY <1>5, <2>1
<1>10. CASE UNCHANGED vars
  BY <1>5, <1>10 DEF vars, deliveryVars
<1>11. QED
  BY <1>1, <1>2, <1>3, <1>4, <1>6, <1>7, <1>8, <1>9, <1>10
     DEF Next, IntakeNext, DeliveryNext

LEMMA InitReceipt == Init => ReceiptInv
<1> SUFFICES ASSUME Init PROVE ReceiptInv
  OBVIOUS
<1>1. \A w \in Workers : work[w].pc = "idle"
  BY DEF Init, DeliveryInit, Idle
<1>2. row.state = "none" /\ received = 0
  BY DEF Init, DeliveryInit
<1>3. QED
  BY <1>1, <1>2 DEF ReceiptInv, QueuedOnce, AloneAtWork, Busy, At

\* The subscriber gets a callback once, unless an answer was lost, something
\* failed or two workers met: nobody claims the row, and yet a sweep that does
\* not meet the request which delivers it does not send it again.
THEOREM CallbackOnce == Spec => []ReceivedOnce
<1>1. TypeInv /\ ReceiptInv => ReceivedOnce
  BY DEF ReceiptInv, AloneAtWork, ReceivedOnce, TypeInv, TypeOK, DeliveryTypeOK
<1>2. QED
  BY <1>1, InitTypes, NextTypes, InitTicket, NextTicket, InitReceipt, NextReceipt,
     PTL DEF Spec

-----------------------------------------------------------------------------
(* Set-backs *)

\* A worker that has read the row and may still count an attempt from it.
Delivering(w) == ~At(w, "idle") /\ ~At(w, "called") /\ ~At(w, "dropping")

\* The callback is out, and neither its row nor a worker is below n; the row is
\* above n, or gone; the workers that may still set it back, to n + 1.
Rising(n) ==
  /\ row.state # "none"
  /\ row.state = "queued" => row.attempts >= n
  /\ \A w \in Workers : Delivering(w) => work[w].attempts >= n
Passed(n) == row.state = "queued" => row.attempts > n
Behind(n) == {w \in Workers : Delivering(w) /\ work[w].attempts = n}

Advance(n) ==
  Rising(n) =>
    /\ Rising(n)'
    /\ Passed(n) => Passed(n)' /\ Behind(n)' \subseteq Behind(n)

\* A step of one worker that leaves, or goes on from where it was.
LEMMA WorkerAdvance ==
  ASSUME NEW n \in Nat, NEW w \in Workers, OthersStay(w),
         row.state # "none" => row'.state # "none",
         row'.state = "queued" =>
           \/ row.state = "queued" /\ row'.attempts = row.attempts
           \/ Rising(n) /\ row'.attempts \in Nat /\ row'.attempts > n,
         \/ work'[w].pc \in {"idle", "called", "dropping"}
         \/ Delivering(w) /\ work'[w].attempts = work[w].attempts
         \/ row.state = "queued" /\ work'[w].attempts = row.attempts,
         row.attempts \in Nat
  PROVE  Advance(n)
<1> SUFFICES ASSUME Rising(n)
             PROVE  /\ Rising(n)'
                    /\ Passed(n) => Passed(n)' /\ Behind(n)' \subseteq Behind(n)
  BY DEF Advance
<1>1. row'.state # "none"
  BY DEF Rising
<1>2. row'.state = "queued" => row'.attempts >= n
  BY DEF Rising
<1>3. ASSUME NEW v \in Workers, Delivering(v)'
      PROVE  /\ work'[v].attempts >= n
             /\ Passed(n) /\ work'[v].attempts = n =>
                  Delivering(v) /\ work[v].attempts = n
  <2>1. CASE v # w
    BY <1>3, <2>1 DEF OthersStay, Delivering, At, Rising
  <2>2. CASE v = w
    BY <1>3, <2>2 DEF Delivering, At, Rising, Passed
  <2>3. QED
    BY <2>1, <2>2
<1>4. Passed(n) => Passed(n)'
  BY DEF Passed
<1>5. Passed(n) => Behind(n)' \subseteq Behind(n)
  BY <1>3 DEF Behind
<1>6. QED
  BY <1>1, <1>2, <1>3, <1>4, <1>5 DEF Rising

LEMMA DeliverAdvance ==
  ASSUME TypeInv, QueuedOnce, NEW n \in Nat, NEW w \in Workers,
         Deliver(w) \/ StoreThrows(w)
  PROVE  Advance(n)
<1>0. work \in [Workers -> WorkState] /\ row \in Row /\ row.attempts \in Nat
  BY DEF TypeInv, TypeOK, DeliveryTypeOK, Row
<1>1. ASSUME NEW pc, MoveTo(w, pc)
      PROVE  /\ OthersStay(w)
             /\ work'[w].pc = pc /\ work'[w].attempts = work[w].attempts
  BY <1>0, <1>1 DEF MoveTo, WorkState, OthersStay
<1>2. ASSUME Leave(w)
      PROVE  OthersStay(w) /\ work'[w].pc = "idle"
  BY <1>0, <1>2 DEF Leave, Idle, OthersStay
<1>3. CASE ReadRow(w)
  <2>1. row' = row /\ OthersStay(w) /\ At(w, "called")
    BY <1>0, <1>3 DEF ReadRow, OthersStay
  <2>2. row.state \in {"queued", "gone"}
    BY <1>0, <2>1 DEF QueuedOnce, At, Row
  <2>3. \/ work'[w].pc \in {"idle", "dropping"}
        \/ row.state = "queued" /\ work'[w].attempts = row.attempts
    BY <1>0, <1>3, <2>2 DEF ReadRow, Idle
  <2>4. QED
    BY <1>0, <2>1, <2>3, WorkerAdvance
<1>4. CASE Drop(w) \/ RemoveSent(w)
  <2>1. row'.state = "gone"
    BY <1>0, <1>4 DEF Drop, RemoveSent, Row
  <2>2. OthersStay(w) /\ (work'[w].pc = "idle"
          \/ (Delivering(w) /\ work'[w].attempts = work[w].attempts))
    BY <1>1, <1>2, <1>4 DEF Drop, RemoveSent, Delivering, At
  <2>3. QED
    BY <1>0, <2>1, <2>2, WorkerAdvance
<1>5. CASE Post(w) \/ NoteKey(w) \/ StoreThrows(w)
  <2>1. row' = row
    BY <1>5 DEF Post, NoteKey, StoreThrows
  <2>2. OthersStay(w) /\ (work'[w].pc = "idle"
          \/ (Delivering(w) /\ work'[w].attempts = work[w].attempts))
    BY <1>1, <1>2, <1>5 DEF Post, NoteKey, StoreThrows, Delivering, At
  <2>3. QED
    BY <1>0, <2>1, <2>2, WorkerAdvance
<1>6. CASE Count(w)
  <2>1. Delivering(w) /\ work[w].attempts \in Nat
    BY <1>0, <1>6 DEF Count, Delivering, At, WorkState
  <2>2. \/ row' = row
        \/ row'.state = "gone"
        \/ row'.state = "queued" /\ row'.attempts = work[w].attempts + 1
    BY <1>0, <1>6 DEF Count, Row
  <2>3. Rising(n) => work[w].attempts + 1 > n
    BY <2>1 DEF Rising
  <2>4. CASE Rising(n)
    BY <1>0, <1>2, <1>6, <2>1, <2>2, <2>3, <2>4, WorkerAdvance DEF Count
  <2>5. CASE ~Rising(n)
    BY <2>5 DEF Advance
  <2>6. QED
    BY <2>4, <2>5
<1>7. QED
  BY <1>3, <1>4, <1>5, <1>6 DEF Deliver

\* A step after which everybody delivers what they did.
LEMMA StillAdvance ==
  ASSUME NEW n \in Nat, row'.state = row.state, row'.attempts = row.attempts,
         \A w \in Workers :
           work'[w] = work[w] \/ work'[w].pc \in {"idle", "called", "dropping"}
  PROVE  Advance(n)
<1>1. \A w \in Workers :
        Delivering(w)' => Delivering(w) /\ work'[w].attempts = work[w].attempts
  BY DEF Delivering, At
<1>2. Behind(n)' \subseteq Behind(n)
  BY <1>1 DEF Behind
<1>3. QED
  BY <1>1, <1>2 DEF Advance, Rising, Passed

LEMMA NextAdvance ==
  ASSUME TypeInv, TicketInv, QueuedOnce, NEW n \in Nat, [Next]_vars
  PROVE  Advance(n)
<1>0. /\ work \in [Workers -> WorkState] /\ row \in Row
      /\ Callers \subseteq Workers /\ Sweeps \subseteq Workers
  BY DEF TypeInv, TypeOK, DeliveryTypeOK, Workers
<1>1. ASSUME NEW w \in Workers, Leave(w) \/ MoveTo(w, "called")
      PROVE  \A v \in Workers :
               work'[v] = work[v] \/ work'[v].pc \in {"idle", "called"}
  BY <1>0, <1>1 DEF Leave, MoveTo, Idle, WorkState
<1>2. ASSUME NEW s \in Sweeps, StartSweep(s) \/ KillSweep(s)
      PROVE  Advance(n)
  BY <1>0, <1>1, <1>2, StillAdvance DEF StartSweep, KillSweep
<1>3. CASE TimePasses \/ Unsubscribe
  BY <1>0, <1>3, StillAdvance DEF TimePasses, Unsubscribe, Row
<1>4. ASSUME NEW q \in Callers, Queue(q)
      PROVE  Advance(n)
  <2>1. row.state = "none"
    BY <1>4 DEF Queue, QueuedOnce
  <2>2. QED
    BY <2>1 DEF Advance, Rising
<1>5. ASSUME NEW q \in Callers, Kill(q)
      PROVE  Advance(n)
  BY <1>0, <1>1, <1>5, StillAdvance DEF Kill
<1>6. ASSUME NEW q \in Callers,
             \/ \E p \in Payloads : Send(q, p)
             \/ Throws(q)
             \/ Continue(q) /\ ~Queue(q)
      PROVE  Advance(n)
  <2>1. UNCHANGED <<row, work>>
    BY <1>6 DEF Send, Throws, Continue, Lookup, Create, Delivered, ApplySla,
                ProcessPipeline, Created, Recheck, deliveryVars
  <2>2. QED
    BY <2>1, StillAdvance
<1>7. CASE UNCHANGED vars
  BY <1>7, StillAdvance DEF vars, deliveryVars
<1>8. QED
  BY <1>2, <1>3, <1>4, <1>5, <1>6, <1>7, DeliverAdvance
     DEF Next, IntakeNext, DeliveryNext

\* Once nobody is behind, everything is above n.
LEMMA NobodyBehind ==
  ASSUME TypeInv, NEW n \in Nat, Rising(n), Passed(n), Behind(n) = {}
  PROVE  Rising(n + 1)
<1>1. row.attempts \in Nat /\ \A w \in Workers : work[w].attempts \in Nat
  BY DEF TypeInv, TypeOK, DeliveryTypeOK, Row, WorkState
<1>2. \A w \in Workers : Delivering(w) => work[w].attempts # n
  BY DEF Behind
<1>3. QED
  BY <1>1, <1>2 DEF Rising, Passed

\* A callback is not tried for ever because of set-backs: once it is past n
\* attempts it stays past them, and only the workers that have read n, who get no
\* more, can set it back to n + 1; when they have left, everything is above n.
THEOREM SetBacksEnd ==
  ASSUME NEW n \in Nat
  PROVE  Spec => [][Advance(n) /\ (Passed(n) /\ Rising(n) /\ Behind(n) = {}
                                     => Rising(n + 1))]_vars
<1>1. TypeInv /\ TicketInv /\ ReceiptInv /\ [Next]_vars =>
        [Advance(n) /\ (Passed(n) /\ Rising(n) /\ Behind(n) = {}
                          => Rising(n + 1))]_vars
  BY NextAdvance, NobodyBehind DEF ReceiptInv
<1>2. QED
  BY <1>1, InitTypes, NextTypes, InitTicket, NextTicket, InitReceipt, NextReceipt,
     PTL DEF Spec
=============================================================================
