---------------------------- MODULE TicketIntake ----------------------------
(***************************************************************************)
(* Requests that create a ticket through the API with the same idempotency *)
(* key: the lookup, the creation under the unique key, the callback that   *)
(* is queued and delivered at once, the work on the new ticket, and the    *)
(* answer; and the sweeps that deliver the callback otherwise (module      *)
(* WebhookDelivery).  A client that gets no answer sends the request again *)
(* as another request; one that reuses the key for something else sends    *)
(* another payload.                                                        *)
(*                                                                         *)
(* Left out: the checks of the body, requests without a key (which share   *)
(* nothing), classification and tags, and what the steps of the pipeline   *)
(* do to the ticket (modules TicketWorkflow and LegacyTicket).             *)
(***************************************************************************)
EXTENDS WebhookDelivery

CONSTANT Payloads  \* what a request may ask for: requestHash

None == "none"

\* A load also says what each request asks for; one that asks for None is not sent.
ASSUME IntakeAssumption ==
  \A l \in Loads : l.asks \in [Callers -> Payloads \cup {None}]

VARIABLES
  req,      \* req[q]: where request q is, what it asks for and what it was told
  tickets,  \* the tickets under the key, each with the request that created it
  graded,   \* requests whose ticket got its due dates
  served    \* requests whose ticket went through the pipeline, or was put on hold

intakeVars == <<req, tickets, graded, served>>
vars == <<load, deliveryVars, intakeVars>>

Ticket == [by: Callers, payload: Payloads]

\* The ticket of an answer is named by the request that created it.
Answer == [status: {201, 200}, ticket: Callers]
            \cup [status: {409, 500}, ticket: {None}]
NoAnswer == [status |-> 0, ticket |-> None]

ReqState ==
  [pc: {"new", "looking", "creating", "queueing", "delivering", "grading",
        "serving", "answering", "rechecking", "done"},
   payload: Payloads \cup {None}, answer: Answer \cup {NoAnswer}]

Init ==
  /\ DeliveryInit
  /\ req = [q \in Callers |->
              [pc |-> "new", payload |-> None, answer |-> NoAnswer]]
  /\ tickets = {} /\ graded = {} /\ served = {}

Goto(q, pc) == req' = [req EXCEPT ![q].pc = pc]

Tell(q, status, ticket) ==
  req' = [req EXCEPT ![q].pc = "done",
                     ![q].answer = [status |-> status, ticket |-> ticket]]

-----------------------------------------------------------------------------
(* POST /api/v1/tickets *)

Send(q, p) ==
  /\ req[q].pc = "new" /\ p = load.asks[q]
  /\ req' = [req EXCEPT ![q].pc = "looking", ![q].payload = p]
  /\ UNCHANGED <<deliveryVars, tickets, graded, served>>

\* findIdempotentTicket has found ticket t.
Replay(q, t) ==
  IF t.payload = req[q].payload THEN Tell(q, 200, t.by) ELSE Tell(q, 409, None)

Lookup(q) ==
  /\ req[q].pc = "looking"
  /\ IF tickets = {} THEN Goto(q, "creating")
     ELSE \E t \in tickets : Replay(q, t)
  /\ UNCHANGED <<deliveryVars, tickets, graded, served>>

FaultyCreate(q) ==  \* the column is not unique
  /\ req[q].pc = "creating"
  /\ tickets' = tickets \cup {[by |-> q, payload |-> req[q].payload]}
  /\ Goto(q, "queueing")
  /\ UNCHANGED <<deliveryVars, graded, served>>

\* createTicket in its transaction; the hash of the key is unique.
Create(q) ==
  /\ req[q].pc = "creating"
  /\ IF tickets = {}
     THEN /\ tickets' = {[by |-> q, payload |-> req[q].payload]}
          /\ Goto(q, "queueing")
     ELSE Goto(q, "rechecking") /\ UNCHANGED tickets
  /\ UNCHANGED <<deliveryVars, graded, served>>

\* queueTicketWebhookEvent: outside a transaction the caller delivers at once.
Queue(q) ==
  /\ req[q].pc = "queueing"
  /\ IF subscribed
     THEN /\ row' = [state |-> "queued", attempts |-> 0, due |-> TRUE]
          /\ MoveTo(q, "called")
          /\ Goto(q, "delivering")
     ELSE Goto(q, "grading") /\ UNCHANGED <<row, work>>
  /\ UNCHANGED <<subscribed, mishaps, history, tickets, graded, served>>

FaultyDelivered(q) ==  \* waits for the subscriber to accept the callback
  /\ req[q].pc = "delivering" /\ accepted
  /\ Goto(q, "grading")
  /\ UNCHANGED <<deliveryVars, tickets, graded, served>>

\* The request goes on when its delivery has ended, however it ended.
Delivered(q) ==
  /\ req[q].pc = "delivering" /\ At(q, "idle")
  /\ Goto(q, "grading")
  /\ UNCHANGED <<deliveryVars, tickets, graded, served>>

ApplySla(q) ==
  /\ req[q].pc = "grading"
  /\ graded' = graded \cup {q}
  /\ Goto(q, "serving")
  /\ UNCHANGED <<deliveryVars, tickets, served>>

\* Routing, rules and triage, whose failures are recorded and go no further; or the
\* hold of an item that wants approval.
ProcessPipeline(q) ==
  /\ req[q].pc = "serving"
  /\ served' = served \cup {q}
  /\ Goto(q, "answering")
  /\ UNCHANGED <<deliveryVars, tickets, graded>>

FaultyCreated(q) ==  \* returns no ticket
  /\ req[q].pc = "answering"
  /\ Tell(q, 201, None)
  /\ UNCHANGED <<deliveryVars, tickets, graded, served>>

\* The ticket is read back and returned.
Created(q) ==
  /\ req[q].pc = "answering"
  /\ Tell(q, 201, q)
  /\ UNCHANGED <<deliveryVars, tickets, graded, served>>

\* After any error the key is looked up once more.
Recheck(q) ==
  /\ req[q].pc = "rechecking"
  /\ IF tickets = {} THEN Tell(q, 500, None)
     ELSE \E t \in tickets : Replay(q, t)
  /\ UNCHANGED <<deliveryVars, tickets, graded, served>>

-----------------------------------------------------------------------------

Mishap == mishaps < load.mishaps /\ mishaps' = mishaps + 1

\* Something throws: before the ticket exists, or in the work on it.  A callback
\* that cannot be queued is given up silently.
Throws(q) ==
  /\ Mishap
  /\ \/ req[q].pc \in {"looking", "creating", "grading", "serving", "answering"}
          /\ Goto(q, "rechecking")
     \/ req[q].pc = "queueing" /\ Goto(q, "grading")
     \/ req[q].pc = "rechecking" /\ Tell(q, 500, None)
  /\ UNCHANGED <<row, subscribed, work, history, tickets, graded, served>>

\* The process ends: the client gets no answer.
Kill(q) ==
  /\ Mishap
  /\ req[q].pc \notin {"new", "done"}
  /\ Goto(q, "done")
  /\ Leave(q)
  /\ doubt' = TRUE
  /\ UNCHANGED <<row, subscribed, tries, received, accepted, dropped,
                 tickets, graded, served>>

Continue(q) ==
  \/ Lookup(q)
  \/ Create(q)
  \/ Queue(q)
  \/ Delivered(q)
  \/ ApplySla(q)
  \/ ProcessPipeline(q)
  \/ Created(q)
  \/ Recheck(q)

IntakeNext ==
  \E q \in Callers :
    \/ \E p \in Payloads : Send(q, p)
    \/ Continue(q)
    \/ Throws(q)
    \/ Kill(q)

Next ==
  /\ IntakeNext \/ (DeliveryNext /\ UNCHANGED intakeVars)
  /\ UNCHANGED load

Spec == Init /\ [][Next]_vars

\* A request goes on, in its delivery too; sweeps go on and start again and again;
\* time passes.
Requesting(q) == Continue(q) \/ (Deliver(q) /\ UNCHANGED intakeVars)
Sweeping(s) == (StartSweep(s) \/ Deliver(s)) /\ UNCHANGED intakeVars
Fairness ==
  /\ \A q \in Callers : WF_vars(Requesting(q) /\ UNCHANGED load)
  /\ \A s \in Sweeps : WF_vars(Sweeping(s) /\ UNCHANGED load)
  /\ WF_vars(TimePasses /\ UNCHANGED <<load, intakeVars>>)
FairSpec == Spec /\ Fairness

-----------------------------------------------------------------------------
(* Properties *)

\* The rows, the workers and the requests have the types they are declared with.
TypeOK ==
  /\ DeliveryTypeOK
  /\ req \in [Callers -> ReqState]
  /\ tickets \subseteq Ticket
  /\ graded \subseteq Callers /\ served \subseteq Callers

\* One key, one ticket, however often and at the same time it is asked for; and
\* all who are told of a ticket are told of that one, created as they asked.
OneTicket ==
  /\ \A t, u \in tickets : t = u
  /\ \A q \in Callers :
       /\ req[q].answer.status \in {200, 201} =>
            [by |-> req[q].answer.ticket, payload |-> req[q].payload] \in tickets
       /\ req[q].answer.status = 409 =>
            \E t \in tickets : t.payload # req[q].payload

\* A ticket does not stay unserved, unless the request that created it was cut
\* short.
IntakeCompletes ==
  tickets # {} ~>
    \A t \in tickets :
      \/ t.by \in graded \cap served
      \/ req[t.by].pc = "done" /\ req[t.by].answer.status # 201

\* A callback that was queued is accepted, given up or dropped in the end, although
\* overlapping workers set its count back to one more than they have read.
CallbackSettles == row.state = "queued" ~> row.state = "gone"
=============================================================================
