-------------------------- MODULE WebhookDelivery --------------------------
(***************************************************************************)
(* One callback for a subscriber outside: its row in webhookDeliveries and *)
(* the workers that deliver it.  A worker is a request that delivers the   *)
(* callback it has just queued, or a sweep (the scheduler's and the minute *)
(* maintenance hold different locks, so that they overlap).  Nobody claims *)
(* the row: whoever reads it delivers it.  The step that queues the row    *)
(* belongs to the caller, see module TicketIntake.                         *)
(*                                                                         *)
(* Left out: the payload and its signature, the checks of the address, the *)
(* delay before the next attempt, the health fields of the API key, and    *)
(* the audit entry of a callback that is given up (module AuditChain).     *)
(*                                                                         *)
(* Definitions named Faulty... are slips somebody could make in the code.  *)
(* No specification uses them: each shows that a property would notice.    *)
(***************************************************************************)
EXTENDS Integers

CONSTANTS
  Callers,      \* requests, which deliver what they queue
  Sweeps,       \* slots for sweeps at the same time
  MaxAttempts,  \* MAX_ATTEMPTS
  Loads         \* bound: what may come together in one behaviour; the slots for
                \* sweeps, and the mishaps: store calls that throw and processes
                \* that end (a module that EXTENDS this one adds to them)

ASSUME DeliveryAssumption ==
  /\ MaxAttempts \in Nat \ {0}
  /\ \A l \in Loads : l.sweeps \subseteq Sweeps /\ l.mishaps \in Nat

Workers == Callers \cup Sweeps

VARIABLES
  load,        \* the load of this behaviour, which stays
  row,         \* the row: none before it is queued, gone when it is removed
  subscribed,  \* the API key is active and wants the callback
  work,        \* work[w]: where worker w is, and the attempts it has read
  tries,       \* history: POSTs and attempts to make one, up to MaxAttempts
  received,    \* history: times the subscriber got the callback, up to two
  accepted,    \* history: a worker has seen the subscriber accept it
  dropped,     \* history: a worker removed it for want of a subscriber
  doubt,       \* history: an answer was lost, a worker cut short, or two met
  mishaps      \* mishaps so far

deliveryVars ==
  <<row, subscribed, work, tries, received, accepted, dropped, doubt, mishaps>>
history == <<tries, received, accepted, dropped, doubt>>

Row == [state: {"none", "queued", "gone"}, attempts: Nat, due: BOOLEAN]
Idle == [pc |-> "idle", attempts |-> 0]
WorkState ==
  [pc: {"idle", "called", "dropping", "posting", "accepted", "noting", "failed",
        "counting"},
   attempts: Nat]

DeliveryInit ==
  /\ load \in Loads
  /\ row = [state |-> "none", attempts |-> 0, due |-> FALSE]
  /\ subscribed = TRUE
  /\ work = [w \in Workers |-> Idle]
  /\ tries = 0 /\ received = 0
  /\ accepted = FALSE /\ dropped = FALSE /\ doubt = FALSE
  /\ mishaps = 0

At(w, pc) == work[w].pc = pc
MoveTo(w, pc) == work' = [work EXCEPT ![w].pc = pc]
Leave(w) == work' = [work EXCEPT ![w] = Idle]

OneMore(n, cap) == IF n < cap THEN n + 1 ELSE n

-----------------------------------------------------------------------------
(* retryPendingWebhookDeliveries *)

\* A sweep lists the row once its time has come.
StartSweep(s) ==
  /\ s \in load.sweeps /\ At(s, "idle")
  /\ row.state = "queued" /\ row.due
  /\ MoveTo(s, "called")
  /\ UNCHANGED <<row, subscribed, mishaps, history>>

-----------------------------------------------------------------------------
(* deliverWebhookDelivery *)

\* The row is read, then the key and the ticket.
ReadRow(w) ==
  /\ At(w, "called")
  /\ work' = [work EXCEPT ![w] =
       IF row.state = "gone" THEN Idle
       ELSE IF ~subscribed THEN [pc |-> "dropping", attempts |-> 0]
       ELSE [pc |-> "posting", attempts |-> row.attempts]]
  /\ doubt' = (doubt \/ \E v \in Workers \ {w} : ~At(v, "idle"))
  /\ UNCHANGED <<row, subscribed, mishaps, tries, received, accepted, dropped>>

Drop(w) ==
  /\ At(w, "dropping")
  /\ row' = [row EXCEPT !.state = "gone"]
  /\ dropped' = TRUE
  /\ Leave(w)
  /\ UNCHANGED <<subscribed, mishaps, tries, received, accepted, doubt>>

\* The POST, or what keeps it from being made.  The subscriber may have got a
\* callback whose answer is an error or comes too late.
Post(w) ==
  /\ At(w, "posting")
  /\ tries' = OneMore(tries, MaxAttempts)
  /\ \/ MoveTo(w, "accepted") /\ received' = OneMore(received, 2)
          /\ accepted' = TRUE /\ UNCHANGED doubt
     \/ MoveTo(w, "failed") /\ received' = OneMore(received, 2)
          /\ doubt' = TRUE /\ UNCHANGED accepted
     \/ MoveTo(w, "failed") /\ UNCHANGED <<received, accepted, doubt>>
  /\ UNCHANGED <<row, subscribed, mishaps, dropped>>

FaultyRemoveSent(w) ==  \* forgets to remove the row
  /\ At(w, "accepted")
  /\ MoveTo(w, "noting")
  /\ UNCHANGED <<row, subscribed, mishaps, history>>

RemoveSent(w) ==
  /\ At(w, "accepted")
  /\ row' = [row EXCEPT !.state = "gone"]
  /\ MoveTo(w, "noting")
  /\ UNCHANGED <<subscribed, mishaps, history>>

\* The key's health fields are written, before the end or before the attempt
\* is counted.
NoteKey(w) ==
  /\ \/ At(w, "noting") /\ Leave(w)
     \/ At(w, "failed") /\ MoveTo(w, "counting")
  /\ UNCHANGED <<row, subscribed, mishaps, history>>

FaultyCount(w) ==  \* gives up one attempt too early
  /\ At(w, "counting")
  /\ LET attempts == work[w].attempts + 1
     IN row' = IF attempts + 1 >= MaxAttempts THEN [row EXCEPT !.state = "gone"]
               ELSE IF row.state = "gone" THEN row
               ELSE [state |-> "queued", attempts |-> attempts, due |-> FALSE]
  /\ Leave(w)
  /\ UNCHANGED <<subscribed, mishaps, history>>

FaultyRetry(w) ==  \* does not write the number of attempts
  /\ At(w, "counting")
  /\ LET attempts == work[w].attempts + 1
     IN row' = IF attempts >= MaxAttempts THEN [row EXCEPT !.state = "gone"]
               ELSE [row EXCEPT !.due = FALSE]
  /\ Leave(w)
  /\ UNCHANGED <<subscribed, mishaps, history>>

\* The attempt is counted from the row as it was read.  An update of a row that
\* is gone does nothing.
Count(w) ==
  /\ At(w, "counting")
  /\ LET attempts == work[w].attempts + 1
     IN row' = IF attempts >= MaxAttempts THEN [row EXCEPT !.state = "gone"]
               ELSE IF row.state = "gone" THEN row
               ELSE [state |-> "queued", attempts |-> attempts, due |-> FALSE]
  /\ Leave(w)
  /\ UNCHANGED <<subscribed, mishaps, history>>

-----------------------------------------------------------------------------

\* A store call throws.  What is thrown after the POST and before its failure
\* is noted counts as a failure of the POST; anything else ends the delivery.
StoreThrows(w) ==
  /\ ~At(w, "idle") /\ ~At(w, "posting")
  /\ mishaps < load.mishaps /\ mishaps' = mishaps + 1
  /\ IF At(w, "accepted") \/ At(w, "noting") THEN MoveTo(w, "failed") ELSE Leave(w)
  /\ doubt' = TRUE
  /\ UNCHANGED <<row, subscribed, tries, received, accepted, dropped>>

\* The process of a sweep ends.
KillSweep(s) ==
  /\ ~At(s, "idle")
  /\ mishaps < load.mishaps /\ mishaps' = mishaps + 1
  /\ Leave(s)
  /\ doubt' = TRUE
  /\ UNCHANGED <<row, subscribed, tries, received, accepted, dropped>>

\* The time of the next attempt comes.
TimePasses ==
  /\ row.state = "queued" /\ ~row.due
  /\ row' = [row EXCEPT !.due = TRUE]
  /\ UNCHANGED <<subscribed, work, mishaps, history>>

\* The key is deactivated or removed, its callback switched off, or the ticket gone.
Unsubscribe ==
  /\ subscribed /\ subscribed' = FALSE
  /\ UNCHANGED <<row, work, mishaps, history>>

Deliver(w) ==
  \/ ReadRow(w)
  \/ Drop(w)
  \/ Post(w)
  \/ RemoveSent(w)
  \/ NoteKey(w)
  \/ Count(w)

DeliveryNext ==
  \/ \E w \in Workers : Deliver(w) \/ StoreThrows(w)
  \/ \E s \in Sweeps : StartSweep(s) \/ KillSweep(s)
  \/ TimePasses
  \/ Unsubscribe

-----------------------------------------------------------------------------
(* Properties *)

DeliveryTypeOK ==
  /\ load \in Loads
  /\ row \in Row
  /\ subscribed \in BOOLEAN
  /\ work \in [Workers -> WorkState]
  /\ tries \in 0..MaxAttempts /\ received \in 0..2
  /\ accepted \in BOOLEAN /\ dropped \in BOOLEAN /\ doubt \in BOOLEAN
  /\ mishaps \in 0..load.mishaps

\* A callback is never lost: when its row is gone the subscriber has accepted it,
\* or was there no longer, or all attempts were made, whatever workers overlap
\* and count the same attempt twice.
NotLost == row.state = "gone" => accepted \/ dropped \/ tries = MaxAttempts

\* The subscriber gets a callback twice only if an answer was lost, a store call
\* threw, a process ended, or two workers delivered at the same time.
ReceivedOnce == received > 1 => doubt
=============================================================================
