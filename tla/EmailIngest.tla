---------------------------- MODULE EmailIngest ----------------------------
(***************************************************************************)
(* Mails of requesters on their way into tickets: the mailbox (polled, or  *)
(* pushed by a provider that repeats what was not acknowledged), the       *)
(* ledger of message ids, the match with an existing ticket, and the ticket*)
(* or reply that comes of a mail.  Workers may overlap: a mail that is not *)
(* yet marked as read may be handed to another one.                        *)
(*                                                                         *)
(* Left out: the text of a mail and what is cut from it, the attachments   *)
(* other than that saving one may fail, mails without a message id (which  *)
(* nothing protects), and what becomes of the ticket (LegacyTicket).       *)
(*                                                                         *)
(* Definitions named Faulty... are slips somebody could make in the code.  *)
(* No specification uses them: each shows that a property would notice.    *)
(***************************************************************************)
EXTENDS Integers

CONSTANTS
  Mails,      \* internetMessageId of each mail
  Parent,     \* Parent[m]: the mail that m answers, None if it starts a thread
  None,
  Workers,    \* polls and pushes in progress at the same time
  MaxMishaps  \* bound: calls that throw and processes that end, together

ASSUME IngestAssumption ==
  /\ None \notin Mails
  /\ Parent \in [Mails -> Mails \cup {None}]
  /\ MaxMishaps \in Nat

\* A ticket is named by the mail that it was created from.
Tickets == Mails

VARIABLES
  inbox,    \* inbox[m]: absent, unread, or read: acknowledged to the provider
  ledger,   \* ledger[m]: the row of emails, none while there is none
  into,     \* into[m]: the ticket that got the mail, None while there is none
  copies,   \* history: times the mail was put into a ticket, up to two
  deleted,  \* tickets that were deleted
  work,     \* work[w]: where worker w is
  cut,      \* history: mails whose processing was cut short once
  mishaps   \* mishaps so far

vars == <<inbox, ledger, into, copies, deleted, work, cut, mishaps>>

Ledger == [status: {"none", "failed", "skipped", "processed"},
           ticket: Tickets \cup {None}]
Idle == [pc |-> "idle", mail |-> None, match |-> None]
WorkState ==
  {Idle} \cup [pc: {"checking", "logging", "guarding", "skipped", "matching",
                    "filing", "finishing", "failing", "marking"},
               mail: Mails, match: Tickets \cup {None}]

Init ==
  /\ inbox = [m \in Mails |-> "absent"]
  /\ ledger = [m \in Mails |-> [status |-> "none", ticket |-> None]]
  /\ into = [m \in Mails |-> None]
  /\ copies = [m \in Mails |-> 0]
  /\ deleted = {} /\ cut = {}
  /\ work = [w \in Workers |-> Idle]
  /\ mishaps = 0

At(w, pc) == work[w].pc = pc
MoveTo(w, pc) == work' = [work EXCEPT ![w].pc = pc]
Mail(w) == work[w].mail

Exists(t) == t # None /\ into[t] = t /\ t \notin deleted

-----------------------------------------------------------------------------
(* The mailbox *)

\* A requester answers a mail that has been read, or starts a thread.
Arrive(m) ==
  /\ inbox[m] = "absent"
  /\ Parent[m] # None => inbox[Parent[m]] # "absent"
  /\ inbox' = [inbox EXCEPT ![m] = "unread"]
  /\ UNCHANGED <<ledger, into, copies, deleted, work, cut, mishaps>>

\* pollMailbox finds the mail unread, or the provider pushes it.
Fetch(w, m) ==
  /\ work[w] = Idle
  /\ inbox[m] = "unread"
  /\ work' = [work EXCEPT ![w] = [pc |-> "checking", mail |-> m, match |-> None]]
  /\ UNCHANGED <<inbox, ledger, into, copies, deleted, cut, mishaps>>

\* The mail is marked as read, or the push is answered, whatever came of it.
MarkRead(w) ==
  /\ At(w, "marking")
  /\ inbox' = [inbox EXCEPT ![Mail(w)] = "read"]
  /\ work' = [work EXCEPT ![w] = Idle]
  /\ UNCHANGED <<ledger, into, copies, deleted, cut, mishaps>>

-----------------------------------------------------------------------------
(* processInboundEmail *)

FaultyCheck(w) ==  \* returns on a duplicate without marking it as read
  /\ At(w, "checking")
  /\ work' = [work EXCEPT ![w] =
       IF ledger[Mail(w)].status # "none" THEN Idle ELSE [@ EXCEPT !.pc = "logging"]]
  /\ UNCHANGED <<inbox, ledger, into, copies, deleted, cut, mishaps>>

Check(w) ==
  /\ At(w, "checking")
  /\ MoveTo(w, IF ledger[Mail(w)].status # "none" THEN "marking" ELSE "logging")
  /\ UNCHANGED <<inbox, ledger, into, copies, deleted, cut, mishaps>>

FaultyLog(w) ==  \* the message id is not unique in the ledger
  /\ At(w, "logging")
  /\ ledger' = [ledger EXCEPT ![Mail(w)].status = "failed"]
  /\ MoveTo(w, "guarding")
  /\ UNCHANGED <<inbox, into, copies, deleted, cut, mishaps>>

\* The row is created before the mail is processed.  Its message id is unique: a
\* second worker's creation throws, which ends it and leaves the mail unread.
Log(w) ==
  /\ At(w, "logging")
  /\ IF ledger[Mail(w)].status = "none"
     THEN /\ ledger' = [ledger EXCEPT ![Mail(w)].status = "failed"]
          /\ MoveTo(w, "guarding")
     ELSE /\ work' = [work EXCEPT ![w] = Idle]
          /\ UNCHANGED ledger
  /\ UNCHANGED <<inbox, into, copies, deleted, cut, mishaps>>

FaultyGuard(w) ==  \* does not record that the mail was skipped
  /\ At(w, "guarding")
  /\ MoveTo(w, "matching") \/ MoveTo(w, "skipped")
  /\ UNCHANGED <<inbox, ledger, into, copies, deleted, cut, mishaps>>

\* The loop guard and the spam guard, which depend on the sender.
Guard(w) ==
  /\ At(w, "guarding")
  /\ \/ MoveTo(w, "matching") /\ UNCHANGED ledger
     \/ /\ MoveTo(w, "skipped")
        /\ ledger' = [ledger EXCEPT ![Mail(w)].status = "skipped"]
  /\ UNCHANGED <<inbox, into, copies, deleted, cut, mishaps>>

\* The suppression is audited.
Skip(w) ==
  /\ At(w, "skipped")
  /\ MoveTo(w, "marking")
  /\ UNCHANGED <<inbox, ledger, into, copies, deleted, cut, mishaps>>

\* The ticket a mail belongs to: by the reference in its subject, or by the ledger
\* row of the mail it answers.
Matches(m) ==
  LET p == Parent[m]
      byReference == IF p # None /\ Exists(into[p]) THEN {into[p]} ELSE {}
      byLedger == IF p # None /\ Exists(ledger[p].ticket) THEN ledger[p].ticket
                                                          ELSE None
  IN byReference \cup {byLedger}

Match(w) ==
  /\ At(w, "matching")
  /\ \E t \in Matches(Mail(w)) :
       work' = [work EXCEPT ![w] = [pc |-> "filing", mail |-> Mail(w), match |-> t]]
  /\ UNCHANGED <<inbox, ledger, into, copies, deleted, cut, mishaps>>

\* requesterReply to the match, which does nothing when the ticket is gone, or
\* intakeTicket without a match.
File(w) ==
  /\ At(w, "filing")
  /\ LET m == Mail(w)
         t == work[w].match
     IN IF t = None \/ Exists(t)
        THEN /\ into' = [into EXCEPT ![m] = IF t = None THEN m ELSE t]
             /\ copies' = [copies EXCEPT ![m] = IF @ < 2 THEN @ + 1 ELSE 2]
        ELSE UNCHANGED <<into, copies>>
  /\ MoveTo(w, "finishing")
  /\ UNCHANGED <<inbox, ledger, deleted, cut, mishaps>>

\* The attachments are saved, the outcome is recorded.
Finish(w) ==
  /\ At(w, "finishing")
  /\ ledger' = [ledger EXCEPT ![Mail(w)] =
       [status |-> "processed",
        ticket |-> IF work[w].match = None THEN Mail(w) ELSE work[w].match]]
  /\ MoveTo(w, "marking")
  /\ UNCHANGED <<inbox, into, copies, deleted, cut, mishaps>>

FinishFailed(w) ==
  /\ At(w, "failing")
  /\ ledger' = [ledger EXCEPT ![Mail(w)].status = "failed"]
  /\ MoveTo(w, "marking")
  /\ UNCHANGED <<inbox, into, copies, deleted, cut, mishaps>>

-----------------------------------------------------------------------------

Mishap(w) ==
  /\ work[w] # Idle
  /\ mishaps < MaxMishaps /\ mishaps' = mishaps + 1
  /\ cut' = cut \cup {Mail(w)}
  /\ UNCHANGED <<inbox, ledger, into, copies, deleted>>

\* A call throws: inside the try the failure is recorded, elsewhere it ends the
\* worker.  A mark that fails is ignored.
Throw(w) ==
  /\ Mishap(w)
  /\ IF work[w].pc \in {"guarding", "skipped", "matching", "filing", "finishing"}
     THEN MoveTo(w, "failing")
     ELSE work' = [work EXCEPT ![w] = Idle]

\* The process ends.
Kill(w) == Mishap(w) /\ work' = [work EXCEPT ![w] = Idle]

DeleteTicket(t) ==
  /\ Exists(t)
  /\ deleted' = deleted \cup {t}
  /\ UNCHANGED <<inbox, ledger, into, copies, work, cut, mishaps>>

Process(w) ==
  \/ Check(w)
  \/ Log(w)
  \/ Guard(w)
  \/ Skip(w)
  \/ Match(w)
  \/ File(w)
  \/ Finish(w)
  \/ FinishFailed(w)
  \/ MarkRead(w)

Next ==
  \/ \E w \in Workers :
       \/ \E m \in Mails : Fetch(w, m)
       \/ Process(w)
       \/ Throw(w)
       \/ Kill(w)
  \/ \E m \in Mails : Arrive(m) \/ DeleteTicket(m)

Spec == Init /\ [][Next]_vars

\* The mailbox is polled again and again, and a worker that is not cut short goes on.
Fairness ==
  /\ \A w \in Workers : WF_vars(Process(w))
  /\ \A m \in Mails : SF_vars(\E w \in Workers : Fetch(w, m))
FairSpec == Spec /\ Fairness

-----------------------------------------------------------------------------
(* Properties *)

\* The rows and the workers have the types they are declared with.
TypeOK ==
  /\ inbox \in [Mails -> {"absent", "unread", "read"}]
  /\ ledger \in [Mails -> Ledger]
  /\ into \in [Mails -> Tickets \cup {None}]
  /\ copies \in [Mails -> 0..2]
  /\ deleted \subseteq Tickets /\ cut \subseteq Mails
  /\ work \in [Workers -> WorkState]
  /\ mishaps \in 0..MaxMishaps

\* A crash cannot double-ingest, nor can overlapping workers: no mail opens two
\* tickets, or is a reply twice.
IngestedOnce == \A m \in Mails : copies[m] <= 1

\* A mail recorded as processed is in the ticket its ledger row names, so that the
\* answers to it find the thread; unless that ticket was deleted in the meantime.
LedgerTells ==
  \A m \in Mails : ledger[m].status = "processed" =>
    ledger[m].ticket \in deleted \cup {into[m]}

\* A mail that was acknowledged is not lost: it is in a ticket, was skipped on
\* purpose, is still being processed, or its processing was cut short.
NoMailLost ==
  \A m \in Mails : inbox[m] = "read" =>
    \/ copies[m] > 0
    \/ ledger[m].status = "skipped"
    \/ ledger[m].ticket \in deleted
    \/ m \in cut
    \/ \E w \in Workers : Mail(w) = m

\* Every mail is acknowledged in the end, whatever became of it.
EveryMailRead == \A m \in Mails : inbox[m] = "unread" ~> inbox[m] = "read"
=============================================================================
