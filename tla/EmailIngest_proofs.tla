------------------------- MODULE EmailIngest_proofs -------------------------
(***************************************************************************)
(* No mail is ingested twice, for every set of mails and threads, any      *)
(* number of workers and of mishaps.                                       *)
(*                                                                         *)
(* The argument is the ledger's: its row is created once (Claimed), the    *)
(* worker that created it is the only one beyond that point (Alone), and   *)
(* it puts the mail into a ticket at most once (Fresh).                    *)
(***************************************************************************)
EXTENDS EmailIngest, TLAPS

Begun == {"guarding", "skipped", "matching", "filing", "finishing", "failing"}
Unfiled == {"guarding", "matching", "filing"}

\* Past the creation of the ledger row the row is there, and it stays.
Claimed ==
  \A w \in Workers : work[w].pc \in Begun => ledger[Mail(w)].status # "none"

\* The ledger has a row for every mail that was put into a ticket.
Recorded == \A m \in Mails : copies[m] > 0 => ledger[m].status # "none"

\* Only the worker that created the row processes the mail.
Alone ==
  \A v, w \in Workers :
    work[v].pc \in Begun /\ work[w].pc \in Begun /\ Mail(v) = Mail(w) => v = w

\* Until it has filed the mail, nobody has.
Fresh == \A w \in Workers : work[w].pc \in Unfiled => copies[Mail(w)] = 0

IngestInv == TypeOK /\ Claimed /\ Recorded /\ Alone /\ Fresh /\ IngestedOnce

-----------------------------------------------------------------------------

LEMMA WorkType ==
  ASSUME TypeOK, NEW w \in Workers
  PROVE  /\ work[w] \in WorkState
         /\ work[w] # Idle => Mail(w) \in Mails /\ work[w].match \in Tickets \cup {None}
         /\ work[w].pc # "idle" => work[w] # Idle
BY DEF TypeOK, WorkState, Idle, Mail

LEMMA BusyMail ==
  ASSUME TypeOK, NEW w \in Workers, work[w].pc # "idle"
  PROVE  Mail(w) \in Mails /\ work[w].match \in Tickets \cup {None}
BY WorkType

\* Every step keeps the types.
LEMMA TypeStep ==
  ASSUME TypeOK, [Next]_vars
  PROVE  TypeOK'
<1> USE IngestAssumption
<1>1. CASE UNCHANGED vars
  BY <1>1 DEF vars, TypeOK
<1>2. ASSUME NEW w \in Workers, NEW m \in Mails, Fetch(w, m) PROVE TypeOK'
  BY <1>2 DEF Fetch, TypeOK, WorkState
<1>3. ASSUME NEW w \in Workers, Process(w) PROVE TypeOK'
  <2> work[w].pc # "idle" /\ work[w] \in WorkState
    BY <1>3, WorkType DEF Process, Check, Log, Guard, Skip, Match, File, Finish,
       FinishFailed, MarkRead, At
  <2> Mail(w) \in Mails /\ work[w].match \in Tickets \cup {None}
    BY BusyMail
  <2>m. ASSUME NEW pc \in {"checking", "logging", "guarding", "skipped", "matching",
                           "filing", "finishing", "failing", "marking"},
               MoveTo(w, pc)
        PROVE  work' \in [Workers -> WorkState]
    BY <2>m DEF MoveTo, TypeOK, WorkState, Idle
  <2>i. ASSUME work' = [work EXCEPT ![w] = Idle]
        PROVE  work' \in [Workers -> WorkState]
    BY <2>i DEF TypeOK, WorkState
  <2>l. ASSUME NEW s \in {"none", "failed", "skipped", "processed"},
               ledger' = [ledger EXCEPT ![Mail(w)].status = s]
        PROVE  ledger' \in [Mails -> Ledger]
    BY <2>l DEF TypeOK, Ledger
  <2>1. CASE Check(w)
    BY <2>1, <2>m DEF Check, TypeOK
  <2>2. CASE Log(w)
    <3>1. CASE ledger[Mail(w)].status = "none"
      BY <2>2, <3>1, <2>m, <2>l DEF Log, TypeOK
    <3>2. CASE ledger[Mail(w)].status # "none"
      BY <2>2, <3>2, <2>i DEF Log, TypeOK
    <3>3. QED BY <3>1, <3>2
  <2>3. CASE Guard(w)
    <3>1. CASE MoveTo(w, "matching") /\ UNCHANGED ledger
      BY <2>3, <3>1, <2>m DEF Guard, TypeOK
    <3>2. CASE /\ MoveTo(w, "skipped")
               /\ ledger' = [ledger EXCEPT ![Mail(w)].status = "skipped"]
      BY <2>3, <3>2, <2>m, <2>l DEF Guard, TypeOK
    <3>3. QED BY <2>3, <3>1, <3>2 DEF Guard
  <2>4. CASE Skip(w)
    BY <2>4, <2>m DEF Skip, TypeOK
  <2>5. CASE Match(w)
    <3>1. PICK t \in Matches(Mail(w)) :
            work' = [work EXCEPT ![w] =
                       [pc |-> "filing", mail |-> Mail(w), match |-> t]]
      BY <2>5 DEF Match
    <3>2. t \in Tickets \cup {None}
      BY DEF Matches, Exists, TypeOK, Ledger, Tickets
    <3>3. [pc |-> "filing", mail |-> Mail(w), match |-> t] \in WorkState
      BY <3>2 DEF WorkState
    <3>4. work' \in [Workers -> WorkState]
      BY <3>1, <3>3 DEF TypeOK
    <3>5. QED BY <2>5, <3>4 DEF Match, TypeOK
  <2>6. CASE File(w)
    <3>1. work' \in [Workers -> WorkState]
      BY <2>6, <2>m DEF File
    <3>2. /\ into' \in [Mails -> Tickets \cup {None}]
          /\ copies' \in [Mails -> 0..2]
      BY <2>6 DEF File, TypeOK, Tickets
    <3>3. QED BY <2>6, <3>1, <3>2 DEF File, TypeOK
  <2>7. CASE Finish(w)
    <3>1. ledger' \in [Mails -> Ledger]
      BY <2>7 DEF Finish, TypeOK, Ledger, Tickets
    <3>2. QED BY <2>7, <3>1, <2>m DEF Finish, TypeOK
  <2>8. CASE FinishFailed(w)
    BY <2>8, <2>m, <2>l DEF FinishFailed, TypeOK
  <2>9. CASE MarkRead(w)
    BY <2>9, <2>i DEF MarkRead, TypeOK
  <2>10. QED
    BY <1>3, <2>1, <2>2, <2>3, <2>4, <2>5, <2>6, <2>7, <2>8, <2>9 DEF Process
<1>4. ASSUME NEW w \in Workers, Throw(w) \/ Kill(w) PROVE TypeOK'
  <2>1. Mail(w) \in Mails /\ work[w] \in WorkState
    BY <1>4, WorkType DEF Throw, Kill, Mishap
  <2>2. work' \in [Workers -> WorkState]
    BY <1>4, <2>1 DEF Throw, Kill, Mishap, MoveTo, TypeOK, WorkState, Idle
  <2>3. mishaps' \in 0..MaxMishaps /\ cut' \subseteq Mails
    BY <1>4, <2>1 DEF Throw, Kill, Mishap, TypeOK
  <2>4. QED BY <1>4, <2>2, <2>3 DEF Throw, Kill, Mishap, TypeOK
<1>5. ASSUME NEW m \in Mails, Arrive(m) \/ DeleteTicket(m) PROVE TypeOK'
  BY <1>5 DEF Arrive, DeleteTicket, TypeOK, Tickets
<1>6. QED
  BY <1>1, <1>2, <1>3, <1>4, <1>5 DEF Next
-----------------------------------------------------------------------------

\* What a worker's step does to the ledger: rows are never taken back.
LEMMA LedgerGrows ==
  ASSUME TypeOK, [Next]_vars, NEW m \in Mails, ledger[m].status # "none"
  PROVE  ledger'[m].status # "none"
<1>1. CASE UNCHANGED vars
  BY <1>1 DEF vars
<1>2. ASSUME NEW w \in Workers, Process(w) PROVE ledger'[m].status # "none"
  <2>1. CASE Log(w) \/ Guard(w) \/ FinishFailed(w)
    BY <2>1 DEF Log, Guard, FinishFailed, TypeOK, Ledger
  <2>2. CASE Finish(w)
    <3>1. PICK t : ledger' = [ledger EXCEPT ![Mail(w)] =
                                [status |-> "processed", ticket |-> t]]
      BY <2>2 DEF Finish
    <3>2. QED
      BY <3>1 DEF TypeOK
  <2>3. CASE UNCHANGED ledger
    BY <2>3
  <2>4. QED
    BY <1>2, <2>1, <2>2, <2>3 DEF Process, Check, Skip, Match, File, MarkRead
<1>3. CASE UNCHANGED ledger
  BY <1>3
<1>4. QED
  BY <1>1, <1>2, <1>3 DEF Next, Fetch, Throw, Kill, Mishap, Arrive, DeleteTicket

\* A step in which no worker begins a mail, files one or takes a row back keeps the
\* invariant: each worker stays where it was, or goes on with the mail it has.
LEMMA QuietStep ==
  ASSUME IngestInv, [Next]_vars, UNCHANGED copies,
         \A w \in Workers : work'[w].pc \in Begun =>
           work[w].pc \in Begun /\ work'[w].mail = work[w].mail,
         \A w \in Workers : work'[w].pc \in Unfiled => work[w].pc \in Unfiled
  PROVE  IngestInv'
<1>1. TypeOK'
  BY TypeStep DEF IngestInv
<1>2. \A w \in Workers : work[w].pc \in Begun => Mail(w) \in Mails
  BY BusyMail DEF IngestInv, Begun
<1>3. Claimed'
  BY <1>2, LedgerGrows DEF IngestInv, Claimed, Mail
<1>4. Recorded'
  BY LedgerGrows DEF IngestInv, Recorded
<1>5. Alone'
  BY DEF IngestInv, Alone, Mail
<1>6. Fresh'
  BY DEF IngestInv, Fresh, Mail, Unfiled, Begun
<1>7. QED
  BY <1>1, <1>3, <1>4, <1>5, <1>6 DEF IngestInv, IngestedOnce

\* The row is created only where there is none, so nobody has begun the mail.
LEMMA LogStep ==
  ASSUME IngestInv, NEW w \in Workers, Log(w)
  PROVE  IngestInv'
<1>0. work[w].pc = "logging" /\ Mail(w) \in Mails /\ [Next]_vars
  BY BusyMail DEF IngestInv, Log, At, Next, Process
<1>1. CASE ledger[Mail(w)].status # "none"
  <2>1. work' = [work EXCEPT ![w] = Idle] /\ UNCHANGED copies
    BY <1>1 DEF Log
  <2>2. QED
    BY <1>0, <2>1, QuietStep DEF IngestInv, TypeOK, Idle, Begun, Unfiled
<1>2. CASE ledger[Mail(w)].status = "none"
  <2>1. /\ work' = [work EXCEPT ![w].pc = "guarding"]
        /\ ledger' = [ledger EXCEPT ![Mail(w)].status = "failed"]
        /\ UNCHANGED copies
    BY <1>2 DEF Log, MoveTo
  <2>2. TypeOK'
    BY <1>0, TypeStep DEF IngestInv
  <2>3. /\ work'[w].pc = "guarding" /\ work'[w].mail = work[w].mail
        /\ \A v \in Workers \ {w} : work'[v] = work[v]
    BY <1>0, <2>1, WorkType DEF IngestInv, TypeOK, WorkState, Idle
  <2>4. ledger'[Mail(w)].status = "failed"
    BY <1>0, <2>1 DEF IngestInv, TypeOK, Ledger
  <2>5. \A v \in Workers : work[v].pc \in Begun =>
          Mail(v) \in Mails /\ ledger'[Mail(v)].status # "none"
    BY <1>0, LedgerGrows, BusyMail DEF IngestInv, Claimed, Begun
  <2>6. Claimed'
    BY <2>3, <2>4, <2>5 DEF Claimed, Mail
  <2>7. Recorded'
    BY <1>0, <2>1, LedgerGrows DEF IngestInv, Recorded
  <2>8. \A v \in Workers \ {w} : work[v].pc \in Begun => Mail(v) # Mail(w)
    BY <1>2 DEF IngestInv, Claimed
  <2>9. Alone'
    BY <2>3, <2>8 DEF IngestInv, Alone, Mail
  <2>10. copies[Mail(w)] = 0
    BY <1>0, <1>2 DEF IngestInv, Recorded, TypeOK
  <2>11. Fresh'
    BY <2>1, <2>3, <2>10 DEF IngestInv, Fresh, Mail
  <2>12. QED
    BY <2>1, <2>2, <2>6, <2>7, <2>9, <2>11 DEF IngestInv, IngestedOnce
<1>3. QED
  BY <1>1, <1>2

\* The mail is filed by the only worker that has begun it, and for the first time.
LEMMA FileStep ==
  ASSUME IngestInv, NEW w \in Workers, File(w)
  PROVE  IngestInv'
<1>0. work[w].pc = "filing" /\ Mail(w) \in Mails /\ [Next]_vars
  BY BusyMail DEF IngestInv, File, At, Next, Process
<1>1. TypeOK'
  BY <1>0, TypeStep DEF IngestInv
<1>2. copies[Mail(w)] = 0 /\ ledger[Mail(w)].status # "none"
  BY <1>0 DEF IngestInv, Fresh, Claimed, Unfiled, Begun
<1>3. /\ work'[w].pc = "finishing" /\ work'[w].mail = work[w].mail
      /\ \A v \in Workers \ {w} : work'[v] = work[v]
  BY <1>0, WorkType DEF File, MoveTo, IngestInv, TypeOK, WorkState, Idle
<1>4. /\ copies'[Mail(w)] <= 1
      /\ \A m \in Mails \ {Mail(w)} : copies'[m] = copies[m]
      /\ UNCHANGED ledger
  BY <1>0, <1>2 DEF File, IngestInv, TypeOK
<1>5. \A v \in Workers \ {w} : work[v].pc \in Begun => Mail(v) # Mail(w)
  BY <1>0 DEF IngestInv, Alone, Begun
<1>6. Claimed'
  BY <1>0, <1>3, <1>4, <1>2 DEF IngestInv, Claimed, Mail
<1>7. Recorded'
  BY <1>2, <1>4 DEF IngestInv, Recorded
<1>8. Alone'
  BY <1>0, <1>3 DEF IngestInv, Alone, Mail, Begun
<1>9. \A v \in Workers : work[v].pc \in Begun => Mail(v) \in Mails
  BY BusyMail DEF IngestInv, Begun
<1>10. Fresh'
  BY <1>3, <1>4, <1>5, <1>9 DEF IngestInv, Fresh, Mail, Unfiled, Begun
<1>11. IngestedOnce'
  BY <1>4 DEF IngestInv, IngestedOnce
<1>12. QED
  BY <1>1, <1>6, <1>7, <1>8, <1>10, <1>11 DEF IngestInv

LEMMA IngestStep ==
  ASSUME IngestInv, [Next]_vars
  PROVE  IngestInv'
<1>1. CASE UNCHANGED vars
  BY <1>1, QuietStep DEF vars
<1>2. ASSUME NEW w \in Workers, Process(w) PROVE IngestInv'
  <2>1. CASE Log(w)
    BY <2>1, LogStep
  <2>2. CASE File(w)
    BY <2>2, FileStep
  <2>3. CASE ~Log(w) /\ ~File(w)
    <3>1. \/ Check(w) \/ Guard(w) \/ Skip(w) \/ Match(w) \/ Finish(w)
          \/ FinishFailed(w) \/ MarkRead(w)
      BY <1>2, <2>3 DEF Process
    <3>2. UNCHANGED copies
      BY <3>1 DEF Check, Guard, Skip, Match, Finish, FinishFailed, MarkRead
    <3>3. work[w] \in WorkState \ {Idle}
      BY <3>1, WorkType DEF Check, Guard, Skip, Match, Finish, FinishFailed, MarkRead,
         At, IngestInv
    <3>4. /\ work'[w].pc \in Begun =>
               work[w].pc \in Begun /\ work'[w].mail = work[w].mail
          /\ work'[w].pc \in Unfiled => work[w].pc \in Unfiled
          /\ \A v \in Workers \ {w} : work'[v] = work[v]
      <4>1. CASE Match(w)
        <5>1. PICK t : work' = [work EXCEPT ![w] =
                                  [pc |-> "filing", mail |-> Mail(w), match |-> t]]
          BY <4>1 DEF Match
        <5>2. QED
          BY <4>1, <5>1 DEF Match, At, Mail, Begun, Unfiled, IngestInv, TypeOK
      <4>2. CASE ~Match(w)
        BY <3>1, <3>3, <4>2 DEF Check, Guard, Skip, Finish, FinishFailed, MarkRead, At,
           MoveTo, Begun, Unfiled, IngestInv, TypeOK, WorkState, Idle
      <4>3. QED
        BY <4>1, <4>2
    <3>5. QED
      BY <3>2, <3>4, QuietStep
  <2>4. QED
    BY <2>1, <2>2, <2>3
<1>3. ASSUME NEW w \in Workers, NEW m \in Mails, Fetch(w, m) PROVE IngestInv'
  BY <1>3, QuietStep DEF Fetch, IngestInv, TypeOK, Begun, Unfiled
<1>4. ASSUME NEW w \in Workers, Throw(w) \/ Kill(w) PROVE IngestInv'
  <2>1. work[w] \in WorkState \ {Idle} /\ UNCHANGED copies
    BY <1>4, WorkType DEF Throw, Kill, Mishap, IngestInv
  <2>2. \/ work' = [work EXCEPT ![w] = Idle]
        \/ /\ work[w].pc \in {"guarding", "skipped", "matching", "filing", "finishing"}
           /\ work' = [work EXCEPT ![w].pc = "failing"]
    BY <1>4 DEF Throw, Kill, Mishap, MoveTo
  <2>3. /\ work'[w].pc \in Begun =>
             work[w].pc \in Begun /\ work'[w].mail = work[w].mail
        /\ work'[w].pc \in Unfiled => work[w].pc \in Unfiled
        /\ \A v \in Workers \ {w} : work'[v] = work[v]
    BY <2>1, <2>2 DEF Begun, Unfiled, IngestInv, TypeOK, WorkState, Idle
  <2>4. QED
    BY <2>1, <2>3, QuietStep
<1>5. ASSUME NEW m \in Mails, Arrive(m) \/ DeleteTicket(m) PROVE IngestInv'
  BY <1>5, QuietStep DEF Arrive, DeleteTicket
<1>6. QED
  BY <1>1, <1>2, <1>3, <1>4, <1>5 DEF Next

LEMMA IngestInit == Init => IngestInv
BY IngestAssumption DEF Init, IngestInv, TypeOK, Claimed, Recorded, Alone, Fresh,
   IngestedOnce, Begun, Unfiled, Idle, WorkState, Ledger, Tickets

\* Mailbox, ledger and workers stay well formed, for every set of mails and workers.
THEOREM IngestTypes == Spec => []TypeOK
<1>1. IngestInv => TypeOK
  BY DEF IngestInv
<1>2. QED
  BY <1>1, IngestInit, IngestStep, PTL DEF Spec

\* processInboundEmail puts no mail into a ticket twice, whatever workers overlap,
\* whichever calls throw and whenever processes end.
THEOREM NeverTwice == Spec => []IngestedOnce
<1>1. IngestInv => IngestedOnce
  BY DEF IngestInv
<1>2. QED
  BY <1>1, IngestInit, IngestStep, PTL DEF Spec

-----------------------------------------------------------------------------
(* What a mail comes to *)

Working == Unfiled \cup {"finishing"}

\* A worker that has begun a mail leaves its row failed until the outcome is known.
Unsettled ==
  \A w \in Workers : work[w].pc \in Working =>
    ledger[Mail(w)].status = "failed"

\* A ticket a mail was matched with has been opened.
Matched ==
  \A w \in Workers :
    work[w].pc \in {"filing", "finishing"} /\ work[w].match # None =>
      into[work[w].match] = work[w].match

\* A filed mail is where its worker says, unless the ticket was deleted.
Filed ==
  \A w \in Workers : work[w].pc = "finishing" =>
    IF work[w].match = None THEN into[Mail(w)] = Mail(w)
                            ELSE work[w].match \in deleted \cup {into[Mail(w)]}

\* A mail is somewhere exactly when it was filed.
Somewhere == \A m \in Mails : copies[m] = 0 <=> into[m] = None

\* A mail with a row came to something, or a worker is at it.
Kept ==
  \A m \in Mails : ledger[m].status # "none" =>
    \/ copies[m] > 0 \/ ledger[m].status = "skipped"
    \/ ledger[m].ticket \in deleted \/ m \in cut
    \/ \E w \in Workers : work[w].pc \in Working /\ Mail(w) = m

\* What is acknowledged, or about to be, has a row; what failed was cut short.
Known ==
  /\ \A m \in Mails : inbox[m] = "read" => ledger[m].status # "none"
  /\ \A w \in Workers : work[w].pc = "marking" => ledger[Mail(w)].status # "none"
  /\ \A w \in Workers : work[w].pc = "failing" => Mail(w) \in cut

CareInv ==
  /\ Unsettled /\ Matched /\ Filed /\ Somewhere /\ Kept /\ Known /\ LedgerTells

\* A step that changes neither rows nor tickets, other than by deleting one, keeps
\* the invariant if the worker w that takes it stays at its mail or gave it up.
LEMMA CareQuiet ==
  ASSUME IngestInv, CareInv, [Next]_vars, NEW w \in Workers,
         UNCHANGED <<ledger, into, copies>>,
         deleted \subseteq deleted', cut \subseteq cut',
         \A v \in Workers \ {w} : work'[v] = work[v],
         work'[w].pc \in Working =>
           work[w].pc \in Working /\ work'[w].mail = work[w].mail,
         work'[w].pc \in {"filing", "finishing"} => work'[w] = work[w],
         work[w].pc \in Working =>
           \/ work'[w].pc \in Working /\ work'[w].mail = work[w].mail
           \/ Mail(w) \in cut',
         work'[w].pc = "marking" => ledger[work'[w].mail].status # "none",
         work'[w].pc = "failing" => work'[w].mail \in cut',
         \A m \in Mails : inbox'[m] = "read" => ledger[m].status # "none"
  PROVE  CareInv'
<1>1. Unsettled'
  BY DEF CareInv, Unsettled, Mail
<1>2. Matched'
  BY DEF CareInv, Matched
<1>3. Filed'
  BY DEF CareInv, Filed, Mail
<1>4. Somewhere'
  BY DEF CareInv, Somewhere
<1>5. Kept'
  <2> SUFFICES ASSUME NEW m \in Mails, ledger[m].status # "none"
               PROVE  \/ copies[m] > 0 \/ ledger[m].status = "skipped"
                      \/ ledger[m].ticket \in deleted' \/ m \in cut'
                      \/ \E v \in Workers :
                           work'[v].pc \in Working /\ work'[v].mail = m
    BY DEF Kept, Mail
  <2>1. \/ copies[m] > 0 \/ ledger[m].status = "skipped"
        \/ ledger[m].ticket \in deleted \/ m \in cut
        \/ \E v \in Workers : work[v].pc \in Working /\ Mail(v) = m
    BY DEF CareInv, Kept
  <2>2. ASSUME NEW v \in Workers, work[v].pc \in Working, Mail(v) = m
        PROVE  m \in cut' \/ (work'[v].pc \in Working /\ work'[v].mail = m)
    <3>1. CASE v = w
      BY <2>2, <3>1 DEF Mail
    <3>2. CASE v # w
      BY <2>2, <3>2 DEF Mail
    <3>3. QED
      BY <3>1, <3>2
  <2>3. QED
    BY <2>1, <2>2
<1>6. Known'
  BY DEF CareInv, Known, Mail
<1>7. LedgerTells'
  BY DEF CareInv, LedgerTells
<1>8. QED
  BY <1>1, <1>2, <1>3, <1>4, <1>5, <1>6, <1>7 DEF CareInv

\* A step that writes the row of the mail its worker w is at, and no ticket.
LEMMA CareRow ==
  ASSUME IngestInv, CareInv, [Next]_vars, NEW w \in Workers, Mail(w) \in Mails,
         UNCHANGED <<inbox, into, copies, deleted, cut>>,
         \A v \in Workers \ {w} :
           /\ work'[v] = work[v]
           /\ work[v].pc \in Working => Mail(v) # Mail(w),
         \A m \in Mails \ {Mail(w)} : ledger'[m] = ledger[m],
         work'[w].mail = work[w].mail,
         work'[w].pc \in {"guarding", "skipped", "marking"},
         work'[w].pc = "guarding" => ledger'[Mail(w)].status = "failed",
         ledger'[Mail(w)].status # "none",
         \/ copies[Mail(w)] > 0 \/ ledger'[Mail(w)].status = "skipped"
         \/ ledger'[Mail(w)].ticket \in deleted \/ Mail(w) \in cut
         \/ work'[w].pc = "guarding",
         ledger'[Mail(w)].status = "processed" =>
           ledger'[Mail(w)].ticket \in deleted \cup {into[Mail(w)]}
  PROVE  CareInv'
<1>0. \A v \in Workers : work[v].pc # "idle" => Mail(v) \in Mails
  BY BusyMail DEF IngestInv
<1>1. Unsettled'
  BY <1>0 DEF CareInv, Unsettled, Mail, Working, Unfiled
<1>2. Matched'
  BY DEF CareInv, Matched
<1>3. Filed'
  BY DEF CareInv, Filed, Mail
<1>4. Somewhere'
  BY DEF CareInv, Somewhere
<1>5. Kept'
  <2> SUFFICES ASSUME NEW m \in Mails, ledger'[m].status # "none"
               PROVE  \/ copies[m] > 0 \/ ledger'[m].status = "skipped"
                      \/ ledger'[m].ticket \in deleted \/ m \in cut
                      \/ \E v \in Workers :
                           work'[v].pc \in Working /\ work'[v].mail = m
    BY DEF Kept, Mail
  <2>1. CASE m = Mail(w)
    BY <2>1 DEF Working, Unfiled, Mail
  <2>2. CASE m # Mail(w)
    BY <2>2 DEF CareInv, Kept, Mail
  <2>3. QED
    BY <2>1, <2>2
<1>6. Known'
  <2>1. \A m \in Mails : ledger[m].status # "none" => ledger'[m].status # "none"
    BY LedgerGrows DEF IngestInv
  <2>2. QED
    BY <1>0, <2>1 DEF CareInv, Known, Mail
<1>7. LedgerTells'
  BY DEF CareInv, LedgerTells
<1>8. QED
  BY <1>1, <1>2, <1>3, <1>4, <1>5, <1>6, <1>7 DEF CareInv

\* The mail goes into a ticket, or the ticket it answers is gone.
LEMMA CareFile ==
  ASSUME IngestInv, CareInv, NEW w \in Workers, File(w)
  PROVE  CareInv'
<1>1. /\ work[w].pc = "filing" /\ Mail(w) \in Mails
      /\ work[w].match \in Tickets \cup {None}
  BY BusyMail DEF IngestInv, File, At
<1>2. copies[Mail(w)] = 0 /\ into[Mail(w)] = None
  BY <1>1 DEF IngestInv, Fresh, Unfiled, CareInv, Somewhere
<1>3. /\ work'[w].pc = "finishing" /\ work'[w].mail = work[w].mail
      /\ work'[w].match = work[w].match
      /\ \A v \in Workers \ {w} : work'[v] = work[v]
  BY <1>1, WorkType DEF File, MoveTo, IngestInv, TypeOK, WorkState, Idle
<1>4. \A v \in Workers \ {w} : work[v].pc \in Working => Mail(v) # Mail(w)
  BY <1>1 DEF IngestInv, Alone, Begun, Working, Unfiled
<1>5. UNCHANGED <<inbox, ledger, deleted, cut>>
  BY DEF File
<1>6. \A m \in Mails \ {Mail(w)} : into'[m] = into[m] /\ copies'[m] = copies[m]
  BY <1>1 DEF File, IngestInv, TypeOK
<1>7. CASE work[w].match = None \/ Exists(work[w].match)
  <2>1. /\ into'[Mail(w)] = IF work[w].match = None THEN Mail(w) ELSE work[w].match
        /\ copies'[Mail(w)] = 1
    BY <1>1, <1>2, <1>7 DEF File, IngestInv, TypeOK
  <2>2. into'[Mail(w)] # None
    BY <2>1, <1>1, IngestAssumption DEF Tickets
  <2>3. Unsettled'
    BY <1>1, <1>3, <1>5 DEF CareInv, Unsettled, Mail, Working, Unfiled
  <2>4. Matched'
    BY <1>1, <1>2, <1>3, <1>6, BusyMail DEF CareInv, Matched, IngestInv, Tickets
  <2>5. \A v \in Workers : work[v].pc = "finishing" => Mail(v) \in Mails
    BY BusyMail DEF IngestInv
  <2>6. Filed'
    BY <1>1, <1>3, <1>4, <1>5, <1>6, <2>1, <2>5 DEF CareInv, Filed, Mail, Working
  <2>7. Somewhere'
    BY <1>6, <2>1, <2>2 DEF CareInv, Somewhere
  <2>8. Kept'
    <3> SUFFICES ASSUME NEW m \in Mails, ledger[m].status # "none"
                 PROVE  \/ copies'[m] > 0 \/ ledger[m].status = "skipped"
                        \/ ledger[m].ticket \in deleted \/ m \in cut
                        \/ \E v \in Workers :
                             work'[v].pc \in Working /\ work'[v].mail = m
      BY <1>5 DEF Kept, Mail
    <3>1. CASE m = Mail(w)
      BY <3>1, <2>1
    <3>2. CASE m # Mail(w)
      BY <3>2, <1>3, <1>6 DEF CareInv, Kept, Mail
    <3>3. QED
      BY <3>1, <3>2
  <2>9. Known'
    BY <1>3, <1>5 DEF CareInv, Known, Mail
  <2>10. LedgerTells'
    BY <1>1, <1>5, <1>6 DEF CareInv, LedgerTells, Unsettled, Working, Unfiled
  <2>11. QED
    BY <2>3, <2>4, <2>6, <2>7, <2>8, <2>9, <2>10 DEF CareInv
<1>8. CASE ~(work[w].match = None \/ Exists(work[w].match))
  <2>1. UNCHANGED <<into, copies>>
    BY <1>8 DEF File
  <2>2. work[w].match \in deleted
    BY <1>1, <1>8 DEF CareInv, Matched, Exists
  <2>3. Unsettled'
    BY <1>1, <1>3, <1>5 DEF CareInv, Unsettled, Mail, Working, Unfiled
  <2>4. Matched'
    BY <1>1, <1>3, <2>1 DEF CareInv, Matched
  <2>5. Filed'
    BY <1>3, <1>5, <1>8, <2>1, <2>2 DEF CareInv, Filed, Mail
  <2>6. Somewhere'
    BY <2>1 DEF CareInv, Somewhere
  <2>7. Kept'
    BY <1>1, <1>3, <1>5, <2>1 DEF CareInv, Kept, Mail, Working, Unfiled
  <2>8. Known'
    BY <1>3, <1>5 DEF CareInv, Known, Mail
  <2>9. LedgerTells'
    BY <1>5, <2>1 DEF CareInv, LedgerTells
  <2>10. QED
    BY <2>3, <2>4, <2>5, <2>6, <2>7, <2>8, <2>9 DEF CareInv
<1>9. QED
  BY <1>7, <1>8

\* A match is a ticket that exists, or none.
LEMMA CareMatch ==
  ASSUME IngestInv, CareInv, NEW w \in Workers, Match(w)
  PROVE  CareInv'
<1>1. work[w].pc = "matching" /\ Mail(w) \in Mails
  BY BusyMail DEF IngestInv, Match, At
<1>2. PICK t \in Matches(Mail(w)) :
        work' = [work EXCEPT ![w] = [pc |-> "filing", mail |-> Mail(w), match |-> t]]
  BY DEF Match
<1>3. t # None => into[t] = t
  BY DEF Matches, Exists
<1>4. /\ work'[w] = [pc |-> "filing", mail |-> Mail(w), match |-> t]
      /\ \A v \in Workers \ {w} : work'[v] = work[v]
  BY <1>2 DEF IngestInv, TypeOK
<1>5. UNCHANGED <<inbox, ledger, into, copies, deleted, cut>>
  BY DEF Match
<1>6. Unsettled'
  BY <1>1, <1>4, <1>5 DEF CareInv, Unsettled, Mail, Working, Unfiled
<1>7. Matched'
  BY <1>3, <1>4, <1>5 DEF CareInv, Matched
<1>8. Filed'
  BY <1>4, <1>5 DEF CareInv, Filed, Mail
<1>9. Somewhere' /\ LedgerTells'
  BY <1>5 DEF CareInv, Somewhere, LedgerTells
<1>10. Kept'
  BY <1>1, <1>4, <1>5 DEF CareInv, Kept, Mail, Working, Unfiled
<1>11. Known'
  BY <1>4, <1>5 DEF CareInv, Known, Mail
<1>12. QED
  BY <1>6, <1>7, <1>8, <1>9, <1>10, <1>11 DEF CareInv

\* The worker that begins a mail, skips it or settles it writes its row alone.
LEMMA CareWrites ==
  ASSUME IngestInv, CareInv, NEW w \in Workers,
         Log(w) \/ Guard(w) \/ Finish(w) \/ FinishFailed(w)
  PROVE  CareInv'
<1>1. [Next]_vars /\ UNCHANGED <<inbox, into, copies, deleted, cut>>
  BY DEF Log, Guard, Finish, FinishFailed, Next, Process
<1>2. /\ Mail(w) \in Mails /\ work[w] \in WorkState \ {Idle}
      /\ work[w].match \in Tickets \cup {None}
  BY WorkType DEF Log, Guard, Finish, FinishFailed, At, IngestInv
<1>3. CASE Log(w)
  <2>0. work[w].pc = "logging"
    BY <1>3 DEF Log, At
  <2>1. CASE ledger[Mail(w)].status # "none"
    <3>1. /\ work' = [work EXCEPT ![w] = Idle] /\ UNCHANGED ledger
      BY <1>3, <2>1 DEF Log
    <3>2. work'[w] = Idle /\ \A v \in Workers \ {w} : work'[v] = work[v]
      BY <3>1 DEF IngestInv, TypeOK
    <3>3. \A m \in Mails : inbox'[m] = "read" => ledger[m].status # "none"
      BY <1>1 DEF CareInv, Known
    <3>4. QED
      BY <1>1, <2>0, <3>1, <3>2, <3>3, CareQuiet DEF Idle, Working, Unfiled
  <2>2. CASE ledger[Mail(w)].status = "none"
    <3>1. /\ work' = [work EXCEPT ![w].pc = "guarding"]
          /\ ledger' = [ledger EXCEPT ![Mail(w)].status = "failed"]
      BY <1>3, <2>2 DEF Log, MoveTo
    <3>2. /\ work'[w].pc = "guarding" /\ work'[w].mail = work[w].mail
          /\ \A v \in Workers \ {w} : work'[v] = work[v]
      BY <1>2, <3>1 DEF IngestInv, TypeOK, WorkState
    <3>3. /\ ledger'[Mail(w)].status = "failed"
          /\ \A m \in Mails \ {Mail(w)} : ledger'[m] = ledger[m]
      BY <1>2, <3>1 DEF IngestInv, TypeOK, Ledger
    <3>4. \A v \in Workers : work[v].pc \in Working => Mail(v) # Mail(w)
      BY <2>2 DEF IngestInv, Claimed, Working, Unfiled, Begun
    <3>5. QED
      BY <1>1, <1>2, <3>2, <3>3, <3>4, CareRow
  <2>3. QED
    BY <2>1, <2>2
<1>4. CASE ~Log(w)
  <2>0. Guard(w) \/ Finish(w) \/ FinishFailed(w)
    BY <1>4
  <2>1. \A v \in Workers \ {w} : work[v].pc \in Working => Mail(v) # Mail(w)
    BY <1>4 DEF Guard, Finish, FinishFailed, At, Begun, Working, Unfiled, IngestInv, Alone
  <2>2. CASE MoveTo(w, "matching") /\ UNCHANGED ledger
    <3>1. work[w].pc = "guarding"
      BY <1>2, <1>4, <2>2 DEF Guard, Finish, FinishFailed, At, MoveTo, IngestInv, TypeOK,
         WorkState
    <3>2. /\ work'[w].pc = "matching" /\ work'[w].mail = work[w].mail
          /\ \A v \in Workers \ {w} : work'[v] = work[v]
      BY <1>2, <2>2 DEF MoveTo, IngestInv, TypeOK, WorkState
    <3>3. \A m \in Mails : inbox'[m] = "read" => ledger[m].status # "none"
      BY <1>1 DEF CareInv, Known
    <3>4. QED
      BY <1>1, <2>2, <3>1, <3>2, <3>3, CareQuiet DEF Working, Unfiled
  <2>3. CASE Guard(w) /\ ~(MoveTo(w, "matching") /\ UNCHANGED ledger)
    <3>1. /\ MoveTo(w, "skipped")
          /\ ledger' = [ledger EXCEPT ![Mail(w)].status = "skipped"]
      BY <2>3 DEF Guard
    <3>2. /\ work'[w].pc = "skipped" /\ work'[w].mail = work[w].mail
          /\ \A v \in Workers \ {w} : work'[v] = work[v]
      BY <1>2, <3>1 DEF MoveTo, IngestInv, TypeOK, WorkState
    <3>3. /\ ledger'[Mail(w)].status = "skipped"
          /\ \A m \in Mails \ {Mail(w)} : ledger'[m] = ledger[m]
      BY <1>2, <3>1 DEF IngestInv, TypeOK, Ledger
    <3>4. QED
      BY <1>1, <1>2, <2>1, <3>2, <3>3, CareRow
  <2>4. CASE FinishFailed(w)
    <3>1. /\ MoveTo(w, "marking") /\ work[w].pc = "failing"
          /\ ledger' = [ledger EXCEPT ![Mail(w)].status = "failed"]
      BY <2>4 DEF FinishFailed, At
    <3>2. /\ work'[w].pc = "marking" /\ work'[w].mail = work[w].mail
          /\ \A v \in Workers \ {w} : work'[v] = work[v]
      BY <1>2, <3>1 DEF MoveTo, IngestInv, TypeOK, WorkState
    <3>3. /\ ledger'[Mail(w)].status = "failed"
          /\ \A m \in Mails \ {Mail(w)} : ledger'[m] = ledger[m]
      BY <1>2, <3>1 DEF IngestInv, TypeOK, Ledger
    <3>4. Mail(w) \in cut
      BY <3>1 DEF CareInv, Known
    <3>5. QED
      BY <1>1, <1>2, <2>1, <3>2, <3>3, <3>4, CareRow
  <2>5. CASE Finish(w)
    <3> DEFINE outcome == [status |-> "processed",
                 ticket |-> IF work[w].match = None THEN Mail(w) ELSE work[w].match]
    <3>1. /\ MoveTo(w, "marking") /\ work[w].pc = "finishing"
          /\ ledger' = [ledger EXCEPT ![Mail(w)] = outcome]
      BY <2>5 DEF Finish, At
    <3>2. /\ work'[w].pc = "marking" /\ work'[w].mail = work[w].mail
          /\ \A v \in Workers \ {w} : work'[v] = work[v]
      BY <1>2, <3>1 DEF MoveTo, IngestInv, TypeOK, WorkState
    <3>3. /\ ledger'[Mail(w)] = outcome
          /\ \A m \in Mails \ {Mail(w)} : ledger'[m] = ledger[m]
      BY <1>2, <3>1 DEF IngestInv, TypeOK
    <3>4. outcome.ticket \in deleted \cup {into[Mail(w)]} /\ outcome.ticket # None
      BY <1>2, <3>1, IngestAssumption DEF CareInv, Filed, Tickets
    <3>5. copies[Mail(w)] > 0 \/ outcome.ticket \in deleted
      BY <1>2, <3>4 DEF CareInv, Somewhere, IngestInv, TypeOK
    <3>6. QED
      BY <1>1, <1>2, <2>1, <3>2, <3>3, <3>4, <3>5, CareRow
  <2>6. QED
    BY <2>0, <2>2, <2>3, <2>4, <2>5
<1>5. QED
  BY <1>3, <1>4

LEMMA CareStep ==
  ASSUME IngestInv, CareInv, [Next]_vars
  PROVE  CareInv'
<1>0. /\ \A m \in Mails : inbox[m] = "read" => ledger[m].status # "none"
      /\ \A w \in Workers : work[w].pc = "marking" => ledger[Mail(w)].status # "none"
      /\ \A w \in Workers : work[w].pc = "skipped" => ledger[Mail(w)].status # "none"
  BY DEF CareInv, Known, IngestInv, Claimed, Begun
<1>1. CASE UNCHANGED vars
  BY <1>1 DEF vars, CareInv, Unsettled, Matched, Filed, Somewhere, Kept, Known,
     LedgerTells, Mail
<1>2. ASSUME NEW w \in Workers, Process(w) PROVE CareInv'
  <2>1. CASE Log(w) \/ Guard(w) \/ Finish(w) \/ FinishFailed(w)
    BY <2>1, CareWrites
  <2>2. CASE Match(w)
    BY <2>2, CareMatch
  <2>3. CASE File(w)
    BY <2>3, CareFile
  <2>4. CASE Check(w) \/ Skip(w)
    <3>1. /\ work[w] \in WorkState \ {Idle} /\ UNCHANGED <<inbox, ledger, into, copies>>
          /\ UNCHANGED <<deleted, cut>>
      BY <2>4, WorkType DEF Check, Skip, At, IngestInv
    <3>2. /\ work'[w].mail = work[w].mail /\ work'[w].pc \in {"marking", "logging"}
          /\ work'[w].pc = "marking" => ledger[Mail(w)].status # "none"
          /\ work[w].pc \in {"checking", "skipped"}
          /\ \A v \in Workers \ {w} : work'[v] = work[v]
      BY <1>0, <2>4, <3>1 DEF Check, Skip, At, MoveTo, IngestInv, TypeOK, WorkState
    <3>3. QED
      BY <1>0, <3>1, <3>2, CareQuiet DEF Working, Unfiled, Mail
  <2>5. CASE MarkRead(w)
    <3>1. /\ work'[w] = Idle /\ UNCHANGED <<ledger, into, copies, deleted, cut>>
          /\ work[w].pc = "marking"
          /\ \A v \in Workers \ {w} : work'[v] = work[v]
      BY <2>5 DEF MarkRead, At, IngestInv, TypeOK
    <3>2. \A m \in Mails : inbox'[m] = "read" => ledger[m].status # "none"
      BY <1>0, <2>5, <3>1 DEF MarkRead, IngestInv, TypeOK
    <3>3. QED
      BY <3>1, <3>2, CareQuiet DEF Working, Unfiled, Idle
  <2>6. QED
    BY <1>2, <2>1, <2>2, <2>3, <2>4, <2>5 DEF Process
<1>3. ASSUME NEW w \in Workers, NEW m \in Mails, Fetch(w, m) PROVE CareInv'
  <2>1. /\ work[w] = Idle /\ work'[w].pc = "checking"
        /\ UNCHANGED <<inbox, ledger, into, copies, deleted, cut>>
        /\ \A v \in Workers \ {w} : work'[v] = work[v]
    BY <1>3 DEF Fetch, IngestInv, TypeOK
  <2>2. QED
    BY <1>0, <2>1, CareQuiet DEF Working, Unfiled, Idle
<1>4. ASSUME NEW w \in Workers, Throw(w) \/ Kill(w) PROVE CareInv'
  <2>1. /\ work[w] \in WorkState \ {Idle} /\ UNCHANGED <<inbox, ledger, into, copies>>
        /\ UNCHANGED deleted /\ cut' = cut \cup {Mail(w)}
    BY <1>4, WorkType DEF Throw, Kill, Mishap, IngestInv
  <2>2. \/ work' = [work EXCEPT ![w] = Idle]
        \/ work' = [work EXCEPT ![w].pc = "failing"]
    BY <1>4 DEF Throw, Kill, MoveTo
  <2>3. /\ work'[w].pc \in {"idle", "failing"}
        /\ work'[w].pc = "failing" => work'[w].mail = work[w].mail
        /\ \A v \in Workers \ {w} : work'[v] = work[v]
    BY <2>1, <2>2 DEF IngestInv, TypeOK, WorkState, Idle
  <2>4. QED
    BY <1>0, <2>1, <2>3, CareQuiet DEF Working, Unfiled, Mail
<1>5. ASSUME NEW m \in Mails, Arrive(m) PROVE CareInv'
  <2>1. /\ UNCHANGED <<ledger, into, copies, deleted, work, cut>>
        /\ \A n \in Mails : inbox'[n] = "read" => inbox[n] = "read"
    BY <1>5 DEF Arrive, IngestInv, TypeOK
  <2>2. QED
    BY <2>1 DEF CareInv, Unsettled, Matched, Filed, Somewhere, Kept, Known, LedgerTells,
       Mail
<1>6. ASSUME NEW m \in Mails, DeleteTicket(m) PROVE CareInv'
  <2>1. /\ UNCHANGED <<inbox, ledger, into, copies, work, cut>>
        /\ deleted \subseteq deleted'
    BY <1>6 DEF DeleteTicket
  <2>2. Unsettled' /\ Matched' /\ Somewhere' /\ Known'
    BY <2>1 DEF CareInv, Unsettled, Matched, Somewhere, Known, Mail
  <2>3. Filed' /\ LedgerTells'
    BY <2>1 DEF CareInv, Filed, LedgerTells, Mail
  <2>4. Kept'
    BY <2>1 DEF CareInv, Kept, Mail
  <2>5. QED
    BY <2>2, <2>3, <2>4 DEF CareInv
<1>7. QED
  BY <1>1, <1>2, <1>3, <1>4, <1>5, <1>6 DEF Next

LEMMA CareInit == Init => CareInv
BY IngestAssumption DEF Init, CareInv, Unsettled, Matched, Filed, Somewhere, Kept, Known,
   LedgerTells, Working, Unfiled, Idle

\* The invariant of ledger, tickets and workers together.
THEOREM Care == Spec => [](IngestInv /\ CareInv)
BY IngestInit, CareInit, IngestStep, CareStep, PTL DEF Spec

\* The ledger row of a processed mail names the ticket the mail is in, or was in
\* before that ticket was deleted.
THEOREM RowsTell == Spec => []LedgerTells
<1>1. CareInv => LedgerTells
  BY DEF CareInv
<1>2. QED
  BY <1>1, Care, PTL

\* No mail is acknowledged and lost, unless its processing was cut short.
THEOREM NothingLost == Spec => []NoMailLost
<1>1. IngestInv /\ CareInv => NoMailLost
  <2> SUFFICES ASSUME IngestInv, CareInv, NEW m \in Mails, inbox[m] = "read"
               PROVE  \/ copies[m] > 0 \/ ledger[m].status = "skipped"
                      \/ ledger[m].ticket \in deleted \/ m \in cut
                      \/ \E w \in Workers : Mail(w) = m
    BY DEF NoMailLost
  <2>1. ledger[m].status # "none"
    BY DEF CareInv, Known
  <2>2. QED
    BY <2>1 DEF CareInv, Kept
<1>2. QED
  BY <1>1, Care, PTL
=============================================================================
