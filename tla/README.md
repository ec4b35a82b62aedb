# TLA+ models of the service desk

These modules describe the part of the ticket system where calls, background
jobs and outside parties meet: who owns a ticket and what may be written to it,
how requests and mails become tickets, which mails, callbacks and audit entries
come out of it, and how changes and accounts move along. They are translated from the code under `src/src/server` (the repository root is
`src/`, so `src/src/server/...` is the application's server side).

## 1. The system

A Next.js application with an HTTP API, two storage drivers (an in-memory store
and Prisma on PostgreSQL) and a few background jobs. Both drivers run a
`transaction` atomically (the memory store one after the other,
`memoryStore.ts:306`; PostgreSQL serializable with retries, `prismaStore.ts:182`)
and offer `updateIf`, a compare-and-set on chosen fields of a row. Nothing else
protects a row: a handler that reads in one call and writes in another can be
overtaken in between.

### Inventory

| component | state it keeps | operations | what can go wrong | what makes it correct |
|---|---|---|---|---|
| workflow ticket (`workflowService`, `ticketService`, `agentActions`) | the ticket row with its `workflow` object and `workflowVersion` | bucket transitions (one transaction each), ticket actions through `mutateTicket` (read, guard, read, write) | stale reads overwrite the whole workflow object; status and phase drift apart; two agents pick up | review is not skipped, one accepted owner, misrouting history kept, a conclusion is justified |
| confirmation link (`ticketAcknowledgement`, `acknowledgementTokens`) | one acknowledgement per resolution, `usedAt` | confirm, reopen | late or second use, newer resolution | a link decides the resolution it was mailed for, once |
| monitoring (`workflowMonitoring`) | markers inside `workflow` | raise alerts, remind, close after seven days | races with actions; alerts twice or never | each alert once per visit, a resolved ticket settles |
| mail outbox (`workflowOutbox`, `retry-emails`, `workflowRetention`) | `notificationDeliveries` rows with status, attempts, owner, lease | queue, claim, send, record, fail, requeue, clean | overlapping sweeps, killed invocations, lost answers | fenced claims, outcomes stand, duplicates only after a loss, every mail settles |
| sweep and lease (`workflowMaintenance`, `durableLease`) | `jobLeases` row with owner, lease, cursor | acquire, visit tickets, finish, fail | expired lease of a living sweep, kill in the middle of a page | one holder, no ticket skipped, fresh means complete, every ticket visited again |
| SLA clock (`slaService`) | `slaPausedAt`, `slaPausedMins`, due dates | pause, resume, recompute | pause flag out of step with the status | paused exactly while pending |
| legacy tickets (`mutateTicket` without a workflow, `scheduler`, `ai/resolver`) | ticket row without a version | the same actions, merging, auto-close, SLA sweep, AI resolution | lost updates everywhere | clock stopped exactly while pending, settled tickets dated, a resolved one is closed in the end |
| approvals (`approvalService`) | approval rows, the ticket's `pending` status | request, decide | two deciders, crash between the two writes, a reply that un-parks | a held ticket stays held until decided, a rejection cancels |
| automation rules (`automationService`) | rules and run counters | run on create, update, schedule | recursion, stale fields | bounded recursion |
| audit chain (`auditChain`, `prismaStore.transaction`) | rows with index, payload hash, previous hash, hash | append (alone or in the caller's transaction), verify | two appends on one predecessor; a retry that repeats too little; a failed append | an append-only log without forks; edits are found; entries stand and fall with the transaction they join |
| webhook deliveries (`integrationWebhookService`) | delivery rows with attempts and next time | queue, deliver, retry, give up | no claim: overlapping workers count the same attempt, send twice, remove each other's row | no callback lost, twice only for a reason, each settles |
| configuration (`configureWorkflow`, `workflowBoard`) | `workflowSettings` of the tenant | configure | bucket removed under a closed ticket that is reopened | every open ticket has a bucket |
| links and merge (`agentActions`) | `linkedTicketIds`, `mergedIntoId` | link, unlink, merge | two rows, two writes | symmetry |
| groups and routing (`groupService`, `routingRecommendation`, `availabilityService`) | round-robin cursor, memberships | assign, reassign | cursor races | fairness of the rotation |
| intake (`tickets/route.ts`, `intake`, `idempotencyService`) | idempotency hash on the ticket row | look up, create, queue callback, due dates, pipeline, answer | repeated and overlapping requests, failures behind the creation | one ticket per key, consistent answers, a ticket is served |
| inbound mail (`emailIngest`, `emailThreading`, `graphEmail`, `brevoEmail`) | ledger of message ids, read marks at the provider | poll, push, guard, match, file, record | overlapping polls, crash after the ledger row, ticket deleted in between | ingested once, ledger names the ticket, none lost, each acknowledged |
| users and organizations (`userService`, `accountAccessService`, `organizationService`) | account rows, setup links | invite, issue a link, complete a setup, edit, deactivate | administrators demoted in a race; old links | an administrator remains, no active account without a password, a link is good once |
| changes (`changeService`) | change row, approval rows | create, edit, submit, decide | votes that overlap, votes on a change that moved on, failures between two writes | all votes count, an approval stands |
| problems, assets, knowledge base, departments, API keys, rights | rows and tables | CRUD, permission checks | | |
| stores, HTTP, channels, reports, user interface | | input and output | | |

### How the components interact

Staff move a ticket between buckets through `transitionWorkflow`. Everything
else that touches it (replies, resolution, escalation, field edits, approvals,
rules, deletion, portal feedback) goes through `mutateTicket`, whose guard
`workflowMutationPatch` refuses what would bypass the workflow. Both write the
row under its version and, in the same transaction, put lifecycle mails in the
outbox; a resolution also creates the confirmation link. Every minute a trigger
runs the maintenance sweep under a row lease: it monitors the tickets one by one
(each in a transaction of its own), cleans up, and drains the outbox. The
requester answers through the link or the portal.

Tickets come in through the API (`POST /api/v1/tickets`, under an idempotency key
if the caller sends one) and through the mailbox; both end in `intakeTicket`,
which creates the ticket, queues and at once delivers its callback, sets due dates
and runs the pipeline. Callbacks that failed are delivered by the scheduler's tick
and by the maintenance sweep, which hold different locks. Nearly every service
appends to the audit chain, most of them after their own write, the workflow and
the account services inside their transaction.

## 2. Modules

| module | models | code |
|---|---|---|
| `TicketCustody` | what the workflow promises about one ticket: review, queue, work, done, and the single owner | abstract |
| `TicketWorkflow` | one workflow ticket and everybody who writes it | `workflowService`, `ticketService`, `agentActions`, `workflowMonitoring`, `ticketAcknowledgement`, the pause flag of `slaService` |
| `TicketWorkflow_proofs` | types, the inductive invariant and the safety it implies, the refinement of `TicketCustody`, links and history | |
| `WorkflowOutbox` | one mail in the outbox and overlapping drain invocations | `workflowOutbox`, `retry-emails`, `workflowRetention` |
| `WorkflowSweep` | the lease row, its cursor and overlapping sweeps | `durableLease`, `workflowMaintenance` |
| `LegacyTicket` | one ticket of a tenant without the workflow, its approval and everybody who writes it | `mutateTicket` without a version, `agentActions`, `approvalService`, `scheduler`, `ai/resolver`, rules |
| `ChangeControl` | one change, its approvals and the calls on them | `changeService` |
| `AuditLog` | what the audit trail promises: logs that only grow at the end | abstract |
| `AuditChain` | the rows of the trail, appends, conflicts, verification | `auditChain`, `PrismaStore.transaction`, the unique index |
| `WebhookDelivery` | one callback and the workers that deliver it | `integrationWebhookService` |
| `TicketIntake` | requests under one idempotency key; composes `WebhookDelivery` | `tickets/route.ts`, `idempotencyService`, `intake`, `createTicket` |
| `EmailIngest` | mails on their way into tickets | `emailIngest`, `emailThreading`, `graphEmail`, `brevoEmail` |
| `AccountAccess` | the accounts of one organization and their setup links | `userService`, `accountAccessService`, `provisionOrganization` |
| `TicketAndChange_proofs` | inductive invariants and theorems of `LegacyTicket` and `ChangeControl` | |
| `TicketIntake_proofs` | the same for `TicketIntake` with the `WebhookDelivery` in it | |
| `WorkflowOutbox_proofs`, `WorkflowSweep_proofs`, `EmailIngest_proofs`, `AccountAccess_proofs`, `AuditChain_proofs` | the same for those modules | |
| `MC...` | the instances TLC checks | |

`WorkflowSweep` and `WorkflowOutbox` meet `TicketWorkflow` at one action each:
what a sweep does to a ticket is `MonitorStep`, and whether a mail is still
wanted changes when the ticket moves on. They are checked apart because their
rows are written apart. `LegacyTicket` and `TicketWorkflow` describe the same
functions for two kinds of tickets: whether a ticket has a workflow is decided
once, when it is created, and every function asks for it first. `TicketIntake`
extends `WebhookDelivery`: the request that creates a ticket is itself one of the
workers that deliver its callback, so that the two cannot be checked apart.
`EmailIngest` creates tickets and replies in one step; what an intake consists of is
`TicketIntake`, what a reply does to the ticket is `RequesterReply` of
`LegacyTicket`.

### TicketWorkflow

`ticket` is the row: status, group, assignee, resolver, resolution stamp, pause
flag, deletion, version, and `wf`, the JSON object `workflow`, which every
writer replaces whole. `acks` and `used` are the resolutions a link exists for
and those whose link was used. `call[c]` is a `mutateTicket` call in flight.

* Each bucket transition, `Confirm`, `Dispute` and each monitor action is one
  atomic action, because its reads and writes share a transaction.
* A ticket action takes three steps. `AgentReply`, `AgentResolve`,
  `RequesterReply` and so on choose the patch from the caller's own read
  (`tenantOf`); `ReadCurrent` is `mutateTicket`'s second read together with the
  guard `Permitted`; `Commit` is its transaction. Anything may happen in between,
  and `Commit` writes only if the version is still the one that was read.
* A `visitId` and a resolution time are drawn fresh by every write. Here they are
  the version of that write. The fields `queuedAt`, `queuedPauseMins` and
  `visitId` are always written together and are one field `visit`.
* Time is abstract: the monitor finds a queue as old, and a resolution as late,
  as it likes. Calendars, due dates and the recipients of alerts are left out.
  The link's expiry lies seven days after the resolution; as a link need not be
  used, leaving the expiry out adds no behaviour.
* Membership and roles are constants, and so is the bucket configuration.
* Ticket actions that only throw for a workflow ticket (assignment by PATCH,
  staff close without a reason) write nothing and are no actions; closing by
  a rule without a reason is `SetStatus`, and is refused in `ReadCurrent`.
* `AUTH_SECRET` is assumed to be configured, so each resolution gets a link.

### WorkflowOutbox

`row` is the delivery row, with `leased` for a lease that has not run out and
`due` for a retry time that has come. `run[r]` is an invocation: listing,
claiming (`updateIf` on status, attempts and owner), judging whether the mail is
still wanted, sending, and recording are separate steps. `Send` has three
outcomes: accepted, refused, accepted with the answer lost. `Kill` ends an
invocation anywhere, `LeaseExpires` lets its two minutes pass. Owner tokens are
random in the code and count the claims here. `accepted` counts what the
provider was given, `doubt` remembers that a lease or an acceptance was lost.

### WorkflowSweep

`lease` is the `jobLeases` row. An absent row is one owned by `None`: the create
of `acquireLease` succeeds for one of several creators just as its `updateIf`
does. Tokens are drawn from a finite set, always one that nobody remembers, as
`randomUUID` does. `visited` records the tickets monitored since the scan began.
The set of tickets is fixed, numbered in the order of their ids; the page size
and the limit of 1000 do not change which ticket comes next and are part of
`OutOfTime`, which may end the walk after any ticket. `inTime` is history: the
invocations that took the lease and whose two minutes are not over, kept apart from
the row so that a row taken over too early is noticed.

### LegacyTicket

`ticket` is the row, `approval` the state of its approval, `call[c]` a call in
flight. As in `TicketWorkflow` a call chooses its patch from its own read, then
`ReadCurrent` reads the row again, then `Commit` writes. The write is blind:
`Written` applies the patch, and what `mutateTicket` derived from its own read
(`PausedAfter`, `ResolvedAtAfter`), to the row as it now is, field by field, as
`update` does. Only a resolution looks once more (`Eligible`).

* `AgentResolve` is also `acceptSuggestion`, and `ResolveTicket` has the three
  outcomes of the resolver; what it scores and writes for people to read is left
  out.
* The scheduler's sweeps act on a list they read earlier: their guard is the
  caller's read, and their write comes any number of steps later.
* `requestTicketApproval` creates the approval and then asks for the hold;
  `decideTicketApproval` reads the approval, then marks it, then asks for what
  follows. Each is a step. The pipeline that resumes after an approval (routing,
  rules, AI) consists of calls that may come at any time.
* The two reads of `requesterReply` (ticket, approvals) are one step.
* A resolution time is the number of the write that carries it; `old` is the last
  write that is more than seven days ago. Due dates are abstract: a running
  clock may be found past its due date at any time.
* Owners, groups, messages, links and tags other than the breach tag are left out.
* `load` is chosen at the start and never changes: it says how many calls overlap,
  which statuses a PATCH may name, and how many writes and kills there are.

### ChangeControl

`status` is the change, `approvals` its approval rows, `slot[c]` a call with what it
has read so far. `changeService` uses no transaction, so every `await` between a read
and a write is a step of its own: a PATCH reads and writes; a submission reads,
creates the approvals one by one, and writes; a decision reads the approval, reads
the change, records, lists, and writes if the status is to move. `Fail` cuts a call
short between any two steps. `writer` and `disturbed` are history: who wrote the
status last, and whether a decision overlapped anything other than a decision on
another approval. A change that awaits approval may be submitted again, because
`canTransitionChange` accepts a status that stays the same.

### AuditChain

`rows` is the table, `call[c]` an append in flight. The transaction reads the last
row and inserts the next one; `Commit` needs the index to be free, which both the
unique index and the serializable isolation enforce, and `Conflict` is what the
store answers otherwise, or when it aborts a transaction it only suspects: the
whole transaction runs again, four times at most. An entry is appended alone, after
the work it records (`done`) is committed, or joins the transaction of that work.
A hash is the tuple of what is hashed. `Edit` changes a payload behind the
program's back. `AuditLog` is implemented by what is stored at each index.

### WebhookDelivery and TicketIntake

`row` is the delivery row; `work[w]` a worker, which is a request delivering what it
queued, or a sweep. Each store call and the POST is a step. A POST is accepted,
fails unseen, or fails after the subscriber got it. The update of a row that is gone
does nothing. `req[q]` is a request, `tickets` the tickets under the key, `graded`
and `served` say whether due dates and pipeline were done for it. `Throws` is a
failure in a step: before the creation or after it the handler looks the key up
again, and a callback that cannot be queued is passed over. The pipeline's own
failures are recorded and go no further, as `withRetry` does. `load` is chosen at the
start and never changes: what each request asks for, the slots for sweeps, and the
number of mishaps.

### EmailIngest

`inbox[m]` is the mark at the provider, `ledger[m]` the row of the message id,
`into[m]` the ticket that got the mail. `Fetch` is a poll that finds the mail unread
or a push; two workers may hold the same mail. A ticket is named by the mail that
created it. `Matches` covers both ways to a thread: the reference in the subject,
which needs only the ticket, and the ancestry, which needs the parent's ledger row.
`Throw` inside the `try` records the failure and acknowledges the mail; outside it
ends the worker.

### AccountAccess

Inviting, issuing a link and completing a setup are transactions and one action
each. `updateUser` and `deactivateUser` are three steps: read the account, list the
other administrators, write. `raced` remembers an edit that another write to the
accounts overtook. An account's role is `agent` or `tenant_admin`; the other roles
behave as the former here. Whether there is a password is kept, not the password.

## 3. Runs

| run | question | states (about) |
|---|---|---|
| `workflow` | whole behaviour of one ticket, two departments, two overlapping calls, five versions, one return; slots and departments are symmetric | 1 170 000 |
| `workflow_cycle` | eight versions: two full resolve-and-reopen cycles; implements `TicketCustody`; a resolved ticket settles | 750 000 |
| `workflow_stranded` | expected violation, see section 5 | |
| `outbox` | two invocations, two attempts, one requeue, three mishaps; every mail settles | 170 000 |
| `sweep` | two sweeps, three tickets, two mishaps; every ticket is monitored again and again | 99 000 |
| `legacy` | one call at a time, every status by PATCH or rule, five writes; or two overlapping calls with PATCHes to resolved, two writes and the scheduler's; a resolved ticket is closed | 570 000 |
| `change` | two overlapping calls, two approvals in one or two submissions, one failure | 600 000 |
| `change_listed` | expected violation, see section 5 | |
| `audit` | two overlapping appends, two tenants, three entries, four attempts, two edits; implements `AuditLog` | 135 000 |
| `intake` | three attempts, and one of: two requests for the same thing, a sweep, one mishap; two requests for different things, a sweep; one request, two overlapping sweeps | 400 000 |
| `mail` | a thread of three mails, two workers, one mishap, deletions | 210 000 |
| `account` | two accounts, two overlapping edits, three links; the edits are symmetric | 1 640 000 |

Bounds. `MaxVersion` stops calls and transitions at a version (the monitor and
the link stop by themselves). Five versions hold a route, a pickup, a resolution and
a write that overlaps each of them: a stale write needs one read, one other write
and the commit; eight, with one call, hold a second resolution after the first was
confirmed and reopened. `workflow` names pending and closed by PATCH: a status that
stops the clock, and one the guard refuses; `workflow_cycle` open and cancelled: one
that brings a finished ticket back, and one that ends it. The remaining ones come from
the actions. `MaxReturns` is one because a second return
repeats the first (the manager's rule for a third route is in the model, but restates
a guard and is not a property). `MaxMishaps` counts invocations killed, failing or
outliving their lease; two allow a takeover of a takeover. `MaxAttempts` is two
instead of eight for mail: the code treats all attempts before the last alike. For
callbacks it is three, the least number under which a worker sets the stored count
back (from two to one, by counting what it read as none); `SetBacksEnd` covers any
number. For the audit chain it is the four of the code.

`load.writes` stops new calls on a legacy ticket, but not the scheduler's closing:
five writes hold pending, active, resolved, reopened and resolved again; two calls
that overlap need two writes, since both read before either writes, and a third
comes from the scheduler. In that load the only status a PATCH names is resolved,
which meets tickets that are stamped and tickets that are not. Two approvals are a
round of two votes, or two rounds of one. Three entries put two rows on one tenant
before or after a conflict, and one on another. Three links are an invitation and
two reissues, or two users of whom one is invited again; two accounts are enough for
the last administrator to be any of them. One mishap each in `change`, `intake` and
`mail` meets every step once; what a second one does to another call adds no case
that a property tells apart. The loads of `intake` that are there for a second payload
or a second sweep have no mishap.

Deadlock is checked in the outbox and sweep runs. It is not in the others, where the
system rightly stops: a deleted ticket, a ticket or organization at its bound, a
change that is closed, requests that are answered, mails that are read.

Fairness. `workflow_cycle` assumes that the minute trigger keeps running the
monitor (`MonitorCloses` stays enabled once the seven days are over) and that a
call that was made is answered. `outbox` and `sweep` assume that the
trigger starts an invocation again and again, that an invocation runs on unless
it is killed, that leases and retry times pass, and that mishaps end: with
endless kills nothing can be promised. `outbox` also assumes that the mail
gets one of the twenty places of a sweep. `legacy` assumes that a call that is not
killed goes on, that weeks pass, and that the scheduler keeps ticking; the last with
strong fairness, because the model's slots for calls are not a resource of the code
and the scheduler waits for none. `change`, `audit`, `intake` and `mail` assume that
a call, a request, a delivery or a worker that is not cut short goes on; `intake`
also that sweeps start again and that the time of a retry comes; `mail` that the
mailbox is polled again and again, again with strong fairness, since workers are no
resource of the code. Acceptance by a subscriber, new requests, votes and edits are
never assumed. `account` has no liveness property: nobody has to use a link.

## 4. Properties

* `WorkflowInv`, the inductive invariant of section 6, with all its parts: the type
  invariant; `Reviewed` and `Owned`, the claims "human review" and "an offer is not
  acceptance" of `docs/SERVICE_DESK_WORKFLOW.md`, as relations between phase, bucket,
  reviewer, assignee and accepted owner; `Held`, paused exactly while pending,
  whatever calls overlap; and what the calls in flight are allowed to write.
* `Concluded`, another part, also on its own: a resolved ticket has an entitled
  resolver and a link for this very resolution; a closed one has a reason, and is
  confirmed only by its requester.
* `ReadIsCurrent`: same version, same row. This is what makes the whole-object
  write of `mutateTicket` sound; it fails as soon as one writer forgets to bump
  the version.
* `OneWinnerPerVisit`, `HistoryKept`, `LinkUsedUp`: what a step, or a sequence of
  steps, may never do. `HistoryKept` is about returns to the desk and the markers of
  alerts, both of which a stale write of the whole object would lose.
* `ImplementsCustody`: every write by anybody is a step of `TicketCustody`.
* `OutcomeStands`, `SentOnce`, `DeliverySettles` of the outbox;
  `OneHolder`, `NoTicketSkipped`, `FreshMeansComplete`, `EveryTicketMonitored` of
  the sweep. `OneHolder` says that the lease excludes: an invocation whose two minutes
  are not over is the only such one and still owns the row, also when both have seen
  the last lease run out. It fails if the row is written without the comparison.
* `InStep` (clock and stamp agree with the status) and `HeldForApproval` of a legacy
  ticket hold when its calls follow one another, which is what the tests exercise. They are
  not claimed of overlapping calls, whose writes are blind: with a second call
  each of them fails.
  `ResolvedStamped` and `ResolvedCloses` hold whatever overlaps: they rest on the
  one check that a resolution repeats in its transaction.
* `VotesCount`, `VotesAdvance` of a change: votes that overlap only
  votes on other approvals lead to the status all of them together ask for. That is
  what listing the approvals after recording one's own vote achieves; a vote that
  overlaps a submission or a PATCH, or fails, is exempt, because the code does not
  protect it.
* `Linked`, `EditFound`, `RecordedOnce`, `AppendEnds`, `ImplementsLog` of the audit
  chain. `RecordedOnce` says that an entry that joins a transaction is written
  exactly when the work is; an entry of its own may be missing, never doubled.
* `OneTicket`, `IntakeCompletes` of an intake; `NotLost`,
  `ReceivedOnce`, `CallbackSettles` of its callback. `CallbackSettles` is not
  obvious: overlapping workers do set the number of attempts back, but everybody who
  reads the row again counts up from more than before (`SetBacksEnd` in section 6).
* `IngestedOnce` ("A ledger row per Message-ID written before processing, so a crash
  cannot double-ingest", `docs/architecture/diagrams/README.md:915`),
  `NoMailLost`, `EveryMailRead` of the mailbox.
* `AdminRemains`, `ActiveHasPassword`, `LinkSpent` of accounts.

The type invariants of the modules with proofs, `Fenced` of the outbox and
`LedgerTells` of the mailbox are proved for every instance, and have no run.

Each property has a `Faulty...` definition beside the code it guards: a plausible
slip (a dropped guard, a missing reset, a comparison left out) under which TLC
finds the property violated. No specification uses these definitions.

## 5. Where code and documentation disagree

* `workflow_stranded`: a PATCH of the status, or a reply computed before the
  resolution, moves a resolved ticket to an active status while its phase stays
  `resolved`. The board still says "Resolved, awaiting confirmation"
  (`shared/workflow.ts:50`), but the link is refused, the monitor does not close
  it, and no bucket transition applies. Only a new resolution or a cancellation
  gets it out.
* `change_listed`: a vote on an approval that was still pending when staff moved the
  change on by a PATCH writes `approved` or `rejected` from whatever status the change
  has, although `changeService.ts:53-54` says that anything the table does not list is
  rejected, and 198-199 that a scheduled change must not be flipped back to rejected.
  No two calls overlap.

Other disagreements met while modelling, which the models contain and no run shows
by itself:

* Attempts of a mail are compared with eight only when an attempt fails in an orderly
  way (`workflowOutbox.ts:108`); a delivery whose invocations are killed is reclaimed
  without limit (`docs/SERVICE_DESK_WORKFLOW.md:222`: "Failed deliveries stop after
  eight attempts").
* A requester's call on a legacy ticket that read it before it was cancelled and
  commits afterwards makes it active again (`tickets/[id]/actions/route.ts:51-52`: a
  cancelled ticket cannot be resurrected by its requester).
* A decision that fails after the approval was marked rejected never cancels the
  ticket and cannot be repeated (`approvalService.ts:7`: "a rejection cancels the
  ticket").
* A PATCH from resolved to open and back keeps the first resolution time
  (`ticketService.ts:309-312`, `scheduler.ts:144`).
* Two administrators who demote each other at the same time leave none
  (`userService.ts:28-29`: "The last-admin guard below prevents lockout"). This is
  what `AdminRemains` exempts with `raced`.
* An append to the audit chain that fails after four attempts, or a crash before it,
  leaves committed work without an entry (`problemService.ts:13`: "Every action is
  recorded in the tamper-evident audit chain").
* `docs/EXTERNAL_API_GUIDE.md:212` says that the API has no idempotency-key contract;
  line 210, the route and the model have one.

Known weak spots that no property covers, because nothing in the repository promises
otherwise: two approvers of a legacy ticket who decide at once (both `Decide` calls
find the approval pending); a rejected approval of an earlier round that counts in
the tally of a resubmitted change (`changeService.ts:210`); a submission that fails
after some approvals were created (`:171`); an answer that is processed before the
mail it answers has its ticket (`emailThreading.ts:58`); a setup link that outlives a
deactivation (`userService.ts:272`); a callback that cannot be queued
(`ticketService.ts:282`); a confirmation mail sent while the ticket is reopened
(`workflowOutbox.ts:94`).

## 6. Proofs

Every theorem holds for all values of the constants that satisfy the module's
`ASSUME`s, which the runs evaluate: that bounds are natural numbers, and what makes
the constants an instance at all (the desk is not a department, members are staff;
`None` is no token and no mail; a mail answers a mail or none; the founder is a user;
an edited payload is not the one it replaced).

Every invariant and every action property that a passing run checks is the statement
of a theorem.

`TicketWorkflow`, for every set of staff and departments and any number of calls:

* `TypeCorrect`: the row and all calls keep their types.
* `Safety`: `WorkflowInv` is invariant. The properties of
  the row are not inductive alone, because `Commit` writes what a call computed
  earlier. `WorkflowInv` therefore says of each call in flight that it read a
  version not newer than the row's, that equal versions mean equal rows
  (`ReadIsCurrent`), and that its patch was permitted for the row it read
  (`Judged`). When `Commit` finds its version current, it writes a permitted patch
  to the row it was permitted for, and one lemma per part of the invariant shows
  that this keeps the part. Transitions, link and monitor read and write in one
  step and need only the row's part.
* `NeverUnreviewed` (`Reviewed`), `AlwaysOwned` (`Owned`), `TruthfullyConcluded`
  (`Concluded`), `ClockHeld` (`Held`), `OptimisticRead` (`ReadIsCurrent`) follow.
* `Implementation`: `Spec => ImplementsCustody`. The
  initial row maps to the initial state of `TicketCustody`, and every step, given
  `WorkflowInv`, maps to one of its steps or to a stutter.
* `NoHandover`: `Spec => OneWinnerPerVisit`. It needs one more invariant, that the
  visit of the row was drawn at or before its version, so that a step which
  requeues the ticket starts a visit nobody had before.
* `LinkDecidesOnce` (`LinkUsedUp`): the stamp of a resolution is the version of the
  write that made it, and links carry stamps. `LinkInv` says that no link carries a
  version still to come and that every caller who asks to resolve in somebody's name
  asks for a new stamp; a new resolution therefore has a stamp no link was used for.
* `NothingForgotten` (`HistoryKept`): transitions and commits write the workflow
  object of the row that is there. For commits that is `ReadIsCurrent` again.

The other modules have one invariant each, which `Init` establishes and every action
preserves, with one lemma or step per action:

* `WorkflowOutbox_proofs`: `Fenced` is not inductive alone, since it speaks only of
  the holder. `Distinct` says that all tokens in hand differ, so that whoever is named
  by the row is one. `Calm` says that, as long as no lease and no acceptance was lost,
  every invocation at work is the holder, and that once the mail was accepted all that
  is left is to record it; `SentOnce` follows. Theorems: `OutboxTypes`,
  `ClaimsFenced` (`Fenced`), `AtMostOnceUnlessLost` (`SentOnce`), `OutcomesFinal`
  (`OutcomeStands`).
* `WorkflowSweep_proofs`: `OneToken` (sweeps at work drew different tokens, also those
  whose lease lapsed) and `AtTheEnd` (complete only at the last ticket). `OneHolder`
  rests on `HolderInv`: while an invocation is in time it owns the row and nobody waits
  with a read that still fits (`SeesRow`), so that the comparison in `Take` refuses
  all who saw the last lease run out. Theorems:
  `SweepTypes`, `OneHolderAtATime`, `NothingSkipped` (`NoTicketSkipped`),
  `FreshOnlyWhenComplete` (`FreshMeansComplete`).
* `EmailIngest_proofs`: the worker beyond the creation of the ledger row is alone with
  its mail (`Alone`) and nobody filed the mail before it (`Fresh`). Theorems:
  `IngestTypes`, `NeverTwice` (`IngestedOnce`), `RowsTell` (`LedgerTells`),
  `NothingLost` (`NoMailLost`).
* `AccountAccess_proofs`: of each edit in flight that nothing overtook, the account is
  as it was read, and an edit about to remove an administrator has seen another one.
  Theorems: `AccessTypes`, `NoLockout` (`AdminRemains`), `NobodyWithoutPassword`
  (`ActiveHasPassword`), and `LinksGoodOnce` (`LinkSpent`), which needs the types only:
  issuing, completing and expiring each touch pending links alone.
* `AuditChain_proofs`: of an append about to insert, the row it read is still there (`Prepared`),
  with an index one less than its own. Theorems: `ChainTypes`, `ChainLinked`
  (`Linked`). Three more invariants rest on it. `OnceInv`: an append in flight is the
  only one for its entry and no row holds it yet, and rows hold work that is done
  (`AuditRecordedOnce`, `RecordedOnce`). `VerifyInv`: hashes are those of what was
  recorded and a payload differs from it exactly where a row was edited, so that a row
  is intact if and only if it was not (`AuditEditFound`, `EditFound`; the second
  conjunct of `verifyChain`, the link to the row below, holds by `Linked`). `Numbered`:
  a tenant's rows are finitely many, with the indexes from 0 without a gap, so that
  the insert of a row at the next index is an append to the sequence of payloads
  (`AuditImplementsLog`, `ImplementsLog`). Counting the rows replaces an induction
  along the chain.
* `TicketIntake_proofs`: a request at work works on the ticket it created itself, and
  nobody is told anything before the end (`WorksOnOwn`, for `OneTicketPerKey`). What
  the row or a worker says of attempts is less than what was tried, however stale it
  is (`Counted`, for `CallbackNotLost`): a callback may be tried too often, but is not
  given up too early. While nothing is in doubt one worker at most is past reading the
  row (`AloneAtWork`, for `CallbackOnce`), which needs that the row is queued once, by
  the request that created the ticket (`QueuedOnce`). Theorems: `IntakeTypes`,
  `OneTicketPerKey` (`OneTicket`), `CallbackNotLost` (`NotLost`), `CallbackOnce`
  (`ReceivedOnce`), and `SetBacksEnd`, for every number n: once the row is past n
  attempts it stays past them; only workers that have read n set it back to n + 1, and
  they get no more (`Behind`); when they have left, everything is above n. So each
  number is passed for good after finitely many set-backs.
* `TicketAndChange_proofs` is about the two records that are written without a version
  and that approvals hold back. The definitions of `ChangeControl` carry the name of
  the change where the two modules would clash.
  * The ticket: nothing is known of what a call read once another has written, so
    `ResolutionKeepsStamp` (`ResolvedStamped`) rests on the shape of the patches alone
    (`Sound`: a stamp is taken away by a reopening only, and a resolution writes or
    keeps one) and on the second read that `mutateTicket` makes for a resolution.
    `ClockInStep` (`InStep`) and `RepliesHeld` (`HeldForApproval`) are about calls that
    follow one another: there the row that was read is the row that is there
    (`Current`). `LegacyTypes` is the type invariant.
  * The change: unless other calls overlapped or one failed, a pending approval
    belongs to one call (`Apart`, `Rightly`), what a call is about to make of the change
    follows from the approvals as they are, and a submitted change has a pending
    approval or a call that will move it (`Awaits`). Theorems: `ChangeTypes`
    (`ChangeTypeOK`), `AllVotesCount` (`VotesCount`).

Only model-checked: the liveness properties, since fairness and `ENABLED` are beyond the
prover (`ResolutionSettles`, `DeliverySettles`, `EveryTicketMonitored`,
`ResolvedCloses`, `VotesAdvance`, `AppendEnds`, `IntakeCompletes`, `CallbackSettles`,
`EveryMailRead`). Behind `VotesAdvance`, the safety half is proved: `Awaits` says that a
change whose votes are all in has a call that will move it; behind `CallbackSettles` it
is `SetBacksEnd`.

## 7. Plan

Done: the ticket workflow and its custody, outbox and sweep, legacy tickets, changes,
audit chain, intake with callbacks, inbound mail, accounts.

Left, in this order:

1. The configuration of buckets against open and reopened tickets.
2. Several rows competing for the twenty places of an outbox sweep, and the sweep
   composed with outbox and monitor.
3. Links and merging of tickets (two rows, two writes), the recursion guard of
   automation rules, round-robin assignment.
4. The arithmetic of the SLA clock: due dates shifted by pauses and policy changes.
5. Sign-in with its counter of failed attempts; password changes.
6. Theorems: abstract specifications of the outbox (one mail, sent or given up) and of
   the sweep (scans that visit every ticket), and their refinement.

## 8. Not modelled

The storage drivers are taken at their word (atomic transactions, `updateIf`; the
conflicts of serializable transactions are in `AuditChain`).
Prompts, scoring and parsing, calendars, wording of mails, HTTP, permission
tables, storage of attachments, reports and the user interface are left out: they
hold no protocol state, or compute data that no property here depends on. Most of the
repository's lines are of this kind: React components, and `.agents/`, which holds
tools for drawing diagrams that the service desk does not run. Departments, assets,
problems, articles and API keys are rows that are created and edited without any
interplay of calls. The remaining parts of section 1 are in the plan.
