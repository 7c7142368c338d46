# Verification of the ticket system

The repository is a ticket back end: an HTTP API and a worker process that
share a SQL Server database and two BullMQ queues on Redis. Its core is
automatic reassignment. A ticket without activity for one SLA is handed to
another agent, and after a number of those to an administrator. This directory
holds TLA+ models of that core, of the worker processes and their queues, of the
ticket queries and of the auth module, the TLC runs that check them, and
theorems about each of them that TLAPS proves for every value of the constants.

Paths are relative to the repository; `tickets/` stands for
`src/modules/tickets/` and `auth/` for `src/modules/auth/`.

## 1. Inventory

| Component | State | Operations | Correct when |
|---|---|---|---|
| Ticket rules (`tickets/domain/ticket.entity.ts`) | none | `isTicketActive`, `isOverdue`, `canTransition`, `computeSlaDueAt` | active, due and overdue agree wherever they are used |
| Ticket requests (`tickets/application/{create,assign,add-comment,change-status}*`) | `Ticket`, `TicketAssignment` | read, check, take the time, update, record, publish | their writes never mislead a running reassignment; a check covers the new activity |
| Automatic reassignment (`reassign-ticket.usecase.ts`, `commitAutoReassignment`) | the same rows | check, pick, commit under the row lock, publish | only overdue tickets, once per lapse, at most the maximum, history true |
| Strategies (`tickets/application/strategies`) | cursor of round robin | `pickNextAssignee` | never the present assignee |
| Event bus and subscribers (`shared/events`, `subscribers/`) | handlers in memory | publish to audit, notifications, scheduler | what is announced happened |
| Queue, jobs, sweep (`src/jobs`) | delayed jobs, one repeated job | schedule, take, sweep, retry after a stall | no overdue ticket is forgotten |
| Worker processes and notifications (`src/jobs/worker.ts`, `notification.worker.ts`, `queue.ts`) | attempts, locks and stalls of the jobs in Redis | start, register the sweep, consume, close, crash | stops are clean, jobs settle, repeats are bounded |
| Sessions (`auth/`) | `RefreshToken` | login, refresh, logout | a rotated token is of no further use; a retired one is not rotated again; a reuse ends nobody else's sessions |
| Accounts and permissions (`src/modules/users`, `shared/auth`, `shared/middlewares/auth.middleware.ts`) | `User`, signed tokens | register, sign, authenticate, authorize | the documented table; stale authority ends |
| Ticket queries (`get-tickets.usecase.ts`) | none, but clients page by offset | list, read | what is listed is readable; a walk misses and repeats only for a reason |
| HTTP validation, errors, rate limit, configuration, logger, connections | none of the program's | I/O and conversion | not modelled (section 7) |

How they interact. A controller calls one use case per request. The use case
reads and writes the database, one statement per `await`, and publishes an
event on the in-process bus. The bus runs the subscribers: one appends to the
audit table, one queues notifications, one queues a delayed job that carries
the activity instant of its event. The worker takes due jobs and runs the
reassignment use case, which publishes on the worker's own bus with the same
subscribers. A repeated job, the sweep, runs the same use case for a limited
batch of overdue tickets.

What is hard. The requests have no transaction around read and write. Only
`commitAutoReassignment` locks and compares, and it compares one column.
Instants are taken before they are written. Publication comes after the commit
and may be lost. Jobs are attempted once but delivered again after a stall.
The sweep is limited and ordered. Worker processes start, close and crash while
jobs run, and a handler that fell behind goes on after its job was given to
another. Clients page through a list that changes under them. `PROJECT.json` lists each hazard at its line
with the properties that watch it.

## 2. Modules

| Module | Content |
|---|---|
| `TicketEntity` | the pure rules of a ticket |
| `TicketReassignment` | the core: requests, event bus, jobs, sweeps, executions, faults, clock |
| `TimelyReassignment` | its properties, its inductive invariant `IInv`, the link to `SlaPromise` |
| `SlaPromise` | the abstract specification: reassignment as one atomic step |
| `DocumentedClaims` | statements of the repository's own documents that the core does not keep |
| `RefreshTokens` | sessions: login, refresh, logout, with their properties and the link to `SessionPromise` |
| `SessionPromise` | the abstract specification: sessions as chains of tokens |
| `AccessControl` | accounts, access tokens, permissions of routes, with their properties |
| `WorkerProcesses` | the worker processes and the jobs of both queues, with their properties |
| `TicketQueries` | the list and the single read next to writers, with their properties |
| `ReassignmentTypes` | proof of `TypeOK` |
| `ReassignmentSafety` | proof of `IInv` and of the safety properties that follow |
| `PromiseRefinement` | proof that the core implements `SlaPromise`, and of `CapRespected` on its steps |
| `EventProofs` | proofs about what is published: announcements, checks, and the batch of a sweep |
| `SessionProofs` | proofs about `RefreshTokens`, its refinement of `SessionPromise` included |
| `AccessProofs` | proofs about `AccessControl` |
| `WorkerProofs` | proofs about `WorkerProcesses` |
| `QueryProofs` | proofs about `TicketQueries` |
| `MC*` | what TLC needs of each instance |

Definitions named `Bad...` are no part of a model. Each is the definition after
it with one plausible mistake, and shows that a property would notice it.

### TicketReassignment and the code

One step is the code between two awaits.

| Steps | Code |
|---|---|
| `BeginCreate`, `InsertTicket`, `RecordAssignment`, `PublishRequest` | `CreateTicketUseCase.execute`; the time is taken first, the assignee looked up after |
| `ReadForComment`, `TakeInstant`, `WriteComment`, `PublishRequest` | `AddCommentUseCase.execute` |
| `ReadForAssign`, `TakeInstant`, `WriteAssign`, `RecordAssignment`, `PublishRequest` | `AssignTicketUseCase.execute`; the lookup of the assignee lies between the first two |
| `ReadForStatus`, `TakeInstant`, `WriteStatus`, `PublishRequest` | `ChangeStatusUseCase.execute` |
| `TakeJob`, `Sweep` | the two branches of `createReassignmentProcessor` |
| `CheckTicket`, `PickAssignee`, `GiveUp`, `CommitReassignment`, `LoseRace`, `PublishBreach`, `PublishReassigned` | `ReassignTicketUseCase.execute`, `escalate`, `commitAutoReassignment` |
| `StopRequest`, `StopExecution`, `Stall` | a process that stops, a statement that throws, a worker that loses its job lock |
| `PublishEvent` (within the steps) | `InProcessEventBus.publish` and the three subscribers |

The state is `now`, the table `ticket`, its `history`, the waiting `jobs`, what
audit log and notification queue received (`delivered`), one record per request
(`req`) and per execution (`exec`), and a count of `faults`. A request record
holds the variables the code keeps across awaits, so a stale snapshot in the
code is a stale record here.

Abstractions of the core:

- One clock serves every process. The sweep's query and the instants of the
  executions it starts fall in one step; each execution reads its row in a step
  of its own.
- The start of an execution (`clock.now()`) and its read are separate steps.
- A publication is one step with any set of failing subscribers. A process that
  stops half-way through it appears as the remaining subscribers failing.
- Users are active and exist: no code removes or deactivates them. Tickets are
  never deleted. A request that a check refuses has no effect and no step.
- Users are numbers, ordered as `localeCompare` orders their ids.
- Title, description, priority and comment text are left out, and of the events
  what no subscriber or property tells apart. `priority` plays no part in
  reassignment.
- `RequestLatency` bounds the ticks between the instant a request takes and its
  write. `Tick` waits for it.

### SlaPromise

Its state is the clock, the table and the history. People may do anything to a
ticket at any time, as long as what they write carries an instant less than one
SLA old. Reassignment is one step, taken on a ticket overdue in that state,
naming the user the row really had, below the maximum away from that user to an
agent, and at the maximum to an administrator with no due date. The refinement
mapping is the identity on the three variables. The whole of the interleaving,
snapshots and retries is hidden.

### RefreshTokens and AccessControl

`RefreshTokens` has one record per auth call. `ReadForRefresh`, `Issue`,
`Create`, `Rotate`, `Reply` are the steps of `RefreshTokenUseCase.execute`,
`RevokeAllForUser` its reuse branch, `ReadForLogout` and `RevokePresented` those
of `LogoutUseCase.execute`. `Issue` computes the expiry, `Create` inserts the row
at any time after that (`auth/application/token-issuer.ts:30`, `:32`). `StopCall`
stops a call anywhere, also between the last write and the answer. A client may
present any token it was ever given. Users are active and passwords right; other
logins change nothing.

The code takes the instant of `revokedAt` before the statement that writes it, but
only asks whether there is one. A row therefore has `revoked`, a Boolean, and the
history variable `retired` has the instant at which the statement that first
revoked the row took effect, for the properties alone.

`AccessControl` has the `User` table, the signed tokens, and the calls that sign
in and register. A request is let through by `Authenticated` and `Authorized`,
which look at the token alone. `ChangeUser` is external: the code checks
`isActive` and `role` but only the administration of the database changes them.
The verifier of the JWT library accepts a token up to and including its expiry;
`Authenticated` follows it.

### SessionPromise

Its state is one session per token (owner, predecessor, alive or retired) and the
tokens clients hold. A login opens a chain, a refresh continues the chain of a
held token, a client gets a successor only when its predecessor is retired,
retired is for ever, and all tokens of a user at once are retired only by
presenting a retired token of that user. The mapping of `RefreshTokens` reads
owner and life from the row, and the predecessor from the call that issued the
row. Expiry, `replacedById`, the awaits and the stops are hidden.

### WorkerProcesses

| Steps | Code |
|---|---|
| `Boot`, `FinishBoot`, `FailBoot` | `bootstrapWorker`: both workers consume from their construction on; the sweep is registered and the signal handlers are installed after an await; a failure exits |
| `Shutdown`, `Exit` | the signal handler, which closes the workers and exits when their handlers have ended |
| `Kill`, `FailBoot` (by `Crash`) | the process is gone, its active jobs stay in Redis |
| `Enqueue`, `Repeat`, `Take`, `Perform`, `Complete`, `Fail`, `Retry` | the life of a job: added, taken within the concurrency, done, thrown, tried again |
| `Stall`, `FinishLate` | a job whose lock expired goes back, or fails; its handler goes on, and what it does counts although its report is refused |

What a job does is one effect here; what it does to tickets is
`TicketReassignment`. The sweep is one job that comes again. Locks, stalls,
attempts and repetition are the queue library's, modelled from the options the
code gives it and mapped as external. Each record keeps the history of its job
(`made`, `stalled`, `starts`, `effects`), which the properties count.

### TicketQueries

`Pages` is the query of `PrismaTicketRepository.list`: the filter, the order by
`createdAt` alone, the offset and the limit. Rows of one instant may come in any
order, each time anew, as the database promises no more. `Scope` and `Readable`
are the two rules of visibility of `GetTicketsUseCase`. `OpenList` and `NextPage`
are a client that asks for one page after the other until one is short, which is
all the API offers. `CreateTicket`, `Reassign` and `ChangeStatus` are the writes
of the other use cases as far as the queries see them; `ChangeStatus` may write
any status, since its check reads an earlier row (`ClaimClosed`). `stayed`,
`entered` and `left` record what changed since the first page, for the properties
alone.

## 3. Runs

All instances are small on purpose: one request, one worker and one sweep are
enough for a race between a person and both triggers, two requests and the job of
an earlier one for writes and publications in any order. In `MCSweep` the batch
holds both tickets, so that nothing competes for a place in it; what happens when
the batch is too small is `ClaimSweep` (section 4).

| Run | Instance | Shows |
|---|---|---|
| `MCRace` | 1 ticket, 1 request of any kind, a worker slot, a sweep slot, clock to 4 with SLA 2, maximum 1, one fault | `CapRespected`, `SnapshotsSound`, `ReassignsOnlyOverdue`, `ReassignmentsSpaced`, `AutoHistoryTrue`, and step by step `PromiseSpec` |
| `MCSweep` | 2 tickets, no worker slot, so that no deferred job ever runs, one fault, fairness | `EveryLapseEnds` |
| `MCEvents` | 2 tickets, one of them from its creation on, 2 requests, a worker, one stopped process or failing subscriber | `TypeOK`, `ReassignmentsAnnounced`, `AnnouncementsTrue`, and `ChecksCoverTickets`: a running SLA has a check of the present activity queued, running or about to be queued, but for at most one ticket after the fault |
| `MCTokens` | 2 users, 3 tokens, 4 calls, clock to 2 with lifetime 2, one stopped call | `TypeOK`, `SuccessorRetiresToken`, `RotatedBeforeRevoked`, `SessionSpec` |
| `MCAccess` | founder and one email, 3 calls, clock to 4 with lifetime 1, one outside change | `AuthorityExpires`, `RoutesFollowTable`: a valid token passes the routes the documented table grants its role, and no other |
| `MCWorkers` | 2 processes, one notification and the sweep, 2 attempts, 1 stall forgiven, concurrency 1, 2 crashes, fairness | `TypeOK`, `StopsAreClean`, `StartsBounded`, `DuplicatesExplained`, `JobsSettle`, `SweepsKeepComing` |
| `MCQueries` | 3 tickets, an agent and a USER, one client, pages of 1 or 2, six filters, clock to 2, 5 changes | `TypeOK`, `PagesComplete`, `RepeatsExplained`, `ListedIsReadable` |

Bounds. `MaxTime` lets a ticket lapse, be reassigned and lapse again: the clock
reaches twice the SLA, which is the shortest run in which an escalation follows a
reassignment when the maximum is 1. `MaxFaults` is 1, since a second fault only
combines effects that are each covered. `Observed` leaves the audit log and the
notification queue empty in runs that do not read them. The counter of
reassignments is bounded by the clock. Requests are executed once each.

In `MCEvents` two users make a ticket that nobody can take possible, which is the
one exception of `ChecksCoverTickets` (`Abandoned`). In `MCWorkers` the sweep
stands for the queue of reassignments: a check has the same options and never
comes again. One attempt that fails and one that stalls are the shortest way to
confuse retries with stalls; one process may crash twice or both once.
`MCQueries` has room for three pages of one, for a ticket that comes in above and
one that leaves below between two of them, and for two tickets of one instant.

Deadlock is checked in `MCWorkers`, where processes can always start again. In
the other runs requests are one-shot and the clock is bounded, so every behaviour
ends. Symmetry is used for requests, tokens, calls and tickets, in runs without
liveness.

Fairness of the core (`FairSpec` of `TicketReassignment`) covers the worker
alone: a due job is eventually taken, an execution that was started eventually
takes its next step, a sweep is eventually started when there are overdue tickets
and its slot is free. The code justifies it by the running BullMQ worker
(`src/jobs/worker.ts:17-26`) and the repeated job (`src/jobs/worker.ts:40-45`).
Nothing is assumed of requests or of the clock, and a stopped execution is not
resumed.

Fairness of `WorkerProcesses`: a process that has begun to start goes on; a
waiting job is taken if it can be again and again (strong fairness, since the
queue is served in order and none is passed over for ever); handlers, late ones
included, end one way or another; the library repeats, retries and finds stalled
jobs. Nobody has to start a process or to keep it up, so `JobsSettle` and
`SweepsKeepComing` are conditional: in the end there is always a process that
consumes. That is the restart policy of the deployment, which is outside the
repository.

## 4. Where code and documents differ

Each of these is a run that finds a counterexample to a documented statement.

| Run | Statement | What happens |
|---|---|---|
| `ClaimClosed` | a CLOSED ticket is terminal (`tickets/domain/ticket.entity.ts:46`) | two status changes read OPEN; one closes, the other reopens |
| `ClaimAudit` | complete audit of who had the ticket (`prompt.md:75`) | two assignments write rows and history in opposite orders |
| `ClaimSweep` | the sweep leaves no ticket unreviewed (`src/jobs/reassignment.job.ts:24-25`) | a ticket without candidates stays first in a full batch; the next is never reached |
| `ClaimFamily` | a reuse revokes the whole family of tokens of the user (`auth/application/refresh-token.usecase.ts:14-15`) | a refresh that read its token earlier inserts the successor after `revokeAllForUser`, and the successor lives |
| `ClaimRotation` | `replacedById` is the token that replaced it (`prisma/schema.prisma:58`) | a logout that read first overwrites the link with null |

`ClaimSweep` uses a batch of one; with the 200 of the worker it takes 200 such
tickets. Other differences were seen and have no run:

- creation with an assignee publishes `TicketCreated` alone, which does not notify
  the assignee, unlike `tickets/application/create-ticket.usecase.ts:22-23`;
- a ticket with no candidate is not escalated although
  `tickets/domain/reassignment.strategy.ts:16-17` says so;
- `findOverdue` takes unassigned tickets and no `READPAST` hint, unlike
  `tickets/domain/ticket.repository.ts:69-70`;
- the list of a USER leaves out tickets assigned to that user, unlike
  `tickets/application/get-tickets.usecase.ts:7-8`; the other direction holds,
  `ListedIsReadable`.

## 5. Proofs

The theorems hold for every set of tickets, users, requests, workers and sweeps,
every SLA, maximum, limit and clock bound that satisfy the named assumptions:
`NullAssumption`, `ParameterAssumption`, `NullIsNoRow`, `NullIsNoJob` and
`LatencyAssumption`. `ParameterAssumption` asks for finitely many tickets that
exist at the start, as a table has; the `NullIs...` say that the absent value is
not a value. The last is the one with content: a request writes less than one SLA after the
instant it writes. Without it `IInv` fails: a delayed write could carry an
activity instant older than the row's due date and make a stale snapshot look
current.

| Theorem | Says |
|---|---|
| `TypesCorrect` | `Spec => []TypeOK` |
| `Inductive` | `Spec => []IInv` |
| `SnapshotsAlwaysSound` | `Spec => []SnapshotsSound` |
| `OnlyOverdueReassigned` | `Spec => ReassignsOnlyOverdue` |
| `OneReassignmentPerLapse` | `Spec => ReassignmentsSpaced` |
| `HistoryTellsTheTruth` | `Spec => AutoHistoryTrue` |
| `Refinement` | `Spec => PromiseSpec` |
| `CapHolds` | `Spec => []CapRespected` |
| `AnnouncedIsTrue` | `Spec => []AnnouncementsTrue` |
| `ReassignedIsAnnounced` | `Spec => []ReassignmentsAnnounced` |
| `ChecksAlwaysComing` | `Spec => []ChecksCoverTickets` |
| `SweepFindsBatch` | a sweep that sees overdue tickets always has a batch to take |

The other components are proved for any number of tokens, users, calls,
processes, jobs, tickets and readers, under the named assumptions of their
modules (`TokenAssumption`, `AccessAssumption`, `WorkerAssumption`,
`QueryAssumption` and the like), which only say what the constants are.

| Theorem | Says |
|---|---|
| `SessionTypes`, `RotationRetires`, `RevokedIsNotRotated` | the three invariants of `MCTokens` |
| `SessionRefinement` | `RefreshTokens` implements `SessionPromise` |
| `AuthorityEnds` | `Spec => []AuthorityExpires` of `MCAccess` |
| `WorkerTypes`, `CleanStops`, `StartsAreBounded`, `DuplicatesNeedStalls` | the four invariants of `MCWorkers` |
| `QueryTypes`, `ListedStaysReadable`, `PagesMissNone`, `RepeatsAreExplained` | the four invariants of `MCQueries` |

The argument. The guard of the commit compares `lastActivityAt` and the status,
yet what has to be known is that the row is still overdue and unassigned to
anybody else. `IInv` says why the comparison is enough:

- `RowsDated`: a due date is exactly one SLA after the activity of its row.
- `RequestsTimely`: an instant about to be written is at most `RequestLatency` old.
- `SnapshotSound`: the snapshot of an execution was overdue at its instant, and
  the row is either the snapshot itself or has a later activity.

A request writes an instant less than one SLA old. A snapshot overdue now has an
activity at least one SLA old. So whoever writes after the snapshot leaves a
later activity than the snapshot's, and so does another execution, whose instant
is at least one SLA after the activity it replaces. Equal activity therefore
means an equal row, and every property of the snapshot (overdue, count, assignee)
is one of the row at the commit. `TypeOK` alone is not inductive for this, and
`SnapshotsSound` needs the other two parts.

The refinement and the history property follow from that equality. The cap is
proved on the steps of the promise: the number of `AUTO_REASSIGN` rows is at
most the count of the row, and the promise only adds one below the maximum.

Announcements. `AnnouncementInv` says that every instant that was announced, or
is about to be, for a ticket is `Behind` its row: less than one SLA after the
activity of the row, while the next reassignment is dated one SLA after it or
later. Announcements of one ticket are therefore distinct and can be counted against the `AUTO_REASSIGN` rows
of its history. What is missing is an execution still on its way to the
publication, or a fault.

Checks. `CheckInv` says that a job falls due no earlier than its expected activity
plus one SLA, so an execution started from a job whose activity is still that of
the row finds the row overdue and does not stop at `not_overdue`. Each step then
hands the witness on: from the queue to the execution, from the execution to its
publication, from the publication of a write to a new job. An execution ends with
nobody picked only if there are no candidates, because the order by load has a
least element; that ticket is `Abandoned`. A step touches one ticket only
(`OneTouched`), so a fault adds at most one to the tickets without a check.

Choices. A strategy and a sweep both take the first of an order, which exists
because finitely many naturals have a least. `SweepFindsBatch` is what makes the existential in `StartSweep` no
hidden guard: a sweep is never blocked for want of a batch.

Sessions. The inductive invariant of `SessionProofs` has three parts. `Tables` is
the types. `Issuers` says that each row was issued by exactly one call, which makes
the predecessor in the refinement mapping well defined and constant. `CallFacts`
says of each call how its step, kind and outcome fit together, that what it
presented is held and belongs to its user, that a refresh read its token before
any revocation of it, and that the token is retired before the answer leaves. A
revocation never undone is what carries all of it from step to step: no statement
sets `revokedAt` back. `RotatedBeforeRevoked` compares the read of a refresh with
`retired`, the effect of the revocation, so it does not depend on when a call took
the instants it writes. The proof of the refinement goes action by action: reads,
`Issue`, stops and ticks stutter, `Create` is `Open` or `Succeed`, a revocation is `Retire`
or stutters when the row was retired meanwhile, `RevokeAllForUser` is `EndFamily`.

Access. A call that signs holds a role that was current when it read it, and the
row is either unchanged or was changed later; signing is bounded by `SignLatency`
and the token by its lifetime, so authority an account has lost ends after the sum.

Workers. `Books` balances the history of a job: starts are failed attempts plus
forgiven stalls plus the one that is running or was the last, and the effects
done, those still to come from late handlers, and the one the job waits for
exceed one by no more than the stalls. `Hosted` says where the handlers are.

Queries. `Listed` says that the walk of a USER keeps the filter by creator and
that all it saw was created by that user; no write changes the creator of a row.
`OffsetInv` counts the rows above a ticket: one that is alone at its instant is
among the first `n` of the query exactly if fewer than `n` matching rows are newer
(`LeadingPlace`). While nothing leaves the list that number never falls, so what
the walk passed without showing has at least `offset` newer rows and is still
ahead; while nothing comes in above, what it showed has fewer and cannot be shown
again.

Only model-checked: `EveryLapseEnds`, `JobsSettle` and `SweepsKeepComing`.
Liveness under fairness is beyond the prover. `RoutesFollowTable` is left to the
run as well: it compares three tables of constants with the documented one, and
TLC evaluates all of them. Every other safety property of the passing runs is
stated by a theorem.

## 6. What the checks say about the code

- The optimistic guard is sound although it compares a timestamp, as long as the
  SLA exceeds the latency of a request. With `TICKET_SLA_MINUTES=0`, which the
  configuration accepts, nothing here applies.
- The cap holds over the whole life of a ticket: the count never falls, so after
  the first escalation every further lapse escalates again.
- Deferred jobs alone cover every running SLA while nothing fails, unless nobody
  can take the ticket. After a crash between commit and publication, or a failed
  subscriber, only the sweep does.
- Announcements of reassignments are true but may be missing, one per fault.
- Each fault leaves at most one ticket to the sweep, however many tickets there are.
- A refresh whose answer is lost costs the user all sessions: the client can only
  present the revoked token, which counts as reuse. It costs no other user any.
- A reuse ends the tokens that exist at that moment. A refresh under way may still
  add a live successor (`ClaimFamily`), but no refresh that reads one of those
  tokens later does (`RotatedBeforeRevoked`).
- Of two registrations of one email that both found it free, the unique index
  decides, and the loser gets an error of the database.
- A stop by signal strands no job, once the handlers of the signals are installed;
  before that, and after a crash, jobs come back by way of a stall.
- Retries alone never send a notification twice. A stall may, once per stall that
  is forgiven, because the handler that fell behind goes on.
- The sweep outlives every process: it is registered in Redis, and starting a
  process registers it again without a second copy.
- A walk through the list by offsets may miss a ticket that was there all the time
  when another leaves the list before it, and may list one twice when another
  comes in. Without departures, and with instants of their own, nothing is missed.

## 7. Not modelled

- Validation of inputs, error formatting, rate limiting, configuration, logging,
  hashing, connections, schema and seed are I/O, conversions or library calls
  without state of the program's own. The values they yield are constants.
- `app.ts`, `main.ts` and `server.ts` are wiring. Which strategy and subscribers
  exist is taken from them. A stop of the API process is what `StopRequest` and
  `StopCall` do to the requests under way.
- `RoundRobinStrategy` is wired nowhere. `LeastLoadedStrategy` is the one modelled.
- The content of a notification: its processor logs and does nothing else.
- Two sweeps at once are in the core (sweep slots and stalls); `WorkerProcesses`
  follows one instance of the sweep at a time.

## 8. Plan

Done in this order: `TicketEntity`, `TicketReassignment`, `TimelyReassignment`
with its runs, `SlaPromise`, `DocumentedClaims`, the proofs of the core,
`RefreshTokens`, `AccessControl`, `SessionPromise`, `TicketQueries`,
`WorkerProcesses`, the proofs of those four components, then those of the
announcements, the deferred checks and the pages of the list (`EventProofs`,
`QueryProofs`).

Left, in this order:

1. Bounds the runs cannot state for every size: the share of a sweep that can be
   lost to tickets without a candidate, as a theorem about `OverdueTickets`.
2. That every query of the list has a page, as `SweepFindsBatch` says of a sweep.
3. `RoundRobin`, if it is wired: the shared cursor against a reference rotation.
