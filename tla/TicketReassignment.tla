------------------------- MODULE TicketReassignment -------------------------
(***************************************************************************)
(* The core of the system: API requests that create, comment, assign and    *)
(* change the status of tickets, and worker executions that reassign the    *)
(* tickets whose SLA fell due, all of them against the same Ticket rows.    *)
(*                                                                          *)
(* An API request reads the row, decides on that snapshot, takes the time,  *)
(* writes the row unconditionally, records the assignment and publishes its *)
(* event.  An execution of ReassignTicketUseCase takes the time, reads and  *)
(* checks the row, picks the next assignee, commits in a transaction that   *)
(* checks the row again, and publishes.  Each await between two accesses to *)
(* the database or to Redis is a point where the others may run, and where  *)
(* the process may stop.                                                    *)
(*                                                                          *)
(* A definition whose name starts with Bad is no part of the model: it is   *)
(* the definition after it with one plausible mistake, which the properties *)
(* of TimelyReassignment must notice.                                       *)
(***************************************************************************)
EXTENDS TicketEntity, FiniteSets, Sequences

CONSTANTS
  Tickets,              \* ticket ids the database may hand out
  Preexisting,          \* tickets created, by completed requests, at instant 0
  Users,                \* ids of the active users, ordered as localeCompare does
  Agents, Admins,       \* the users of role AGENT and of role ADMIN
  Requests,             \* API requests, each executed once
  RequestKinds,         \* the operations the requests may ask for
  Workers,              \* slots that execute deferred check-reassignment jobs
  Sweeps,               \* slots that execute sweep jobs
  SLA,                  \* slaMinutes, in ticks
  MaxAutoReassignments, \* reassignments before a ticket is escalated
  SweepLimit,           \* sweepLimit of jobs/worker.ts
  RequestLatency,       \* ticks from the instant a request takes to its write
  MaxTime,              \* bound of the clock
  MaxFaults,            \* bound on stopped processes and failing subscribers
  FailingSubscribers,   \* the subscribers that may fail
  Observed              \* which of the audit log and the notification queue
                        \* the instance keeps the contents of

ASSUME ParameterAssumption ==
  /\ NULL \notin Tickets
  /\ Preexisting \subseteq Tickets /\ IsFiniteSet(Preexisting)
  /\ Users \subseteq Nat /\ Agents \subseteq Users /\ Admins \subseteq Users
  /\ SLA \in Nat \ {0}
  /\ MaxAutoReassignments \in Nat
  /\ SweepLimit \in Nat
  /\ RequestLatency \in Nat
  /\ MaxTime \in Nat /\ MaxFaults \in Nat
  /\ IsFiniteSet(FailingSubscribers)
  /\ Observed \subseteq {"audit", "notification"}

VARIABLES
  now,       \* the clock every process reads
  ticket,    \* the Ticket table: a row, or NULL while the id is not in use
  history,   \* the TicketAssignment rows of each ticket, in insertion order
  jobs,      \* the check-reassignment jobs that wait in the queue
  delivered, \* the events the audit log and the notification queue received
  req,       \* the progress of each API request
  exec,      \* the progress of each execution of ReassignTicketUseCase
  faults     \* faults so far

vars == <<now, ticket, history, jobs, delivered, req, exec, faults>>

-----------------------------------------------------------------------------
(* The data *)

SweepLanes == Sweeps \X Tickets

(* An execution runs for a deferred job in a worker slot, or for one ticket *)
(* of the batch of a sweep.                                                 *)
Lanes == Workers \cup SweepLanes

TicketRow ==
  [status : TicketStatus, assigneeId : Users \cup {NULL}, lastActivityAt : Nat,
   slaDueAt : Nat \cup {NULL}, autoReassignCount : Nat]

ASSUME NullIsNoRow == NULL \notin TicketRow

AssignmentReason == {"MANUAL", "AUTO_REASSIGN", "ESCALATION"}

Assignment ==
  [fromUserId : Users \cup {NULL}, toUserId : Users, reason : AssignmentReason]

Job ==
  [by : Requests \cup Lanes \cup {NULL}, ticketId : Tickets,
   expectedLastActivityAt : Nat, due : Nat]

ASSUME NullIsNoJob == NULL \notin Job

EventName ==
  {"TicketCreated", "TicketAssigned", "TicketReassigned", "TicketStatusChanged",
   "TicketCommented", "SLABreached"}

(* userId is the assignee the event names; reason and slaDueAt belong to    *)
(* TicketReassigned and to to TicketStatusChanged.                          *)
Event ==
  [name : EventName, ticketId : Tickets, occurredAt : Nat,
   userId : Users \cup {NULL}, reason : AssignmentReason \cup {NULL},
   slaDueAt : Nat \cup {NULL}, to : TicketStatus \cup {NULL}]

TicketEvent(name, t, at) ==
  [name |-> name, ticketId |-> t, occurredAt |-> at, userId |-> NULL,
   reason |-> NULL, slaDueAt |-> NULL, to |-> NULL]

(* What a request keeps between two awaits.  fromUserId is what it read of  *)
(* the assignee, the rest is its command and the instant it took.           *)
Request ==
  [pc : {"new", "read", "decided", "written", "publish", "done"},
   kind : {"create", "comment", "assign", "status"},
   ticketId : Tickets \cup {NULL}, assigneeId : Users \cup {NULL},
   fromUserId : Users \cup {NULL}, to : TicketStatus, now : Nat]

(* What an execution keeps between two awaits: the instant it took, the job *)
(* it runs for (NULL for a sweep), the row it read and the chosen user.     *)
Execution ==
  [pc : {"idle", "read", "pick", "commit", "breach", "publish"},
   now : Nat, ticketId : Tickets \cup {NULL}, job : Job \cup {NULL},
   snap : TicketRow \cup {NULL}, toUserId : Users \cup {NULL}]

NewRequest ==
  [pc |-> "new", kind |-> "create", ticketId |-> NULL, assigneeId |-> NULL,
   fromUserId |-> NULL, to |-> "OPEN", now |-> 0]

Finished == [NewRequest EXCEPT !.pc = "done"]

Idle ==
  [pc |-> "idle", now |-> 0, ticketId |-> NULL, job |-> NULL, snap |-> NULL,
   toUserId |-> NULL]

CreatedRow(assignee, at) ==
  [status |-> "OPEN", assigneeId |-> assignee, lastActivityAt |-> at,
   slaDueAt |-> ComputeSlaDueAt(at, SLA), autoReassignCount |-> 0]

AssignmentRow(from, to, reason) ==
  [fromUserId |-> from, toUserId |-> to, reason |-> reason]

CreatedEvent(t, assignee, at) ==
  [TicketEvent("TicketCreated", t, at) EXCEPT !.userId = assignee]

NewJob(publisher, t, at, due) ==
  [by |-> publisher, ticketId |-> t, expectedLastActivityAt |-> at, due |-> due]

-----------------------------------------------------------------------------
(* The event bus and its three subscribers *)

BadSchedulesCheck(e) ==
  \/ e.name \in {"TicketCreated", "TicketAssigned", "TicketCommented"}
  \/ e.name = "TicketStatusChanged" /\ IsTicketActive(e.to)

(* reassignment-scheduler.subscriber.ts *)
SchedulesCheck(e) ==
  \/ e.name \in {"TicketCreated", "TicketAssigned", "TicketCommented"}
  \/ e.name = "TicketReassigned" /\ e.slaDueAt # NULL
  \/ e.name = "TicketStatusChanged" /\ IsTicketActive(e.to)

BadReceives(s, e) ==
  s = "audit" \/ e.name \in {"TicketAssigned", "SLABreached"}

NotifiedEvents == {"TicketAssigned", "TicketReassigned", "SLABreached"}

(* audit.subscriber.ts listens to every event, notification.subscriber.ts   *)
(* to three of them.                                                        *)
Receives(s, e) ==
  s = "audit" \/ (s = "notification" /\ e.name \in NotifiedEvents)

(* InProcessEventBus.publish: every subscriber runs, the failure of one is  *)
(* logged and neither the others nor the publisher notice.                  *)
PublishEvent(e, publisher) ==
  \E failing \in SUBSET FailingSubscribers :
    /\ faults + Cardinality(failing) <= MaxFaults
    /\ faults' = faults + Cardinality(failing)
    /\ jobs' = IF "scheduler" \notin failing /\ SchedulesCheck(e)
                 THEN jobs \cup {NewJob(publisher, e.ticketId, e.occurredAt, now + SLA)}
                 ELSE jobs
    /\ delivered' = [s \in Observed |->
                       IF s \notin failing /\ Receives(s, e)
                         THEN delivered[s] \cup {e} ELSE delivered[s]]

-----------------------------------------------------------------------------
(* The API requests *)

(* CreateTicketUseCase takes the time first, then looks its assignee up.    *)
(* The id is a fresh uuid.                                                  *)
BeginCreate(r, t, u) ==
  /\ req[r].pc = "new"
  /\ "create" \in RequestKinds
  /\ ticket[t] = NULL /\ \A other \in Requests : req[other].ticketId # t
  /\ req' = [req EXCEPT ![r] = [NewRequest EXCEPT !.pc = "decided", !.kind = "create",
                                   !.ticketId = t, !.assigneeId = u, !.now = now]]
  /\ UNCHANGED <<now, ticket, history, jobs, delivered, exec, faults>>

BadAfterInsert(q) == "written"

(* Only a ticket created with an assignee gets a row in the history.        *)
AfterInsert(q) == IF q.assigneeId = NULL THEN "publish" ELSE "written"

InsertTicket(r) ==
  /\ req[r].pc = "decided" /\ req[r].kind = "create"
  /\ ticket[req[r].ticketId] = NULL
  /\ ticket' = [ticket EXCEPT ![req[r].ticketId] = CreatedRow(req[r].assigneeId, req[r].now)]
  /\ req' = [req EXCEPT ![r].pc = AfterInsert(req[r])]
  /\ UNCHANGED <<now, history, jobs, delivered, exec, faults>>

(* The read and the checks of AddCommentUseCase, AssignTicketUseCase and    *)
(* ChangeStatusUseCase.  A check that fails, of the row here or of the assignee *)
(* named, who is always a user here, ends the request without effect.       *)
ReadTicket(r, t, command) ==
  /\ req[r].pc = "new"
  /\ ticket[t] # NULL
  /\ command.kind \in RequestKinds
  /\ req' = [req EXCEPT ![r] = command]
  /\ UNCHANGED <<now, ticket, history, jobs, delivered, exec, faults>>

ReadForComment(r, t) ==
  /\ ReadTicket(r, t, [NewRequest EXCEPT !.pc = "read", !.kind = "comment", !.ticketId = t])
  /\ IsTicketActive(ticket[t].status)

ReadForAssign(r, t, u) ==
  /\ ReadTicket(r, t, [NewRequest EXCEPT !.pc = "read", !.kind = "assign", !.ticketId = t,
                                         !.assigneeId = u, !.fromUserId = ticket[t].assigneeId])
  /\ IsTicketActive(ticket[t].status)

ReadForStatus(r, t, to) ==
  /\ ReadTicket(r, t, [NewRequest EXCEPT !.pc = "read", !.kind = "status", !.ticketId = t,
                                         !.to = to])
  /\ CanTransition(ticket[t].status, to)

(* The instant a request writes is taken after its read has returned.       *)
TakeInstant(r) ==
  /\ req[r].pc = "read"
  /\ req' = [req EXCEPT ![r].pc = "decided", ![r].now = now]
  /\ UNCHANGED <<now, ticket, history, jobs, delivered, exec, faults>>

(* tickets.update: whatever the row is by now, the columns of the patch are *)
(* overwritten.                                                             *)
UpdateTicket(r, kind, row, next) ==
  /\ req[r].pc = "decided" /\ req[r].kind = kind
  /\ ticket' = [ticket EXCEPT ![req[r].ticketId] = row]
  /\ req' = [req EXCEPT ![r].pc = next]
  /\ UNCHANGED <<now, history, jobs, delivered, exec, faults>>

WriteComment(r) ==
  UpdateTicket(r, "comment",
    [ticket[req[r].ticketId] EXCEPT
       !.lastActivityAt = req[r].now,
       !.slaDueAt = ComputeSlaDueAt(req[r].now, SLA)], "publish")

WriteAssign(r) ==
  UpdateTicket(r, "assign",
    [ticket[req[r].ticketId] EXCEPT
       !.assigneeId = req[r].assigneeId,
       !.lastActivityAt = req[r].now,
       !.slaDueAt = ComputeSlaDueAt(req[r].now, SLA)], "written")

WriteStatus(r) ==
  UpdateTicket(r, "status",
    [ticket[req[r].ticketId] EXCEPT
       !.status = req[r].to,
       !.lastActivityAt = req[r].now,
       !.slaDueAt = IF IsTicketActive(req[r].to)
                      THEN ComputeSlaDueAt(req[r].now, SLA) ELSE NULL], "publish")

(* assignments.create after the write: fromUserId is what the request read. *)
RecordAssignment(r) ==
  /\ req[r].pc = "written"
  /\ history' = [history EXCEPT ![req[r].ticketId] =
                   Append(@, AssignmentRow(req[r].fromUserId, req[r].assigneeId, "MANUAL"))]
  /\ req' = [req EXCEPT ![r].pc = "publish"]
  /\ UNCHANGED <<now, ticket, jobs, delivered, exec, faults>>

CommentedEvent(q) == TicketEvent("TicketCommented", q.ticketId, q.now)

AssignedEvent(q) ==
  [TicketEvent("TicketAssigned", q.ticketId, q.now) EXCEPT !.userId = q.assigneeId]

StatusChangedEvent(q) ==
  [TicketEvent("TicketStatusChanged", q.ticketId, q.now) EXCEPT !.to = q.to]

EventOf(q) ==
  CASE q.kind = "create"  -> CreatedEvent(q.ticketId, q.assigneeId, q.now)
    [] q.kind = "comment" -> CommentedEvent(q)
    [] q.kind = "assign"  -> AssignedEvent(q)
    [] q.kind = "status"  -> StatusChangedEvent(q)

PublishRequest(r) ==
  /\ req[r].pc = "publish"
  /\ PublishEvent(EventOf(req[r]), r)
  /\ req' = [req EXCEPT ![r] = Finished]
  /\ UNCHANGED <<now, ticket, history, exec>>

(* The API process stops, or a call of the request throws.                  *)
StopRequest(r) ==
  /\ req[r].pc \notin {"new", "done"}
  /\ faults < MaxFaults
  /\ faults' = faults + 1
  /\ req' = [req EXCEPT ![r] = Finished]
  /\ UNCHANGED <<now, ticket, history, jobs, delivered, exec>>

-----------------------------------------------------------------------------
(* The worker: jobs and sweeps start executions of ReassignTicketUseCase *)

Start(t, job) == [Idle EXCEPT !.pc = "read", !.now = now, !.ticketId = t, !.job = job]

TakeJob(w, job) ==
  /\ exec[w].pc = "idle"
  /\ job.due <= now
  /\ jobs' = jobs \ {job}
  /\ exec' = [exec EXCEPT ![w] = Start(job.ticketId, job)]
  /\ UNCHANGED <<now, ticket, history, delivered, req, faults>>

BadOverdueTickets ==
  {t \in Tickets : /\ ticket[t] # NULL /\ ticket[t].assigneeId # NULL
                   /\ IsOverdue(ticket[t], now)}

OverdueTickets == {t \in Tickets : ticket[t] # NULL /\ IsOverdue(ticket[t], now)}

(* findOverdue: the first SweepLimit overdue tickets by due date; the order *)
(* of equal due dates is the database's.                                    *)
IsBatch(batch) ==
  /\ Cardinality(batch) = IF Cardinality(OverdueTickets) <= SweepLimit
                            THEN Cardinality(OverdueTickets) ELSE SweepLimit
  /\ \A t \in batch, other \in OverdueTickets \ batch :
       ticket[t].slaDueAt <= ticket[other].slaDueAt

Sweep(s, batch) ==
  /\ \A t \in Tickets : exec[<<s, t>>].pc = "idle"
  /\ IsBatch(batch)
  /\ exec' = [l \in Lanes |-> IF l \in {s} \X batch THEN Start(l[2], NULL) ELSE exec[l]]
  /\ UNCHANGED <<now, ticket, history, jobs, delivered, req, faults>>

(* Was there no activity since the job was scheduled?  A sweep has no such  *)
(* expectation.                                                             *)
StillExpected(x, row) ==
  x.job # NULL => row.lastActivityAt = x.job.expectedLastActivityAt

BadNeedsReassignment(x, row) ==
  row # NULL /\ IsTicketActive(row.status) /\ StillExpected(x, row)

(* The checks of execute on the row it read; the first that fails ends the  *)
(* execution (not_found, inactive, activity_detected, not_overdue).         *)
NeedsReassignment(x, row) ==
  /\ row # NULL
  /\ IsTicketActive(row.status)
  /\ StillExpected(x, row)
  /\ IsOverdue(row, x.now)

CheckTicket(l) ==
  LET row == ticket[exec[l].ticketId] IN
  /\ exec[l].pc = "read"
  /\ exec' = [exec EXCEPT ![l] = IF NeedsReassignment(exec[l], row)
                                   THEN [exec[l] EXCEPT !.pc = "pick", !.snap = row]
                                   ELSE Idle]
  /\ UNCHANGED <<now, ticket, history, jobs, delivered, req, faults>>

BadCapReached(row) == row.autoReassignCount > MaxAutoReassignments

CapReached(row) == row.autoReassignCount >= MaxAutoReassignments

ReasonOf(x) == IF CapReached(x.snap) THEN "ESCALATION" ELSE "AUTO_REASSIGN"

(* LeastLoadedStrategy: the agents other than the current assignee, the     *)
(* least loaded of them, ties by id.                                        *)
Candidates(row) == Agents \ {row.assigneeId}

OpenCount(u) ==
  Cardinality({t \in Tickets : /\ ticket[t] # NULL
                               /\ ticket[t].assigneeId = u
                               /\ IsTicketActive(ticket[t].status)})

PrecedesInLoad(u, v) ==
  \/ OpenCount(u) < OpenCount(v)
  \/ OpenCount(u) = OpenCount(v) /\ u <= v

LeastLoaded(row) ==
  {u \in Candidates(row) : \A v \in Candidates(row) : PrecedesInLoad(u, v)}

(* escalate: an administrator other than the current assignee, else the     *)
(* only one there is.  The query gives them in no particular order.         *)
Supervisors(row) ==
  IF Admins \ {row.assigneeId} # {} THEN Admins \ {row.assigneeId} ELSE Admins

NextAssignees(row) == IF CapReached(row) THEN Supervisors(row) ELSE LeastLoaded(row)

PickAssignee(l) ==
  /\ exec[l].pc = "pick"
  /\ \E u \in NextAssignees(exec[l].snap) :
       exec' = [exec EXCEPT ![l].pc = "commit", ![l].toUserId = u]
  /\ UNCHANGED <<now, ticket, history, jobs, delivered, req, faults>>

SlaBreachedEvent(x) ==
  [TicketEvent("SLABreached", x.ticketId, x.now) EXCEPT !.userId = x.snap.assigneeId]

(* no_candidate, no_supervisor: the breach is published and nothing changes. *)
GiveUp(l) ==
  /\ exec[l].pc = "pick"
  /\ NextAssignees(exec[l].snap) = {}
  /\ PublishEvent(SlaBreachedEvent(exec[l]), l)
  /\ exec' = [exec EXCEPT ![l] = Idle]
  /\ UNCHANGED <<now, ticket, history, req>>

BadNewSlaDueAt(x) == ComputeSlaDueAt(x.now, SLA)

(* An escalated ticket has no due date: its automatic cycle stops.          *)
NewSlaDueAt(x) == IF CapReached(x.snap) THEN NULL ELSE ComputeSlaDueAt(x.now, SLA)

BadGuardHolds(x, row) == IsTicketActive(row.status)

(* The guard of commitAutoReassignment, evaluated under the row lock.       *)
GuardHolds(x, row) ==
  /\ row.lastActivityAt = x.snap.lastActivityAt
  /\ IsTicketActive(row.status)

ReassignedRow(x, row) ==
  [row EXCEPT !.assigneeId = x.toUserId, !.lastActivityAt = x.now,
              !.slaDueAt = NewSlaDueAt(x),
              !.autoReassignCount = row.autoReassignCount + 1]

(* commitAutoReassignment and what execute does with its result: the row    *)
(* and its assignment are written in one transaction.                       *)
CommitReassignment(l) ==
  LET x == exec[l] IN
  /\ x.pc = "commit"
  /\ GuardHolds(x, ticket[x.ticketId])
  /\ ticket' = [ticket EXCEPT ![x.ticketId] = ReassignedRow(x, @)]
  /\ history' = [history EXCEPT ![x.ticketId] =
                   Append(@, AssignmentRow(x.snap.assigneeId, x.toUserId, ReasonOf(x)))]
  /\ exec' = [exec EXCEPT ![l].pc = IF CapReached(x.snap) THEN "breach" ELSE "publish"]
  /\ UNCHANGED <<now, jobs, delivered, req, faults>>

BadLoseRace(l) ==
  /\ exec[l].pc = "commit"
  /\ ~ GuardHolds(exec[l], ticket[exec[l].ticketId])
  /\ exec' = [exec EXCEPT ![l].pc = "publish"]
  /\ UNCHANGED <<now, ticket, history, jobs, delivered, req, faults>>

LoseRace(l) ==
  /\ exec[l].pc = "commit"
  /\ ~ GuardHolds(exec[l], ticket[exec[l].ticketId])
  /\ exec' = [exec EXCEPT ![l] = Idle]
  /\ UNCHANGED <<now, ticket, history, jobs, delivered, req, faults>>

(* An escalation publishes SLABreached before TicketReassigned.             *)
PublishBreach(l) ==
  /\ exec[l].pc = "breach"
  /\ PublishEvent(SlaBreachedEvent(exec[l]), l)
  /\ exec' = [exec EXCEPT ![l].pc = "publish"]
  /\ UNCHANGED <<now, ticket, history, req>>

ReassignedEvent(x) ==
  [TicketEvent("TicketReassigned", x.ticketId, x.now) EXCEPT
     !.userId = x.toUserId, !.reason = ReasonOf(x), !.slaDueAt = NewSlaDueAt(x)]

PublishReassigned(l) ==
  /\ exec[l].pc = "publish"
  /\ PublishEvent(ReassignedEvent(exec[l]), l)
  /\ exec' = [exec EXCEPT ![l] = Idle]
  /\ UNCHANGED <<now, ticket, history, req>>

(* An execution ends half-way.  A job whose call threw is not retried (one  *)
(* attempt); a job whose process stopped is found stalled and queued again. *)
StopExecution(l) ==
  /\ exec[l].pc # "idle"
  /\ faults < MaxFaults
  /\ faults' = faults + 1
  /\ exec' = [exec EXCEPT ![l] = Idle]
  /\ \/ jobs' = jobs
     \/ exec[l].job # NULL /\ jobs' = jobs \cup {exec[l].job}
  /\ UNCHANGED <<now, ticket, history, delivered, req>>

(* A worker that stays blocked past its lock keeps running, and its job is  *)
(* found stalled and queued again as well.                                  *)
Stall(l) ==
  /\ exec[l].job # NULL
  /\ faults < MaxFaults
  /\ faults' = faults + 1
  /\ jobs' = jobs \cup {exec[l].job}
  /\ UNCHANGED <<now, ticket, history, delivered, req, exec>>

(* Time passes; a request that took its instant writes within its latency.  *)
Tick ==
  /\ now < MaxTime
  /\ \A r \in Requests : req[r].pc = "decided" => now < req[r].now + RequestLatency
  /\ now' = now + 1
  /\ UNCHANGED <<ticket, history, jobs, delivered, req, exec, faults>>

-----------------------------------------------------------------------------
(* The specification *)

(* The tickets of Preexisting were created at 0 with some assignee or none. *)
Init ==
  /\ now = 0
  /\ \E assignee \in [Preexisting -> Users \cup {NULL}] :
       /\ ticket = [t \in Tickets |-> IF t \in Preexisting
                                        THEN CreatedRow(assignee[t], 0) ELSE NULL]
       /\ history = [t \in Tickets |->
                       IF t \in Preexisting /\ assignee[t] # NULL
                         THEN <<AssignmentRow(NULL, assignee[t], "MANUAL")>> ELSE <<>>]
       /\ delivered = [s \in Observed |->
                         IF s = "audit"
                           THEN {CreatedEvent(t, assignee[t], 0) : t \in Preexisting} ELSE {}]
  /\ jobs = {NewJob(NULL, t, 0, SLA) : t \in Preexisting}
  /\ req = [r \in Requests |-> NewRequest]
  /\ exec = [l \in Lanes |-> Idle]
  /\ faults = 0

RequestStep(r) ==
  \/ \E t \in Tickets, u \in Users \cup {NULL} : BeginCreate(r, t, u)
  \/ InsertTicket(r)
  \/ \E t \in Tickets : ReadForComment(r, t)
  \/ \E t \in Tickets, u \in Users : ReadForAssign(r, t, u)
  \/ \E t \in Tickets, to \in TicketStatus : ReadForStatus(r, t, to)
  \/ TakeInstant(r)
  \/ WriteComment(r)
  \/ WriteAssign(r)
  \/ WriteStatus(r)
  \/ RecordAssignment(r)
  \/ PublishRequest(r)

ExecutionStep(l) ==
  \/ CheckTicket(l)
  \/ PickAssignee(l)
  \/ GiveUp(l)
  \/ CommitReassignment(l)
  \/ LoseRace(l)
  \/ PublishBreach(l)
  \/ PublishReassigned(l)

TakeSomeJob(w) == \E job \in jobs : TakeJob(w, job)

StartSweep(s) == \E batch \in SUBSET OverdueTickets : batch # {} /\ Sweep(s, batch)

Next ==
  \/ \E r \in Requests : RequestStep(r) \/ StopRequest(r)
  \/ \E l \in Lanes : ExecutionStep(l) \/ StopExecution(l) \/ Stall(l)
  \/ \E w \in Workers : TakeSomeJob(w)
  \/ \E s \in Sweeps : StartSweep(s)
  \/ Tick

Spec == Init /\ [][Next]_vars

(* A running worker takes the jobs that are due and finishes what it        *)
(* starts, and the sweep repeats for ever.                                  *)
Fairness ==
  /\ \A l \in Lanes : WF_vars(ExecutionStep(l))
  /\ \A w \in Workers : WF_vars(TakeSomeJob(w))
  /\ \A s \in Sweeps : WF_vars(StartSweep(s))

FairSpec == Spec /\ Fairness
=============================================================================
