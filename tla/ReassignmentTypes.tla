------------------------- MODULE ReassignmentTypes --------------------------
EXTENDS TimelyReassignment, FiniteSetTheorems, TLAPS

-----------------------------------------------------------------------------
(* Replacing one request or one execution *)

(* A row is written: the table keeps its type and no row vanishes.          *)
LEMMA RowWritten ==
  ASSUME ticket \in [Tickets -> TicketRow \cup {NULL}],
         NEW t \in Tickets, NEW row \in TicketRow, ticket' = [ticket EXCEPT ![t] = row]
  PROVE  /\ ticket' \in [Tickets -> TicketRow \cup {NULL}]
         /\ \A other \in Tickets : ticket[other] # NULL => ticket'[other] # NULL
         /\ ticket'[t] = row /\ ticket'[t] # NULL
BY NullIsNoRow

(* A step of one request that leaves the rows in place.                     *)
LEMMA RequestUpdate ==
  ASSUME RequestsTyped, ExecutionsTyped, TicketsKnown, UNCHANGED exec,
         \A t \in Tickets : ticket[t] # NULL => ticket'[t] # NULL,
         NEW r \in Requests, NEW q \in Request,
         q.pc \notin {"new", "done"} => q.ticketId # NULL,
         q.pc = "written" => q.assigneeId # NULL,
         q.kind = "assign" => q.assigneeId # NULL,
         (q.pc \notin {"new", "done"} /\ ~ Inserting(q)) => ticket'[q.ticketId] # NULL,
         req' = [req EXCEPT ![r] = q]
  PROVE  RequestsTyped' /\ ExecutionsTyped' /\ TicketsKnown'
<1>1. RequestsTyped' /\ ExecutionsTyped'
  BY DEF RequestsTyped, ExecutionsTyped
<1>2. ASSUME NEW o \in Requests, req'[o].pc \notin {"new", "done"}, ~ Inserting(req'[o])
      PROVE  ticket'[req'[o].ticketId] # NULL
  BY <1>2 DEF RequestsTyped, TicketsKnown, Request
<1>3. ASSUME NEW l \in Lanes, exec'[l].pc \notin {"idle", "read"}
      PROVE  ticket'[exec'[l].ticketId] # NULL
  BY <1>3 DEF ExecutionsTyped, TicketsKnown, Execution
<1> QED
  BY <1>1, <1>2, <1>3 DEF TicketsKnown, Inserting

(* A step of one execution that leaves the rows in place.                   *)
LEMMA ExecutionUpdate ==
  ASSUME RequestsTyped, ExecutionsTyped, TicketsKnown, UNCHANGED req,
         \A t \in Tickets : ticket[t] # NULL => ticket'[t] # NULL,
         NEW l \in Lanes, NEW x \in Execution,
         x.pc # "idle" => x.ticketId # NULL,
         x.pc \notin {"idle", "read"} => x.snap # NULL /\ ticket'[x.ticketId] # NULL,
         x.pc \in {"commit", "breach", "publish"} => x.toUserId # NULL,
         exec' = [exec EXCEPT ![l] = x]
  PROVE  RequestsTyped' /\ ExecutionsTyped' /\ TicketsKnown'
<1>1. RequestsTyped' /\ ExecutionsTyped'
  BY DEF RequestsTyped, ExecutionsTyped
<1>2. ASSUME NEW r \in Requests, req'[r].pc \notin {"new", "done"}, ~ Inserting(req'[r])
      PROVE  ticket'[req'[r].ticketId] # NULL
  BY <1>2 DEF RequestsTyped, TicketsKnown, Request
<1>3. ASSUME NEW o \in Lanes, exec'[o].pc \notin {"idle", "read"}
      PROVE  ticket'[exec'[o].ticketId] # NULL
  BY <1>3 DEF ExecutionsTyped, TicketsKnown, Execution
<1> QED
  BY <1>1, <1>2, <1>3 DEF TicketsKnown, Inserting

LEMMA NewRequestTyped == NewRequest \in Request /\ Finished \in Request
BY DEF NewRequest, Finished, Request, TicketStatus, ActiveStatus

LEMMA IdleTyped == Idle \in Execution
BY DEF Idle, Execution

(* What a publication does to the queue and to the listeners.               *)
LEMMA PublicationTyped ==
  ASSUME now \in Nat, jobs \subseteq Job, delivered \in [Observed -> SUBSET Event],
         faults \in Nat, NEW e \in Event, NEW p \in Requests \cup Lanes,
         PublishEvent(e, p)
  PROVE  /\ jobs' \subseteq Job
         /\ delivered' \in [Observed -> SUBSET Event]
         /\ faults' \in Nat
<1>1. NewJob(p, e.ticketId, e.occurredAt, now + SLA) \in Job
  BY ParameterAssumption DEF NewJob, Job, Event
<1>2. PICK failing \in SUBSET FailingSubscribers :
        /\ faults' = faults + Cardinality(failing)
        /\ jobs' = IF "scheduler" \notin failing /\ SchedulesCheck(e)
                     THEN jobs \cup {NewJob(p, e.ticketId, e.occurredAt, now + SLA)}
                     ELSE jobs
        /\ delivered' = [s \in Observed |->
                           IF s \notin failing /\ Receives(s, e)
                             THEN delivered[s] \cup {e} ELSE delivered[s]]
  BY DEF PublishEvent
<1>3. Cardinality(failing) \in Nat
  BY ParameterAssumption, FS_Subset, FS_CardinalityType
<1> QED
  BY <1>1, <1>2, <1>3

-----------------------------------------------------------------------------
(* Every action of a request keeps the types *)

LEMMA BeginCreateTypes ==
  ASSUME TypeOK, NEW r \in Requests, NEW t \in Tickets, NEW u \in Users \cup {NULL},
         BeginCreate(r, t, u)
  PROVE  TypeOK'
<1> DEFINE q == [NewRequest EXCEPT !.pc = "decided", !.kind = "create", !.ticketId = t,
                                   !.assigneeId = u, !.now = now]
<1>1. /\ q \in Request
      /\ q.ticketId # NULL /\ q.pc = "decided" /\ q.kind = "create"
  BY NewRequestTyped, ParameterAssumption DEF TypeOK, Request, NewRequest
<1>2. req' = [req EXCEPT ![r] = q]
  BY DEF BeginCreate
<1> HIDE DEF q
<1>3. RequestsTyped' /\ ExecutionsTyped' /\ TicketsKnown'
  BY <1>1, <1>2, RequestUpdate DEF TypeOK, BeginCreate, Inserting
<1> QED
  BY <1>3 DEF TypeOK, BeginCreate

LEMMA InsertTicketTypes ==
  ASSUME TypeOK, NEW r \in Requests, InsertTicket(r)
  PROVE  TypeOK'
<1> DEFINE q == [req[r] EXCEPT !.pc = AfterInsert(req[r])]
<1>1. req[r] \in Request /\ req[r].pc = "decided" /\ req[r].kind = "create"
  BY DEF TypeOK, RequestsTyped, InsertTicket
<1>2. /\ q \in Request
      /\ q.ticketId # NULL /\ q.kind = "create"
      /\ q.pc = "written" => q.assigneeId # NULL
  BY <1>1 DEF TypeOK, RequestsTyped, Request, AfterInsert
<1>3. req' = [req EXCEPT ![r] = q]
  BY <1>1 DEF InsertTicket
<1>4. CreatedRow(req[r].assigneeId, req[r].now) \in TicketRow
  BY <1>1, ParameterAssumption
     DEF Request, CreatedRow, TicketRow, ComputeSlaDueAt, TicketStatus, ActiveStatus
<1>5. /\ ticket' \in [Tickets -> TicketRow \cup {NULL}]
      /\ \A t \in Tickets : ticket[t] # NULL => ticket'[t] # NULL
      /\ ticket'[q.ticketId] # NULL
  BY <1>1, <1>2, <1>4, RowWritten DEF TypeOK, InsertTicket, Request, q
<1> HIDE DEF q
<1>6. RequestsTyped' /\ ExecutionsTyped' /\ TicketsKnown'
  BY <1>2, <1>3, <1>5, RequestUpdate DEF TypeOK, InsertTicket
<1> QED
  BY <1>5, <1>6 DEF TypeOK, InsertTicket

LEMMA ReadTicketTypes ==
  ASSUME TypeOK, NEW r \in Requests, NEW t \in Tickets, NEW command \in Request,
         command.ticketId = t, command.pc = "read",
         command.kind = "assign" => command.assigneeId # NULL,
         ReadTicket(r, t, command)
  PROVE  TypeOK'
<1>1. RequestsTyped' /\ ExecutionsTyped' /\ TicketsKnown'
  <2>1. ~ Inserting(command) /\ ticket'[command.ticketId] # NULL
    BY DEF ReadTicket, Inserting
  <2>2. req' = [req EXCEPT ![r] = command]
    BY DEF ReadTicket
  <2> QED
    BY <2>1, <2>2, RequestUpdate, ParameterAssumption DEF TypeOK, ReadTicket
<1> QED
  BY <1>1 DEF TypeOK, ReadTicket

LEMMA ReadForCommentTypes ==
  ASSUME TypeOK, NEW r \in Requests, NEW t \in Tickets, ReadForComment(r, t)
  PROVE  TypeOK'
<1> DEFINE q == [NewRequest EXCEPT !.pc = "read", !.kind = "comment", !.ticketId = t]
<1>1. q \in Request /\ q.ticketId = t /\ q.pc = "read" /\ q.kind = "comment"
  BY NewRequestTyped DEF Request, NewRequest
<1>2. ReadTicket(r, t, q)
  BY DEF ReadForComment
<1> HIDE DEF q
<1> QED
  BY <1>1, <1>2, ParameterAssumption, ReadTicketTypes

LEMMA ReadForAssignTypes ==
  ASSUME TypeOK, NEW r \in Requests, NEW t \in Tickets, NEW u \in Users,
         ReadForAssign(r, t, u)
  PROVE  TypeOK'
<1> DEFINE q == [NewRequest EXCEPT !.pc = "read", !.kind = "assign", !.ticketId = t,
                                   !.assigneeId = u, !.fromUserId = ticket[t].assigneeId]
<1>1. ticket[t] \in TicketRow
  BY DEF TypeOK, ReadForAssign, ReadTicket
<1>2. q \in Request /\ q.ticketId = t /\ q.pc = "read" /\ q.assigneeId = u
  BY <1>1, NewRequestTyped DEF Request, NewRequest, TicketRow
<1>3. ReadTicket(r, t, q)
  BY DEF ReadForAssign
<1> HIDE DEF q
<1> QED
  BY <1>2, <1>3, ParameterAssumption, NullAssumption, ReadTicketTypes

LEMMA ReadForStatusTypes ==
  ASSUME TypeOK, NEW r \in Requests, NEW t \in Tickets,
         NEW to \in TicketStatus, ReadForStatus(r, t, to)
  PROVE  TypeOK'
<1> DEFINE q == [NewRequest EXCEPT !.pc = "read", !.kind = "status", !.ticketId = t, !.to = to]
<1>1. q \in Request /\ q.ticketId = t /\ q.pc = "read" /\ q.kind = "status"
  BY NewRequestTyped DEF Request, NewRequest
<1>2. ReadTicket(r, t, q)
  BY DEF ReadForStatus
<1> HIDE DEF q
<1> QED
  BY <1>1, <1>2, ParameterAssumption, ReadTicketTypes

LEMMA TakeInstantTypes ==
  ASSUME TypeOK, NEW r \in Requests, TakeInstant(r)
  PROVE  TypeOK'
<1> DEFINE q == [req[r] EXCEPT !.pc = "decided", !.now = now]
<1>1. req[r] \in Request /\ now \in Nat
  BY DEF TypeOK, RequestsTyped
<1>2. q \in Request
  BY <1>1 DEF Request
<1>3. /\ q.pc = "decided"
      /\ q.ticketId # NULL /\ ticket[q.ticketId] # NULL
      /\ q.kind = "assign" => q.assigneeId # NULL
  BY <1>1 DEF TypeOK, RequestsTyped, TicketsKnown, Inserting, TakeInstant, Request
<1>4. req' = [req EXCEPT ![r] = q]
  BY <1>1 DEF TakeInstant
<1> HIDE DEF q
<1>5. RequestsTyped' /\ ExecutionsTyped' /\ TicketsKnown'
  BY <1>2, <1>3, <1>4, RequestUpdate DEF TypeOK, TakeInstant
<1> QED
  BY <1>5 DEF TypeOK, TakeInstant

LEMMA UpdateTicketTypes ==
  ASSUME TypeOK, NEW r \in Requests, NEW kind, NEW row \in TicketRow,
         NEW next \in {"written", "publish"}, next = "written" => kind = "assign",
         UpdateTicket(r, kind, row, next)
  PROVE  TypeOK'
<1> DEFINE q == [req[r] EXCEPT !.pc = next]
<1>1. req[r] \in Request /\ req[r].pc = "decided" /\ req[r].kind = kind
  BY DEF TypeOK, RequestsTyped, UpdateTicket
<1>2. /\ q \in Request
      /\ q.ticketId # NULL
      /\ q.kind = "assign" => q.assigneeId # NULL
      /\ q.pc = "written" => q.kind = "assign"
  BY <1>1 DEF TypeOK, RequestsTyped, Request
<1>3. req' = [req EXCEPT ![r] = q]
  BY <1>1 DEF UpdateTicket
<1>4. /\ ticket' \in [Tickets -> TicketRow \cup {NULL}]
      /\ \A t \in Tickets : ticket[t] # NULL => ticket'[t] # NULL
      /\ ticket'[q.ticketId] # NULL
  BY <1>1, <1>2, RowWritten DEF TypeOK, UpdateTicket, Request, q
<1> HIDE DEF q
<1>5. RequestsTyped' /\ ExecutionsTyped' /\ TicketsKnown'
  BY <1>2, <1>3, <1>4, RequestUpdate DEF TypeOK, UpdateTicket
<1> QED
  BY <1>4, <1>5 DEF TypeOK, UpdateTicket

LEMMA WriteTypes ==
  ASSUME TypeOK, NEW r \in Requests, WriteComment(r) \/ WriteAssign(r) \/ WriteStatus(r)
  PROVE  TypeOK'
<1> DEFINE row == ticket[req[r].ticketId]
<1>1. /\ req[r] \in Request /\ req[r].pc = "decided" /\ req[r].ticketId \in Tickets
  BY DEF TypeOK, RequestsTyped, WriteComment, WriteAssign, WriteStatus, UpdateTicket, Request
<1>2. ASSUME row \in TicketRow
      PROVE  TypeOK'
  <2>1. ComputeSlaDueAt(req[r].now, SLA) \in Nat
    BY <1>1, ParameterAssumption DEF Request, ComputeSlaDueAt
  <2>2. CASE WriteComment(r)
    <3>1. [row EXCEPT !.lastActivityAt = req[r].now,
                      !.slaDueAt = ComputeSlaDueAt(req[r].now, SLA)] \in TicketRow
      BY <1>1, <1>2, <2>1 DEF Request, TicketRow
    <3> QED
      BY <2>2, <3>1, UpdateTicketTypes DEF WriteComment
  <2>3. CASE WriteAssign(r)
    <3>1. [row EXCEPT !.assigneeId = req[r].assigneeId,
                      !.lastActivityAt = req[r].now,
                      !.slaDueAt = ComputeSlaDueAt(req[r].now, SLA)] \in TicketRow
      BY <1>1, <1>2, <2>1 DEF Request, TicketRow
    <3> QED
      BY <2>3, <3>1, UpdateTicketTypes DEF WriteAssign
  <2>4. CASE WriteStatus(r)
    <3>1. [row EXCEPT !.status = req[r].to,
                      !.lastActivityAt = req[r].now,
                      !.slaDueAt = IF IsTicketActive(req[r].to)
                                     THEN ComputeSlaDueAt(req[r].now, SLA) ELSE NULL]
            \in TicketRow
      BY <1>1, <1>2, <2>1 DEF Request, TicketRow
    <3> QED
      BY <2>4, <3>1, UpdateTicketTypes DEF WriteStatus
  <2> QED
    BY <2>2, <2>3, <2>4
<1>3. row \in TicketRow
  <2>1. ~ Inserting(req[r])
    BY DEF Inserting, WriteComment, WriteAssign, WriteStatus, UpdateTicket
  <2> QED
    BY <1>1, <2>1 DEF TypeOK, TicketsKnown
<1> QED
  BY <1>2, <1>3

LEMMA RecordAssignmentTypes ==
  ASSUME TypeOK, NEW r \in Requests, RecordAssignment(r)
  PROVE  TypeOK'
<1> DEFINE q == [req[r] EXCEPT !.pc = "publish"]
<1>1. req[r] \in Request /\ req[r].pc = "written"
  BY DEF TypeOK, RequestsTyped, RecordAssignment
<1>2. /\ q \in Request /\ q.pc = "publish"
      /\ q.ticketId # NULL /\ ticket[q.ticketId] # NULL
      /\ q.kind = "assign" => q.assigneeId # NULL
  BY <1>1 DEF TypeOK, RequestsTyped, TicketsKnown, Inserting, Request
<1>3. req' = [req EXCEPT ![r] = q]
  BY <1>1 DEF RecordAssignment
<1> HIDE DEF q
<1>4. RequestsTyped' /\ ExecutionsTyped' /\ TicketsKnown'
  BY <1>2, <1>3, RequestUpdate DEF TypeOK, RecordAssignment
<1>5. AssignmentRow(req[r].fromUserId, req[r].assigneeId, "MANUAL") \in Assignment
  BY <1>1 DEF TypeOK, RequestsTyped, Request, AssignmentRow, Assignment, AssignmentReason
<1>6. history' \in [Tickets -> Seq(Assignment)]
  <2>1. req[r].ticketId \in Tickets /\ history[req[r].ticketId] \in Seq(Assignment)
    BY <1>1 DEF TypeOK, RequestsTyped, Request
  <2>2. Append(history[req[r].ticketId],
               AssignmentRow(req[r].fromUserId, req[r].assigneeId, "MANUAL")) \in Seq(Assignment)
    BY <1>5, <2>1
  <2> QED
    BY <2>1, <2>2 DEF TypeOK, RecordAssignment
<1> QED
  BY <1>4, <1>6 DEF TypeOK, RecordAssignment

LEMMA TicketEventTyped ==
  ASSUME NEW name \in EventName, NEW t \in Tickets, NEW at \in Nat
  PROVE  TicketEvent(name, t, at) \in Event
BY DEF TicketEvent, Event

LEMMA EventOfTyped ==
  ASSUME NEW q \in Request, q.ticketId # NULL, q.kind = "assign" => q.assigneeId # NULL
  PROVE  EventOf(q) \in Event
<1>1. q.ticketId \in Tickets /\ q.now \in Nat
  BY DEF Request
<1>2. q.kind = "create" => EventOf(q) \in Event
  <2>1. TicketEvent("TicketCreated", q.ticketId, q.now) \in Event
    BY <1>1, TicketEventTyped DEF EventName
  <2> QED
    BY <2>1 DEF EventOf, CreatedEvent, Event, Request
<1>3. q.kind = "comment" => EventOf(q) \in Event
  BY <1>1, TicketEventTyped DEF EventOf, CommentedEvent, EventName
<1>4. q.kind = "assign" => EventOf(q) \in Event
  <2>1. TicketEvent("TicketAssigned", q.ticketId, q.now) \in Event
    BY <1>1, TicketEventTyped DEF EventName
  <2> QED
    BY <2>1 DEF EventOf, AssignedEvent, Event, Request
<1>5. q.kind = "status" => EventOf(q) \in Event
  <2>1. TicketEvent("TicketStatusChanged", q.ticketId, q.now) \in Event
    BY <1>1, TicketEventTyped DEF EventName
  <2> QED
    BY <2>1 DEF EventOf, StatusChangedEvent, Event, Request
<1> QED
  <2>1. q.kind \in {"create", "comment", "assign", "status"}
    BY DEF Request
  <2> QED
    BY <2>1, <1>2, <1>3, <1>4, <1>5

LEMMA FinishRequest ==
  ASSUME RequestsTyped, ExecutionsTyped, TicketsKnown, UNCHANGED <<exec, ticket>>,
         NEW r \in Requests, req' = [req EXCEPT ![r] = Finished]
  PROVE  RequestsTyped' /\ ExecutionsTyped' /\ TicketsKnown'
<1>1. Finished \in Request /\ Finished.pc = "done" /\ Finished.kind = "create"
  BY NewRequestTyped DEF Finished, NewRequest
<1> QED
  BY <1>1, RequestUpdate

LEMMA PublishRequestTypes ==
  ASSUME TypeOK, NEW r \in Requests, PublishRequest(r)
  PROVE  TypeOK'
<1>1. EventOf(req[r]) \in Event
  BY EventOfTyped DEF TypeOK, RequestsTyped, PublishRequest
<1>2. jobs' \subseteq Job /\ delivered' \in [Observed -> SUBSET Event] /\ faults' \in Nat
  BY <1>1, PublicationTyped DEF TypeOK, PublishRequest
<1>3. RequestsTyped' /\ ExecutionsTyped' /\ TicketsKnown'
  BY FinishRequest DEF TypeOK, PublishRequest
<1> QED
  BY <1>2, <1>3 DEF TypeOK, PublishRequest

LEMMA StopRequestTypes ==
  ASSUME TypeOK, NEW r \in Requests, StopRequest(r)
  PROVE  TypeOK'
<1>1. RequestsTyped' /\ ExecutionsTyped' /\ TicketsKnown'
  BY FinishRequest DEF TypeOK, StopRequest
<1> QED
  BY <1>1 DEF TypeOK, StopRequest

-----------------------------------------------------------------------------
(* Every action of a worker keeps the types *)

LEMMA StartTyped ==
  ASSUME now \in Nat, NEW t \in Tickets, NEW job \in Job \cup {NULL}
  PROVE  Start(t, job) \in Execution /\ Start(t, job).pc = "read" /\ Start(t, job).ticketId = t
BY IdleTyped DEF Start, Execution, Idle

LEMMA TakeJobTypes ==
  ASSUME TypeOK, NEW w \in Workers, NEW job \in jobs, TakeJob(w, job)
  PROVE  TypeOK'
<1>1. w \in Lanes
  BY DEF Lanes
<1>2. job \in Job /\ job.ticketId \in Tickets /\ job.ticketId # NULL
  BY ParameterAssumption DEF TypeOK, Job
<1>3. /\ Start(job.ticketId, job) \in Execution
      /\ Start(job.ticketId, job).pc = "read"
      /\ Start(job.ticketId, job).ticketId # NULL
  BY <1>2, StartTyped DEF TypeOK
<1>4. RequestsTyped' /\ ExecutionsTyped' /\ TicketsKnown'
  BY <1>1, <1>3, ExecutionUpdate DEF TypeOK, TakeJob
<1> QED
  BY <1>4 DEF TypeOK, TakeJob

LEMMA SweepTypes ==
  ASSUME TypeOK, NEW s \in Sweeps, NEW batch \in SUBSET OverdueTickets, Sweep(s, batch)
  PROVE  TypeOK'
<1>1. ASSUME NEW l \in Lanes, l \in {s} \X batch
      PROVE  /\ exec'[l] \in Execution /\ exec'[l].pc = "read" /\ exec'[l].ticketId # NULL
  <2>1. l[2] \in Tickets
    BY <1>1 DEF OverdueTickets
  <2> QED
    BY <1>1, <2>1, StartTyped, ParameterAssumption DEF Sweep, TypeOK
<1>2. ASSUME NEW l \in Lanes, l \notin {s} \X batch
      PROVE  exec'[l] = exec[l]
  BY <1>2 DEF Sweep
<1>3. exec' \in [Lanes -> Execution]
  BY <1>1, <1>2 DEF Sweep, TypeOK, ExecutionsTyped
<1>4. ExecutionsTyped'
  BY <1>1, <1>2, <1>3 DEF TypeOK, ExecutionsTyped
<1>5. TicketsKnown' /\ RequestsTyped'
  BY <1>1, <1>2 DEF TypeOK, TicketsKnown, RequestsTyped, Sweep, Inserting
<1> QED
  BY <1>4, <1>5 DEF TypeOK, Sweep

LEMMA FinishExecution ==
  ASSUME RequestsTyped, ExecutionsTyped, TicketsKnown, UNCHANGED <<req, ticket>>,
         NEW l \in Lanes, exec' = [exec EXCEPT ![l] = Idle]
  PROVE  RequestsTyped' /\ ExecutionsTyped' /\ TicketsKnown'
<1>1. Idle \in Execution /\ Idle.pc = "idle"
  BY IdleTyped DEF Idle
<1> QED
  BY <1>1, ExecutionUpdate

LEMMA CheckTicketTypes ==
  ASSUME TypeOK, NEW l \in Lanes, CheckTicket(l)
  PROVE  TypeOK'
<1> DEFINE row == ticket[exec[l].ticketId]
           x == [exec[l] EXCEPT !.pc = "pick", !.snap = row]
<1>1. CASE NeedsReassignment(exec[l], row)
  <2>1. exec[l] \in Execution /\ exec[l].pc = "read" /\ exec[l].ticketId \in Tickets
    BY DEF TypeOK, ExecutionsTyped, CheckTicket, Execution
  <2>2. row \in TicketRow /\ row # NULL
    BY <1>1, <2>1 DEF NeedsReassignment, TypeOK
  <2>3. /\ x \in Execution /\ x.pc = "pick" /\ x.ticketId = exec[l].ticketId
        /\ x.ticketId # NULL /\ x.snap = row
    BY <2>1, <2>2, ParameterAssumption DEF Execution
  <2>4. exec' = [exec EXCEPT ![l] = x]
    BY <1>1 DEF CheckTicket
  <2> HIDE DEF x
  <2>5. RequestsTyped' /\ ExecutionsTyped' /\ TicketsKnown'
    BY <2>2, <2>3, <2>4, ExecutionUpdate DEF TypeOK, CheckTicket
  <2> QED
    BY <2>5 DEF TypeOK, CheckTicket
<1>2. CASE ~ NeedsReassignment(exec[l], row)
  <2>1. RequestsTyped' /\ ExecutionsTyped' /\ TicketsKnown'
    BY <1>2, FinishExecution DEF TypeOK, CheckTicket
  <2> QED
    BY <2>1 DEF TypeOK, CheckTicket
<1> QED
  BY <1>1, <1>2

LEMMA NextAssigneesUsers ==
  ASSUME NEW row \in TicketRow
  PROVE  NextAssignees(row) \subseteq Users /\ NULL \notin NextAssignees(row)
<1>1. Admins \subseteq Users /\ Agents \subseteq Users /\ \A u \in Users : u # NULL
  BY ParameterAssumption, NullAssumption
<1>2. LeastLoaded(row) \subseteq Candidates(row)
  BY Zenon DEF LeastLoaded
<1>3. Supervisors(row) \subseteq Admins
  <2>1. CASE Admins \ {row.assigneeId} # {}
    BY <2>1, Zenon DEF Supervisors
  <2>2. CASE Admins \ {row.assigneeId} = {}
    BY <2>2, Zenon DEF Supervisors
  <2> QED
    BY <2>1, <2>2
<1>4. Candidates(row) \subseteq Agents
  BY DEF Candidates
<1> QED
  BY <1>1, <1>2, <1>3, <1>4, Zenon DEF NextAssignees

LEMMA PickAssigneeTypes ==
  ASSUME TypeOK, NEW l \in Lanes, PickAssignee(l)
  PROVE  TypeOK'
<1>1. PICK u \in NextAssignees(exec[l].snap) :
        exec' = [exec EXCEPT ![l].pc = "commit", ![l].toUserId = u]
  BY DEF PickAssignee
<1> DEFINE x == [exec[l] EXCEPT !.pc = "commit", !.toUserId = u]
<1>2. exec[l] \in Execution /\ exec[l].snap \in TicketRow /\ exec[l].pc = "pick"
  BY DEF TypeOK, ExecutionsTyped, PickAssignee, Execution
<1>3. u \in Users /\ u # NULL
  BY <1>1, <1>2, NextAssigneesUsers
<1>4. /\ x \in Execution /\ x.pc = "commit" /\ x.toUserId = u
      /\ x.ticketId = exec[l].ticketId /\ x.snap = exec[l].snap
  BY <1>2, <1>3 DEF Execution
<1>5. x.ticketId # NULL /\ x.snap # NULL /\ ticket[x.ticketId] # NULL
  BY <1>2, <1>4 DEF TypeOK, ExecutionsTyped, TicketsKnown
<1>6. exec' = [exec EXCEPT ![l] = x]
  BY <1>1, <1>2 DEF TypeOK, ExecutionsTyped
<1> HIDE DEF x
<1>7. RequestsTyped' /\ ExecutionsTyped' /\ TicketsKnown'
  BY <1>3, <1>4, <1>5, <1>6, ExecutionUpdate DEF TypeOK, PickAssignee
<1> QED
  BY <1>7 DEF TypeOK, PickAssignee

LEMMA SlaBreachedEventTyped ==
  ASSUME NEW x \in Execution, x.ticketId # NULL, x.snap # NULL
  PROVE  SlaBreachedEvent(x) \in Event
<1>1. TicketEvent("SLABreached", x.ticketId, x.now) \in Event
  BY TicketEventTyped DEF Execution, EventName
<1>2. x.snap.assigneeId \in Users \cup {NULL}
  BY DEF Execution, TicketRow
<1> QED
  BY <1>1, <1>2 DEF SlaBreachedEvent, Event

LEMMA NewSlaDueAtTyped ==
  ASSUME NEW x \in Execution
  PROVE  NewSlaDueAt(x) \in Nat \cup {NULL} /\ ReasonOf(x) \in AssignmentReason
BY ParameterAssumption
   DEF NewSlaDueAt, ReasonOf, ComputeSlaDueAt, Execution, AssignmentReason

LEMMA ReassignedEventTyped ==
  ASSUME NEW x \in Execution, x.ticketId # NULL
  PROVE  ReassignedEvent(x) \in Event
<1>1. TicketEvent("TicketReassigned", x.ticketId, x.now) \in Event
  BY TicketEventTyped DEF Execution, EventName
<1>2. x.toUserId \in Users \cup {NULL}
  BY DEF Execution
<1> QED
  BY <1>1, <1>2, NewSlaDueAtTyped DEF ReassignedEvent, Event

LEMMA GiveUpTypes ==
  ASSUME TypeOK, NEW l \in Lanes, GiveUp(l)
  PROVE  TypeOK'
<1>1. SlaBreachedEvent(exec[l]) \in Event
  BY SlaBreachedEventTyped DEF TypeOK, ExecutionsTyped, GiveUp
<1>2. jobs' \subseteq Job /\ delivered' \in [Observed -> SUBSET Event] /\ faults' \in Nat
  BY <1>1, PublicationTyped DEF TypeOK, GiveUp
<1>3. RequestsTyped' /\ ExecutionsTyped' /\ TicketsKnown'
  BY FinishExecution DEF TypeOK, GiveUp
<1> QED
  BY <1>2, <1>3 DEF TypeOK, GiveUp

LEMMA ReassignedRowTyped ==
  ASSUME NEW x \in Execution, x.toUserId # NULL, NEW row \in TicketRow
  PROVE  ReassignedRow(x, row) \in TicketRow
<1>1. x.toUserId \in Users /\ x.now \in Nat
  BY DEF Execution
<1>2. NewSlaDueAt(x) \in Nat \cup {NULL}
  BY NewSlaDueAtTyped
<1>3. row.autoReassignCount + 1 \in Nat
  BY DEF TicketRow
<1> DEFINE half == [row EXCEPT !.assigneeId = x.toUserId, !.lastActivityAt = x.now]
<1>4. half \in TicketRow
  BY <1>1 DEF TicketRow
<1>5. ReassignedRow(x, row) =
        [half EXCEPT !.slaDueAt = NewSlaDueAt(x),
                     !.autoReassignCount = row.autoReassignCount + 1]
  BY DEF ReassignedRow
<1> HIDE DEF half
<1> QED
  BY <1>2, <1>3, <1>4, <1>5 DEF TicketRow

LEMMA CommitReassignmentTypes ==
  ASSUME TypeOK, NEW l \in Lanes, CommitReassignment(l)
  PROVE  TypeOK'
<1> DEFINE x == exec[l]
           y == [x EXCEPT !.pc = IF CapReached(x.snap) THEN "breach" ELSE "publish"]
           row == AssignmentRow(x.snap.assigneeId, x.toUserId, ReasonOf(x))
<1>1. /\ x \in Execution /\ x.pc = "commit" /\ x.snap \in TicketRow /\ x.toUserId \in Users
      /\ x.ticketId \in Tickets /\ ticket[x.ticketId] \in TicketRow
      /\ x.snap # NULL /\ x.toUserId # NULL /\ x.ticketId # NULL
  BY DEF TypeOK, ExecutionsTyped, TicketsKnown, CommitReassignment, Execution
<1>2. /\ y \in Execution /\ y.pc \in {"breach", "publish"} /\ y.ticketId = x.ticketId
      /\ y.snap = x.snap /\ y.toUserId = x.toUserId
  BY <1>1 DEF Execution
<1>3. exec' = [exec EXCEPT ![l] = y]
  BY <1>1 DEF CommitReassignment
<1>4. ReassignedRow(x, ticket[x.ticketId]) \in TicketRow
  BY <1>1, ReassignedRowTyped
<1>5. ticket' = [ticket EXCEPT ![x.ticketId] = ReassignedRow(x, ticket[x.ticketId])]
  BY DEF CommitReassignment
<1>6. row \in Assignment
  BY <1>1, NewSlaDueAtTyped DEF AssignmentRow, Assignment, TicketRow
<1>7. history' \in [Tickets -> Seq(Assignment)]
  <2>1. Append(history[x.ticketId], row) \in Seq(Assignment)
    BY <1>1, <1>6 DEF TypeOK
  <2> QED
    BY <1>1, <2>1 DEF TypeOK, CommitReassignment
<1> HIDE DEF x, y
<1>8. /\ ticket' \in [Tickets -> TicketRow \cup {NULL}]
      /\ \A t \in Tickets : ticket[t] # NULL => ticket'[t] # NULL
      /\ ticket'[x.ticketId] # NULL
  BY <1>1, <1>4, <1>5, RowWritten DEF TypeOK
<1>9. UNCHANGED req
  BY DEF CommitReassignment
<1>10. RequestsTyped' /\ ExecutionsTyped' /\ TicketsKnown'
  BY <1>1, <1>2, <1>3, <1>8, <1>9, ExecutionUpdate DEF TypeOK
<1> QED
  BY <1>7, <1>8, <1>10 DEF TypeOK, CommitReassignment

LEMMA LoseRaceTypes ==
  ASSUME TypeOK, NEW l \in Lanes, LoseRace(l)
  PROVE  TypeOK'
<1>1. RequestsTyped' /\ ExecutionsTyped' /\ TicketsKnown'
  BY FinishExecution DEF TypeOK, LoseRace
<1> QED
  BY <1>1 DEF TypeOK, LoseRace

LEMMA PublishBreachTypes ==
  ASSUME TypeOK, NEW l \in Lanes, PublishBreach(l)
  PROVE  TypeOK'
<1> DEFINE y == [exec[l] EXCEPT !.pc = "publish"]
<1>1. SlaBreachedEvent(exec[l]) \in Event
  BY SlaBreachedEventTyped DEF TypeOK, ExecutionsTyped, PublishBreach
<1>2. jobs' \subseteq Job /\ delivered' \in [Observed -> SUBSET Event] /\ faults' \in Nat
  BY <1>1, PublicationTyped DEF TypeOK, PublishBreach
<1>3. exec[l] \in Execution /\ exec[l].pc = "breach"
  BY DEF TypeOK, ExecutionsTyped, PublishBreach
<1>4. /\ y \in Execution /\ y.pc = "publish" /\ y.ticketId # NULL /\ y.snap # NULL
      /\ y.toUserId # NULL /\ ticket[y.ticketId] # NULL
  BY <1>3 DEF TypeOK, ExecutionsTyped, TicketsKnown, Execution
<1>5. exec' = [exec EXCEPT ![l] = y]
  BY <1>3 DEF PublishBreach
<1> HIDE DEF y
<1>6. RequestsTyped' /\ ExecutionsTyped' /\ TicketsKnown'
  BY <1>4, <1>5, ExecutionUpdate DEF TypeOK, PublishBreach
<1> QED
  BY <1>2, <1>6 DEF TypeOK, PublishBreach

LEMMA PublishReassignedTypes ==
  ASSUME TypeOK, NEW l \in Lanes, PublishReassigned(l)
  PROVE  TypeOK'
<1>1. ReassignedEvent(exec[l]) \in Event
  BY ReassignedEventTyped DEF TypeOK, ExecutionsTyped, PublishReassigned
<1>2. jobs' \subseteq Job /\ delivered' \in [Observed -> SUBSET Event] /\ faults' \in Nat
  BY <1>1, PublicationTyped DEF TypeOK, PublishReassigned
<1>3. RequestsTyped' /\ ExecutionsTyped' /\ TicketsKnown'
  BY FinishExecution DEF TypeOK, PublishReassigned
<1> QED
  BY <1>2, <1>3 DEF TypeOK, PublishReassigned

LEMMA FaultTypes ==
  ASSUME TypeOK, NEW l \in Lanes, StopExecution(l) \/ Stall(l)
  PROVE  TypeOK'
<1>1. jobs' \subseteq Job
  BY DEF TypeOK, ExecutionsTyped, Execution, StopExecution, Stall
<1>2. CASE StopExecution(l)
  <2>1. RequestsTyped' /\ ExecutionsTyped' /\ TicketsKnown'
    BY <1>2, FinishExecution DEF TypeOK, StopExecution
  <2> QED
    BY <1>1, <1>2, <2>1 DEF TypeOK, StopExecution
<1>3. CASE Stall(l)
  BY <1>1, <1>3 DEF TypeOK, Stall, RequestsTyped, ExecutionsTyped, TicketsKnown, Inserting
<1> QED
  BY <1>2, <1>3

LEMMA TickTypes ==
  ASSUME TypeOK, Tick
  PROVE  TypeOK'
BY DEF TypeOK, Tick, RequestsTyped, ExecutionsTyped, TicketsKnown, Inserting

-----------------------------------------------------------------------------
(* The theorem on types *)

LEMMA InitTypes == ASSUME Init PROVE TypeOK
<1>1. PICK assignee \in [Preexisting -> Users \cup {NULL}] :
        /\ ticket = [t \in Tickets |-> IF t \in Preexisting
                                         THEN CreatedRow(assignee[t], 0) ELSE NULL]
        /\ history = [t \in Tickets |->
                        IF t \in Preexisting /\ assignee[t] # NULL
                          THEN <<AssignmentRow(NULL, assignee[t], "MANUAL")>> ELSE <<>>]
        /\ delivered = [s \in Observed |->
                          IF s = "audit"
                            THEN {CreatedEvent(t, assignee[t], 0) : t \in Preexisting} ELSE {}]
  BY Zenon DEF Init
<1>2. ASSUME NEW t \in Preexisting
      PROVE  CreatedRow(assignee[t], 0) \in TicketRow
  BY <1>1, ParameterAssumption
     DEF CreatedRow, TicketRow, ComputeSlaDueAt, TicketStatus, ActiveStatus
<1>3. ticket \in [Tickets -> TicketRow \cup {NULL}]
  BY <1>1, <1>2
<1>4. ASSUME NEW t \in Preexisting, assignee[t] # NULL
      PROVE  <<AssignmentRow(NULL, assignee[t], "MANUAL")>> \in Seq(Assignment)
  <2>1. AssignmentRow(NULL, assignee[t], "MANUAL") \in Assignment
    BY <1>1, <1>4 DEF AssignmentRow, Assignment, AssignmentReason
  <2> QED
    BY <2>1
<1>5. history \in [Tickets -> Seq(Assignment)]
  BY <1>1, <1>4
<1>6. ASSUME NEW t \in Preexisting
      PROVE  CreatedEvent(t, assignee[t], 0) \in Event
  <2>1. TicketEvent("TicketCreated", t, 0) \in Event
    BY ParameterAssumption, TicketEventTyped DEF EventName
  <2> QED
    BY <1>1, <2>1 DEF CreatedEvent, Event
<1>7. delivered \in [Observed -> SUBSET Event]
  BY <1>1, <1>6
<1>8. jobs \subseteq Job
  BY ParameterAssumption DEF Init, NewJob, Job
<1>9. RequestsTyped
  BY NewRequestTyped DEF Init, RequestsTyped, NewRequest
<1>10. ExecutionsTyped
  BY IdleTyped DEF Init, ExecutionsTyped, Idle
<1>11. TicketsKnown
  BY DEF Init, TicketsKnown, NewRequest, Idle
<1> QED
  BY <1>3, <1>5, <1>7, <1>8, <1>9, <1>10, <1>11 DEF TypeOK, Init

LEMMA NextTypes ==
  ASSUME TypeOK, [Next]_vars
  PROVE  TypeOK'
<1>1. CASE \E r \in Requests : RequestStep(r) \/ StopRequest(r)
  <2>1. PICK r \in Requests : RequestStep(r) \/ StopRequest(r)
    BY <1>1
  <2> QED
    BY <2>1, BeginCreateTypes, InsertTicketTypes, ReadForCommentTypes, ReadForAssignTypes,
       ReadForStatusTypes, TakeInstantTypes, WriteTypes, RecordAssignmentTypes,
       PublishRequestTypes, StopRequestTypes DEF RequestStep
<1>2. CASE \E l \in Lanes : ExecutionStep(l) \/ StopExecution(l) \/ Stall(l)
  <2>1. PICK l \in Lanes : ExecutionStep(l) \/ StopExecution(l) \/ Stall(l)
    BY <1>2
  <2> QED
    BY <2>1, CheckTicketTypes, PickAssigneeTypes, GiveUpTypes, CommitReassignmentTypes,
       LoseRaceTypes, PublishBreachTypes, PublishReassignedTypes, FaultTypes
       DEF ExecutionStep
<1>3. CASE \E w \in Workers : TakeSomeJob(w)
  BY <1>3, TakeJobTypes DEF TakeSomeJob
<1>4. CASE \E s \in Sweeps : StartSweep(s)
  BY <1>4, SweepTypes DEF StartSweep
<1>5. CASE Tick
  BY <1>5, TickTypes
<1>6. CASE UNCHANGED vars
  BY <1>6 DEF vars, TypeOK, RequestsTyped, ExecutionsTyped, TicketsKnown, Inserting
<1> QED
  BY <1>1, <1>2, <1>3, <1>4, <1>5, <1>6 DEF Next

(* Whatever requests, jobs, sweeps and faults do, the tables and queues hold *)
(* well-formed records, no request writes a ticket that does not exist and   *)
(* no execution commits without a row it checked and a user it chose.        *)
THEOREM TypesCorrect == Spec => []TypeOK
<1>1. Init => TypeOK
  BY InitTypes
<1>2. TypeOK /\ [Next]_vars => TypeOK'
  BY NextTypes
<1> QED
  BY <1>1, <1>2, PTL DEF Spec
=============================================================================
