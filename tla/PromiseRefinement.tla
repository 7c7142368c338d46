------------------------- MODULE PromiseRefinement -------------------------
(***************************************************************************)
(* Proof that the interleaved requests and executions implement SlaPromise: *)
(* every step of TicketReassignment is a step of the promise or leaves the  *)
(* clock, the rows and the history alone.  What the promise calls one       *)
(* atomic reassignment of an overdue ticket is a read, a choice and a       *)
(* commit here, with others running in between.                             *)
(***************************************************************************)
EXTENDS ReassignmentSafety

-----------------------------------------------------------------------------
LEMMA InitRefines == ASSUME Init PROVE Promise!Init
<1> DEFINE row(u) == Promise!Row("OPEN", u, 0, Promise!Due(0), 0)
<1>1. PICK assignee \in [Preexisting -> Users \cup {NULL}] :
        /\ ticket = [t \in Tickets |-> IF t \in Preexisting
                                         THEN CreatedRow(assignee[t], 0) ELSE NULL]
        /\ history = [t \in Tickets |->
                        IF t \in Preexisting /\ assignee[t] # NULL
                          THEN <<AssignmentRow(NULL, assignee[t], "MANUAL")>> ELSE <<>>]
  BY DEF Init
<1>2. ASSUME NEW u PROVE CreatedRow(u, 0) = row(u)
  BY DEF CreatedRow, Promise!Row, Promise!Due, ComputeSlaDueAt, Promise!ComputeSlaDueAt
<1>3. ticket \in [Tickets -> {NULL} \cup {row(u) : u \in Users \cup {NULL}}]
  BY <1>1, <1>2
<1>4. ASSUME NEW t \in Preexisting, assignee[t] # NULL
      PROVE  /\ assignee[t] \in Users
             /\ <<AssignmentRow(NULL, assignee[t], "MANUAL")>> =
                  <<Promise!Assignment(NULL, assignee[t], "MANUAL")>>
  BY <1>1, <1>4 DEF AssignmentRow, Promise!Assignment
<1>5. history \in [Tickets -> {<<>>} \cup
                     {<<Promise!Assignment(NULL, u, "MANUAL")>> : u \in Users}]
  BY <1>1, <1>4
<1> QED
  BY <1>3, <1>5 DEF Init, Promise!Init

(* What a request writes is recent enough for the promise.                  *)
LEMMA RecentWrite ==
  ASSUME IInv, NEW r \in Requests, req[r].pc = "decided"
  PROVE  req[r].now \in 0..now /\ now < req[r].now + SLA
<1>1. req[r].now \in Nat /\ now \in Nat
  BY DEF IInv, TypeOK, RequestsTyped, Request
<1>2. req[r].now <= now /\ now <= req[r].now + RequestLatency
  BY DEF IInv, RequestsTimely
<1> QED
  BY <1>1, <1>2, ParameterAssumption, LatencyAssumption

LEMMA RowOf ==
  ASSUME NEW row \in TicketRow
  PROVE  row = Promise!Row(row.status, row.assigneeId, row.lastActivityAt, row.slaDueAt,
                           row.autoReassignCount)
BY DEF Promise!Row, TicketRow

(* A request that writes a row whose count is that of the row it replaces.  *)
LEMMA WriteRefines ==
  ASSUME IInv, NEW r \in Requests, req[r].pc = "decided", NEW row \in TicketRow,
         req[r].ticketId \in Tickets,
         row.lastActivityAt = req[r].now,
         row.slaDueAt \in {NULL, req[r].now + SLA},
         row.autoReassignCount =
           IF ticket[req[r].ticketId] = NULL THEN 0
                                             ELSE ticket[req[r].ticketId].autoReassignCount,
         ticket' = [ticket EXCEPT ![req[r].ticketId] = row],
         UNCHANGED <<now, history>>
  PROVE  Promise!HumanActivity(req[r].ticketId)
<1>1. row.lastActivityAt \in 0..now /\ now < row.lastActivityAt + SLA
  BY RecentWrite
<1>2. row.status \in TicketStatus /\ row.assigneeId \in Users \cup {NULL}
  BY DEF TicketRow
<1>3. row.slaDueAt \in {NULL, Promise!Due(row.lastActivityAt)}
  BY DEF Promise!Due, Promise!ComputeSlaDueAt
<1>4. TicketStatus = Promise!TicketStatus
  BY DEF TicketStatus, ActiveStatus, Promise!TicketStatus, Promise!ActiveStatus
<1>5. ticket' = [ticket EXCEPT ![req[r].ticketId] =
         Promise!Row(row.status, row.assigneeId, row.lastActivityAt, row.slaDueAt,
           IF ticket[req[r].ticketId] = NULL
             THEN 0 ELSE ticket[req[r].ticketId].autoReassignCount)]
  BY RowOf
<1>6. \E at \in 0..now :
        /\ now < at + SLA
        /\ \E status \in Promise!TicketStatus, assignee \in Users \cup {NULL},
              due \in {NULL, Promise!Due(at)} :
             ticket' = [ticket EXCEPT ![req[r].ticketId] =
               Promise!Row(status, assignee, at, due,
                 IF ticket[req[r].ticketId] = NULL
                   THEN 0 ELSE ticket[req[r].ticketId].autoReassignCount)]
  <2> row.status \in Promise!TicketStatus
    BY <1>2, <1>4
  <2> USE <1>1, <1>2, <1>3
  <2> WITNESS row.lastActivityAt \in 0..now
  <2>1. now < row.lastActivityAt + SLA
    OBVIOUS
  <2>2. \E status \in Promise!TicketStatus, assignee \in Users \cup {NULL},
           due \in {NULL, Promise!Due(row.lastActivityAt)} :
          ticket' = [ticket EXCEPT ![req[r].ticketId] =
            Promise!Row(status, assignee, row.lastActivityAt, due,
              IF ticket[req[r].ticketId] = NULL
                THEN 0 ELSE ticket[req[r].ticketId].autoReassignCount)]
    <3> WITNESS row.status \in Promise!TicketStatus, row.assigneeId \in Users \cup {NULL},
                row.slaDueAt \in {NULL, Promise!Due(row.lastActivityAt)}
    <3> QED
      BY <1>5
  <2> QED
    BY <2>1, <2>2
<1> QED
  BY <1>6 DEF Promise!HumanActivity

LEMMA InsertRefines ==
  ASSUME IInv, NEW r \in Requests, InsertTicket(r)
  PROVE  Promise!HumanActivity(req[r].ticketId) /\ req[r].ticketId \in Tickets
<1> DEFINE row == CreatedRow(req[r].assigneeId, req[r].now)
<1>1. /\ req[r] \in Request /\ req[r].pc = "decided" /\ req[r].ticketId \in Tickets
      /\ req[r].now \in Nat
  BY DEF IInv, TypeOK, RequestsTyped, InsertTicket, Request
<1>2. /\ row \in TicketRow /\ row.lastActivityAt = req[r].now
      /\ row.slaDueAt \in {NULL, req[r].now + SLA} /\ row.autoReassignCount = 0
  BY <1>1, ParameterAssumption
     DEF Request, CreatedRow, TicketRow, ComputeSlaDueAt, TicketStatus, ActiveStatus
<1> HIDE DEF row
<1>3. /\ ticket' = [ticket EXCEPT ![req[r].ticketId] = row]
      /\ ticket[req[r].ticketId] = NULL
      /\ UNCHANGED <<now, history>>
  BY DEF InsertTicket, row
<1> QED
  BY <1>1, <1>2, <1>3, WriteRefines

(* One lemma for the three patches: each leaves the count alone.            *)
LEMMA PatchRefines ==
  ASSUME IInv, NEW r \in Requests, NEW kind, NEW row \in TicketRow, NEW next,
         req[r].ticketId \in Tickets, ticket[req[r].ticketId] \in TicketRow,
         row.lastActivityAt = req[r].now,
         row.slaDueAt \in {NULL, req[r].now + SLA},
         row.autoReassignCount = ticket[req[r].ticketId].autoReassignCount,
         UpdateTicket(r, kind, row, next)
  PROVE  Promise!HumanActivity(req[r].ticketId)
BY WriteRefines, NullIsNoRow DEF UpdateTicket

LEMMA UpdateRefines ==
  ASSUME IInv, NEW r \in Requests, WriteComment(r) \/ WriteAssign(r) \/ WriteStatus(r)
  PROVE  Promise!HumanActivity(req[r].ticketId) /\ req[r].ticketId \in Tickets
<1> DEFINE row == ticket[req[r].ticketId]
           due == IF IsTicketActive(req[r].to)
                    THEN ComputeSlaDueAt(req[r].now, SLA) ELSE NULL
<1>1. /\ req[r] \in Request /\ req[r].ticketId \in Tickets /\ req[r].now \in Nat
      /\ row \in TicketRow
      /\ ComputeSlaDueAt(req[r].now, SLA) = req[r].now + SLA /\ req[r].now + SLA \in Nat
  BY PatchedRow DEF IInv
<1>2. due \in {NULL, req[r].now + SLA}
  BY <1>1
<1> HIDE DEF due
<1>3. CASE WriteComment(r)
  <2> DEFINE new == [row EXCEPT !.lastActivityAt = req[r].now,
                                !.slaDueAt = ComputeSlaDueAt(req[r].now, SLA)]
  <2>1. /\ new \in TicketRow /\ new.lastActivityAt = req[r].now
        /\ new.slaDueAt \in {NULL, req[r].now + SLA}
        /\ new.autoReassignCount = row.autoReassignCount
    BY <1>1 DEF TicketRow
  <2>2. UpdateTicket(r, "comment", new, "publish")
    BY <1>3 DEF WriteComment
  <2> HIDE DEF new
  <2> QED
    BY <1>1, <2>1, <2>2, PatchRefines
<1>4. CASE WriteAssign(r)
  <2> DEFINE new == [row EXCEPT !.assigneeId = req[r].assigneeId,
                                !.lastActivityAt = req[r].now,
                                !.slaDueAt = ComputeSlaDueAt(req[r].now, SLA)]
  <2>1. /\ new \in TicketRow /\ new.lastActivityAt = req[r].now
        /\ new.slaDueAt \in {NULL, req[r].now + SLA}
        /\ new.autoReassignCount = row.autoReassignCount
    BY <1>1 DEF TicketRow, Request
  <2>2. UpdateTicket(r, "assign", new, "written")
    BY <1>4 DEF WriteAssign
  <2> HIDE DEF new
  <2> QED
    BY <1>1, <2>1, <2>2, PatchRefines
<1>5. CASE WriteStatus(r)
  <2> DEFINE new == [row EXCEPT !.status = req[r].to,
                                !.lastActivityAt = req[r].now,
                                !.slaDueAt = due]
  <2>1. /\ new \in TicketRow /\ new.lastActivityAt = req[r].now
        /\ new.slaDueAt \in {NULL, req[r].now + SLA}
        /\ new.autoReassignCount = row.autoReassignCount
    BY <1>1, <1>2 DEF TicketRow, Request
  <2>2. UpdateTicket(r, "status", new, "publish")
    BY <1>5 DEF WriteStatus, due
  <2> HIDE DEF new
  <2> QED
    BY <1>1, <2>1, <2>2, PatchRefines
<1> QED
  BY <1>1, <1>3, <1>4, <1>5

LEMMA RecordRefines ==
  ASSUME IInv, NEW r \in Requests, RecordAssignment(r)
  PROVE  Promise!RecordManual(req[r].ticketId) /\ req[r].ticketId \in Tickets
<1>1. /\ req[r] \in Request /\ req[r].ticketId \in Tickets
      /\ req[r].assigneeId \in Users /\ req[r].fromUserId \in Users \cup {NULL}
  BY DEF IInv, TypeOK, RequestsTyped, RecordAssignment, Request
<1>2. AssignmentRow(req[r].fromUserId, req[r].assigneeId, "MANUAL") =
        Promise!Assignment(req[r].fromUserId, req[r].assigneeId, "MANUAL")
  BY DEF AssignmentRow, Promise!Assignment
<1> QED
  BY <1>1, <1>2 DEF RecordAssignment, Promise!RecordManual

-----------------------------------------------------------------------------
(* A commit, seen by the promise, reassigns the row as it is.               *)
LEMMA CommitRefines ==
  ASSUME IInv, NEW l \in Lanes, CommitReassignment(l)
  PROVE  \E t \in Tickets :
           \/ \E u \in Agents : Promise!AutoReassign(t, u)
           \/ \E u \in Admins : Promise!Escalate(t, u)
<1> DEFINE x == exec[l]
           t == x.ticketId
           u == x.toUserId
           new == ReassignedRow(x, x.snap)
<1>1. /\ x \in Execution /\ t \in Tickets /\ x.snap \in TicketRow /\ ticket[t] = x.snap
      /\ IsOverdue(x.snap, x.now) /\ x.now \in 0..now /\ u \in Users
      /\ u \in Heirs(x.snap)
      /\ ticket' = [ticket EXCEPT ![t] = new] /\ UNCHANGED now
  BY CommitFacts
<1>2. u # NULL
  <2>1. \A v \in Users : v # NULL
    BY ParameterAssumption, NullAssumption
  <2> QED
    BY <1>1, <2>1
<1>3. ticket[t] # NULL
  BY <1>1, NullIsNoRow
<1>4. Promise!IsOverdue(ticket[t], x.now)
  BY <1>1 DEF IsOverdue, IsTicketActive, ActiveStatus,
              Promise!IsOverdue, Promise!IsTicketActive, Promise!ActiveStatus
<1>5. new = Promise!Row(ticket[t].status, u, x.now, NewSlaDueAt(x),
                        ticket[t].autoReassignCount + 1)
  <2>1. /\ new \in TicketRow
        /\ new.status = x.snap.status /\ new.assigneeId = u
        /\ new.lastActivityAt = x.now /\ new.slaDueAt = NewSlaDueAt(x)
        /\ new.autoReassignCount = x.snap.autoReassignCount + 1
    BY <1>1, <1>2, ReassignedRowFields
  <2> HIDE DEF new
  <2> QED
    BY <1>1, <2>1, RowOf
<1> HIDE DEF new
<1>6. history' = [history EXCEPT ![t] =
        Append(@, Promise!Assignment(ticket[t].assigneeId, u, ReasonOf(x)))]
  BY <1>1 DEF CommitReassignment, AssignmentRow, Promise!Assignment
<1>7. Promise!Reassign(t, u, x.now, NewSlaDueAt(x), ReasonOf(x))
  BY <1>1, <1>5, <1>6 DEF Promise!Reassign
<1>8. x.snap.autoReassignCount \in Nat /\ MaxAutoReassignments \in Nat
  BY <1>1, ParameterAssumption DEF TicketRow
<1>9. CASE CapReached(x.snap)
  <2>1. u \in Admins /\ NewSlaDueAt(x) = NULL /\ ReasonOf(x) = "ESCALATION"
    BY <1>1, <1>9 DEF Heirs, NewSlaDueAt, ReasonOf
  <2>2. ticket[t].autoReassignCount >= MaxAutoReassignments
    BY <1>1, <1>9 DEF CapReached
  <2>3. Promise!Escalate(t, u)
    BY <1>1, <1>3, <1>4, <1>7, <2>1, <2>2 DEF Promise!Escalate
  <2> QED
    BY <1>1, <2>1, <2>3
<1>10. CASE ~ CapReached(x.snap)
  <2>1. /\ u \in Agents /\ u # ticket[t].assigneeId
        /\ NewSlaDueAt(x) = Promise!Due(x.now) /\ ReasonOf(x) = "AUTO_REASSIGN"
    BY <1>1, <1>10 DEF Heirs, Candidates, NewSlaDueAt, ReasonOf, Promise!Due,
                       ComputeSlaDueAt, Promise!ComputeSlaDueAt
  <2>2. ticket[t].autoReassignCount < MaxAutoReassignments
    BY <1>1, <1>8, <1>10 DEF CapReached
  <2>3. Promise!AutoReassign(t, u)
    BY <1>1, <1>3, <1>4, <1>7, <2>1, <2>2 DEF Promise!AutoReassign
  <2> QED
    BY <1>1, <2>1, <2>3
<1> QED
  BY <1>9, <1>10

-----------------------------------------------------------------------------
LEMMA NextRefines ==
  ASSUME IInv, [Next]_vars
  PROVE  [Promise!Next]_(Promise!vars)
<1>1. CASE \E r \in Requests : RequestStep(r) \/ StopRequest(r)
  <2>1. PICK r \in Requests : RequestStep(r) \/ StopRequest(r)
    BY <1>1
  <2>2. CASE InsertTicket(r)
    BY <2>2, InsertRefines DEF Promise!Next
  <2>3. CASE WriteComment(r) \/ WriteAssign(r) \/ WriteStatus(r)
    BY <2>3, UpdateRefines DEF Promise!Next
  <2>4. CASE RecordAssignment(r)
    BY <2>4, RecordRefines DEF Promise!Next
  <2> QED
    BY <2>1, <2>2, <2>3, <2>4
       DEF RequestStep, BeginCreate, ReadForComment, ReadForAssign, ReadForStatus,
           ReadTicket, TakeInstant, PublishRequest, StopRequest, Promise!vars
<1>2. CASE \E l \in Lanes : ExecutionStep(l) \/ StopExecution(l) \/ Stall(l)
  <2>1. PICK l \in Lanes : ExecutionStep(l) \/ StopExecution(l) \/ Stall(l)
    BY <1>2
  <2>2. CASE CommitReassignment(l)
    BY <2>2, CommitRefines DEF Promise!Next
  <2> QED
    BY <2>1, <2>2
       DEF ExecutionStep, CheckTicket, PickAssignee, GiveUp, LoseRace, PublishBreach,
           PublishReassigned, StopExecution, Stall, Promise!vars
<1>3. CASE (\E w \in Workers : TakeSomeJob(w)) \/ (\E s \in Sweeps : StartSweep(s))
  BY <1>3 DEF TakeSomeJob, TakeJob, StartSweep, Sweep, Promise!vars
<1>4. CASE Tick
  BY <1>4 DEF Tick, Promise!Tick, Promise!Next
<1>5. CASE UNCHANGED vars
  BY <1>5 DEF vars, Promise!vars
<1> QED
  BY <1>1, <1>2, <1>3, <1>4, <1>5 DEF Next

(* Requests, jobs, sweeps and their faults, interleaved in every way,       *)
(* implement the atomic reassignment of overdue tickets.                    *)
THEOREM Refinement == Spec => PromiseSpec
<1>1. Init => Promise!Init
  BY InitRefines
<1>2. IInv /\ [Next]_vars => [Promise!Next]_(Promise!vars)
  BY NextRefines
<1> QED
  BY <1>1, <1>2, Inductive, PTL DEF Spec, PromiseSpec, Promise!Spec

-----------------------------------------------------------------------------
(* A ticket is reassigned automatically at most MaxAutoReassignments times. *)
(* The argument is made on the steps of the promise, which every step of    *)
(* the system is: the count of a row is at least the number of its          *)
(* automatic reassignments.                                                 *)

(* The rows of a history that count.                                        *)
Counted(h) == {i \in DOMAIN h : h[i].reason = "AUTO_REASSIGN"}

(* A history h that agrees with the row it belongs to.                      *)
CapKept(h, row) ==
  /\ IsFiniteSet(Counted(h))
  /\ Cardinality(Counted(h)) <= MaxAutoReassignments
  /\ row = NULL => Counted(h) = {}
  /\ row # NULL => Cardinality(Counted(h)) <= row.autoReassignCount

CapInv == \A t \in Tickets : CapKept(history[t], ticket[t])

-----------------------------------------------------------------------------
LEMMA CountedOther ==
  ASSUME NEW S, NEW h \in Seq(S), NEW row, row.reason # "AUTO_REASSIGN"
  PROVE  Counted(Append(h, row)) = Counted(h)
<1>1. /\ DOMAIN Append(h, row) = 1..(Len(h) + 1) /\ DOMAIN h = 1..Len(h)
      /\ Append(h, row)[Len(h) + 1] = row
      /\ \A i \in 1..Len(h) : Append(h, row)[i] = h[i]
  OBVIOUS
<1> QED
  BY <1>1 DEF Counted

LEMMA CountedAuto ==
  ASSUME NEW S, NEW h \in Seq(S), NEW row, row.reason = "AUTO_REASSIGN"
  PROVE  Counted(Append(h, row)) = Counted(h) \cup {Len(h) + 1} /\ Len(h) + 1 \notin Counted(h)
<1>1. /\ DOMAIN Append(h, row) = 1..(Len(h) + 1) /\ DOMAIN h = 1..Len(h)
      /\ Append(h, row)[Len(h) + 1] = row
      /\ \A i \in 1..Len(h) : Append(h, row)[i] = h[i]
  OBVIOUS
<1> QED
  BY <1>1 DEF Counted

LEMMA InitCap == ASSUME Init PROVE CapInv
<1>1. IInv
  BY InitInv
<1>2. ASSUME NEW t \in Tickets PROVE Counted(history[t]) = {}
  <2>1. history[t] = <<>> \/ \E u \in Users : history[t] = <<AssignmentRow(NULL, u, "MANUAL")>>
    BY DEF Init
  <2>2. Counted(<<>>) = {}
    BY DEF Counted
  <2>3. ASSUME NEW u PROVE Counted(<<AssignmentRow(NULL, u, "MANUAL")>>) = {}
    BY DEF Counted, AssignmentRow
  <2> QED
    BY <2>1, <2>2, <2>3
<1>3. IsFiniteSet({}) /\ Cardinality({}) = 0
  BY FS_EmptySet
<1>4. ASSUME NEW t \in Tickets, ticket[t] # NULL PROVE 0 <= ticket[t].autoReassignCount
  BY <1>1, <1>4 DEF IInv, TypeOK, TicketRow
<1>5. ASSUME NEW t \in Tickets PROVE CapKept(history[t], ticket[t])
  <2>1. MaxAutoReassignments \in Nat
    BY ParameterAssumption
  <2> QED
    BY <1>2, <1>3, <1>4, <2>1 DEF CapKept
<1> QED
  BY <1>5 DEF CapInv

(* The rows the promise writes are rows.                                    *)
LEMMA RowIsNotNull ==
  ASSUME NEW status \in TicketStatus, NEW u \in Users \cup {NULL}, NEW at \in Nat,
         NEW due \in Nat \cup {NULL}, NEW count \in Nat
  PROVE  /\ Promise!Row(status, u, at, due, count) # NULL
         /\ Promise!Row(status, u, at, due, count).autoReassignCount = count
<1>1. Promise!Row(status, u, at, due, count) \in TicketRow
  BY DEF Promise!Row, TicketRow
<1> QED
  BY <1>1, NullIsNoRow DEF Promise!Row

(* A reassignment of the promise writes a row with one more in its count.   *)
LEMMA ReassignFacts ==
  ASSUME IInv, NEW t \in Tickets, ticket[t] # NULL, NEW u \in Users, NEW at \in 0..now,
         NEW due \in Nat \cup {NULL}, NEW reason, Promise!Reassign(t, u, at, due, reason)
  PROVE  /\ ticket'[t] # NULL
         /\ ticket'[t].autoReassignCount = ticket[t].autoReassignCount + 1
         /\ \A o \in Tickets \ {t} : ticket'[o] = ticket[o] /\ history'[o] = history[o]
         /\ history'[t] =
              Append(history[t], Promise!Assignment(ticket[t].assigneeId, u, reason))
<1> DEFINE new == Promise!Row(ticket[t].status, u, at, due, ticket[t].autoReassignCount + 1)
<1>1. ticket' = [ticket EXCEPT ![t] = new]
  BY DEF Promise!Reassign
<1>2. /\ ticket[t].status \in TicketStatus /\ at \in Nat
      /\ ticket[t].autoReassignCount + 1 \in Nat
  BY DEF IInv, TypeOK, TicketRow
<1>3. new # NULL /\ new.autoReassignCount = ticket[t].autoReassignCount + 1
  BY <1>2, RowIsNotNull
<1> HIDE DEF new
<1>4. ticket'[t] = new /\ \A o \in Tickets \ {t} : ticket'[o] = ticket[o]
  BY <1>1 DEF IInv, TypeOK
<1>5. /\ \A o \in Tickets \ {t} : history'[o] = history[o]
      /\ history'[t] = Append(history[t], Promise!Assignment(ticket[t].assigneeId, u, reason))
  BY DEF IInv, TypeOK, Promise!Reassign
<1> QED
  BY <1>3, <1>4, <1>5

LEMMA HumanActivityCap ==
  ASSUME IInv, CapInv, NEW t \in Tickets, Promise!HumanActivity(t)
  PROVE  CapInv'
<1> DEFINE count == IF ticket[t] = NULL THEN 0 ELSE ticket[t].autoReassignCount
<1>1. PICK at \in 0..now, status \in Promise!TicketStatus, u \in Users \cup {NULL} :
        \E due \in {NULL, Promise!Due(at)} :
          ticket' = [ticket EXCEPT ![t] = Promise!Row(status, u, at, due, count)]
  BY DEF Promise!HumanActivity
<1>2. PICK due \in {NULL, Promise!Due(at)} :
        ticket' = [ticket EXCEPT ![t] = Promise!Row(status, u, at, due, count)]
  BY <1>1
<1> DEFINE new == Promise!Row(status, u, at, due, count)
<1>3. /\ status \in TicketStatus /\ at \in Nat /\ due \in Nat \cup {NULL} /\ count \in Nat
  <2>1. status \in TicketStatus
    BY DEF TicketStatus, ActiveStatus, Promise!TicketStatus, Promise!ActiveStatus
  <2>2. at \in Nat /\ due \in Nat \cup {NULL}
    BY ParameterAssumption DEF IInv, TypeOK, Promise!Due, Promise!ComputeSlaDueAt
  <2>3. count \in Nat
    BY DEF IInv, TypeOK, TicketRow
  <2> QED
    BY <2>1, <2>2, <2>3
<1>4. new # NULL /\ new.autoReassignCount = count
  BY <1>3, RowIsNotNull
<1> HIDE DEF new
<1>5. /\ ticket'[t] = new
      /\ \A o \in Tickets \ {t} : ticket'[o] = ticket[o]
      /\ history' = history
  BY <1>2 DEF IInv, TypeOK, Promise!HumanActivity, new
<1>6. CapKept(history[t], ticket[t]) /\ Cardinality({}) = 0
  BY FS_EmptySet DEF CapInv
<1>7. CapKept(history[t], new)
  BY <1>4, <1>6 DEF CapKept
<1> QED
  BY <1>5, <1>7 DEF CapInv

LEMMA RecordManualCap ==
  ASSUME IInv, CapInv, NEW t \in Tickets, Promise!RecordManual(t)
  PROVE  CapInv'
<1>1. PICK from \in Users \cup {NULL}, to \in Users :
        history' = [history EXCEPT ![t] = Append(@, Promise!Assignment(from, to, "MANUAL"))]
  BY DEF Promise!RecordManual
<1>2. Promise!Assignment(from, to, "MANUAL").reason # "AUTO_REASSIGN"
  BY DEF Promise!Assignment
<1>3. history[t] \in Seq(Assignment) /\ history \in [Tickets -> Seq(Assignment)]
  BY DEF IInv, TypeOK
<1>4. Counted(history'[t]) = Counted(history[t])
  BY <1>1, <1>2, <1>3, CountedOther
<1>5. CapKept(history'[t], ticket[t])
  BY <1>4 DEF CapInv, CapKept
<1> QED
  BY <1>1, <1>3, <1>5 DEF CapInv, Promise!RecordManual

LEMMA AutoReassignCap ==
  ASSUME IInv, CapInv, NEW t \in Tickets, NEW u \in Agents, Promise!AutoReassign(t, u)
  PROVE  CapInv'
<1> DEFINE row == Promise!Assignment(ticket[t].assigneeId, u, "AUTO_REASSIGN")
<1>1. /\ ticket[t] # NULL /\ ticket[t].autoReassignCount < MaxAutoReassignments
      /\ \E at \in 0..now : Promise!Reassign(t, u, at, Promise!Due(at), "AUTO_REASSIGN")
  BY DEF Promise!AutoReassign
<1>2. \A at \in 0..now : Promise!Due(at) \in Nat
  BY ParameterAssumption DEF IInv, TypeOK, Promise!Due, Promise!ComputeSlaDueAt
<1>3. /\ ticket'[t] # NULL
      /\ ticket'[t].autoReassignCount = ticket[t].autoReassignCount + 1
      /\ \A o \in Tickets \ {t} : ticket'[o] = ticket[o] /\ history'[o] = history[o]
      /\ history'[t] = Append(history[t], row)
  <2>1. PICK at \in 0..now : Promise!Reassign(t, u, at, Promise!Due(at), "AUTO_REASSIGN")
    BY <1>1
  <2>2. Promise!Due(at) \in Nat /\ u \in Users
    BY <1>2, ParameterAssumption
  <2> QED
    BY <1>1, <2>1, <2>2, ReassignFacts
<1>4. history[t] \in Seq(Assignment) /\ row.reason = "AUTO_REASSIGN"
  BY DEF IInv, TypeOK, Promise!Assignment
<1> HIDE DEF row
<1>5. /\ Counted(history'[t]) = Counted(history[t]) \cup {Len(history[t]) + 1}
      /\ Len(history[t]) + 1 \notin Counted(history[t])
  BY <1>3, <1>4, CountedAuto
<1>6. CapKept(history[t], ticket[t])
  BY DEF CapInv
<1>7. /\ IsFiniteSet(Counted(history'[t]))
      /\ Cardinality(Counted(history'[t])) = Cardinality(Counted(history[t])) + 1
      /\ Cardinality(Counted(history[t])) \in Nat
  BY <1>5, <1>6, FS_AddElement, FS_CardinalityType DEF CapKept
<1>8. ticket[t].autoReassignCount \in Nat /\ MaxAutoReassignments \in Nat
  BY <1>1, ParameterAssumption DEF IInv, TypeOK, TicketRow
<1>9. CapKept(history'[t], ticket'[t])
  BY <1>1, <1>3, <1>6, <1>7, <1>8 DEF CapKept
<1> QED
  BY <1>3, <1>9 DEF CapInv

LEMMA EscalateCap ==
  ASSUME IInv, CapInv, NEW t \in Tickets, NEW u \in Admins, Promise!Escalate(t, u)
  PROVE  CapInv'
<1> DEFINE row == Promise!Assignment(ticket[t].assigneeId, u, "ESCALATION")
<1>1. /\ ticket[t] # NULL
      /\ \E at \in 0..now : Promise!Reassign(t, u, at, NULL, "ESCALATION")
  BY DEF Promise!Escalate
<1>2. /\ ticket'[t] # NULL
      /\ ticket'[t].autoReassignCount = ticket[t].autoReassignCount + 1
      /\ \A o \in Tickets \ {t} : ticket'[o] = ticket[o] /\ history'[o] = history[o]
      /\ history'[t] = Append(history[t], row)
  <2>1. PICK at \in 0..now : Promise!Reassign(t, u, at, NULL, "ESCALATION")
    BY <1>1
  <2>2. u \in Users
    BY ParameterAssumption
  <2> QED
    BY <1>1, <2>1, <2>2, ReassignFacts
<1>3. history[t] \in Seq(Assignment) /\ row.reason # "AUTO_REASSIGN"
  BY DEF IInv, TypeOK, Promise!Assignment
<1> HIDE DEF row
<1>4. Counted(history'[t]) = Counted(history[t])
  BY <1>2, <1>3, CountedOther
<1>5. CapKept(history[t], ticket[t])
  BY DEF CapInv
<1>6. Cardinality(Counted(history[t])) \in Nat
  BY <1>5, FS_CardinalityType DEF CapKept
<1>7. ticket[t].autoReassignCount \in Nat
  BY <1>1 DEF IInv, TypeOK, TicketRow
<1>8. CapKept(history'[t], ticket'[t])
  BY <1>1, <1>2, <1>4, <1>5, <1>6, <1>7 DEF CapKept
<1> QED
  BY <1>2, <1>8 DEF CapInv

LEMMA NextCap ==
  ASSUME IInv, CapInv, [Next]_vars
  PROVE  CapInv'
<1>1. [Promise!Next]_(Promise!vars)
  BY NextRefines
<1>2. ASSUME UNCHANGED <<ticket, history>> PROVE CapInv'
  BY <1>2 DEF CapInv
<1> QED
  BY <1>1, <1>2, HumanActivityCap, RecordManualCap, AutoReassignCap, EscalateCap
     DEF Promise!Next, Promise!Tick, Promise!vars

(* Although the count an execution compares was read two awaits before its  *)
(* commit, no ticket is reassigned automatically more often than allowed.   *)
THEOREM CapHolds == Spec => []CapRespected
<1>1. Init => CapInv
  BY InitCap
<1>2. IInv /\ CapInv /\ [Next]_vars => CapInv'
  BY NextCap
<1>3. CapInv => CapRespected
  <2>1. \A t \in Tickets : AutoReassignments(t) = Counted(history[t])
    BY DEF Counted, AutoReassignments
  <2> QED
    BY <2>1 DEF CapInv, CapKept, CapRespected
<1> QED
  BY <1>1, <1>2, <1>3, Inductive, PTL DEF Spec
=============================================================================
