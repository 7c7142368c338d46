------------------------- MODULE ReassignmentSafety -------------------------
(***************************************************************************)
(* Proofs that the invariant IInv is inductive and that it makes automatic  *)
(* reassignment safe, for every number of tickets, users, requests, workers *)
(* and sweeps and every SLA longer than the latency of a request.           *)
(***************************************************************************)
EXTENDS ReassignmentTypes

-----------------------------------------------------------------------------
(* The parts of IInv under the steps that can disturb them *)

(* Executions that stay as they are keep sound snapshots if each row in use *)
(* stays or gets a later activity.                                          *)
LEMMA SnapshotsKept ==
  ASSUME SnapshotsSound, now \in Int, now' \in Int, now <= now', UNCHANGED exec,
         \A l \in Lanes : exec[l].now \in Int,
         \A l \in Lanes : exec[l].pc \in {"pick", "commit"} =>
           \/ ticket'[exec[l].ticketId] = ticket[exec[l].ticketId]
           \/ ticket'[exec[l].ticketId].lastActivityAt > exec[l].snap.lastActivityAt
  PROVE  SnapshotsSound'
<1>1. ASSUME NEW l \in Lanes PROVE exec'[l].now <= now'
  BY DEF SnapshotsSound
<1>2. ASSUME NEW l \in Lanes, exec'[l].pc \in {"pick", "commit"}
      PROVE  SnapshotSound(exec'[l], ticket'[exec'[l].ticketId])
  BY <1>2 DEF SnapshotsSound, SnapshotSound
<1> QED
  BY <1>1, <1>2 DEF SnapshotsSound

(* One execution moves on and no row changes.                               *)
LEMMA SnapshotMoved ==
  ASSUME SnapshotsSound, ExecutionsTyped, UNCHANGED <<now, ticket>>,
         NEW l \in Lanes, NEW x, exec' = [exec EXCEPT ![l] = x],
         x.now <= now,
         x.pc \in {"pick", "commit"} => SnapshotSound(x, ticket[x.ticketId])
  PROVE  SnapshotsSound'
<1>1. ASSUME NEW o \in Lanes
      PROVE  /\ exec'[o].now <= now'
             /\ exec'[o].pc \in {"pick", "commit"} =>
                  SnapshotSound(exec'[o], ticket'[exec'[o].ticketId])
  <2>1. CASE o = l
    BY <2>1 DEF ExecutionsTyped
  <2>2. CASE o # l
    BY <2>2 DEF ExecutionsTyped, SnapshotsSound
  <2> QED
    BY <2>1, <2>2
<1> QED
  BY <1>1 DEF SnapshotsSound

LEMMA RowDated ==
  ASSUME RowsDated, ticket \in [Tickets -> TicketRow \cup {NULL}], UNCHANGED now,
         NEW t \in Tickets, NEW row \in TicketRow, ticket' = [ticket EXCEPT ![t] = row],
         row.lastActivityAt <= now, row.slaDueAt \in {NULL, row.lastActivityAt + SLA}
  PROVE  RowsDated'
BY DEF RowsDated

(* A request that does not take its instant in this step.                   *)
LEMMA TimelyKept ==
  ASSUME RequestsTimely, RequestsTyped, UNCHANGED now,
         NEW r \in Requests, NEW q, req' = [req EXCEPT ![r] = q], q.pc # "decided"
  PROVE  RequestsTimely'
BY DEF RequestsTimely, RequestsTyped

(* What a request is about to write is later than the activity in any       *)
(* snapshot: the snapshot is one SLA old and the request less.              *)
LEMMA WriteIsLater ==
  ASSUME IInv, NEW r \in Requests, req[r].pc = "decided",
         NEW l \in Lanes, exec[l].pc \in {"pick", "commit"}
  PROVE  req[r].now > exec[l].snap.lastActivityAt
<1>1. /\ now \in Nat /\ req[r].now \in Nat /\ exec[l].now \in Nat
      /\ exec[l].snap.lastActivityAt \in Nat
  BY DEF IInv, TypeOK, RequestsTyped, ExecutionsTyped, Request, Execution, TicketRow
<1>2. /\ now <= req[r].now + RequestLatency
      /\ exec[l].now <= now
      /\ exec[l].snap.lastActivityAt + SLA <= exec[l].now
  BY DEF IInv, RequestsTimely, SnapshotsSound, SnapshotSound, IsOverdue
<1>3. RequestLatency \in Nat /\ SLA \in Nat /\ RequestLatency < SLA
  BY ParameterAssumption, LatencyAssumption
<1> QED
  BY <1>1, <1>2, <1>3

LEMMA LanesTimed ==
  ASSUME TypeOK PROVE now \in Int /\ \A l \in Lanes : exec[l].now \in Int
BY DEF TypeOK, ExecutionsTyped, Execution

-----------------------------------------------------------------------------
(* The actions of a request *)

LEMMA RequestWrite ==
  ASSUME IInv, NEW r \in Requests, NEW row \in TicketRow, req[r].pc = "decided",
         req[r].ticketId \in Tickets,
         ticket' = [ticket EXCEPT ![req[r].ticketId] = row],
         row.lastActivityAt = req[r].now,
         row.slaDueAt \in {NULL, req[r].now + SLA},
         UNCHANGED <<now, exec>>
  PROVE  RowsDated' /\ SnapshotsSound'
<1>1. RowsDated'
  <2>1. row.lastActivityAt <= now
    BY DEF IInv, RequestsTimely
  <2> QED
    BY <2>1, RowDated DEF IInv, TypeOK
<1>2. ASSUME NEW l \in Lanes, exec[l].pc \in {"pick", "commit"}
      PROVE  \/ ticket'[exec[l].ticketId] = ticket[exec[l].ticketId]
             \/ ticket'[exec[l].ticketId].lastActivityAt > exec[l].snap.lastActivityAt
  <2>1. CASE exec[l].ticketId = req[r].ticketId
    BY <1>2, <2>1, WriteIsLater DEF IInv, TypeOK
  <2>2. CASE exec[l].ticketId # req[r].ticketId
    BY <2>2 DEF IInv, TypeOK
  <2> QED
    BY <2>1, <2>2
<1>3. now \in Int /\ (\A l \in Lanes : exec[l].now \in Int) /\ now <= now'
  BY LanesTimed DEF IInv
<1>4. SnapshotsSound'
  BY <1>2, <1>3, SnapshotsKept DEF IInv
<1> QED
  BY <1>1, <1>4

LEMMA InsertTicketKeeps ==
  ASSUME IInv, NEW r \in Requests, InsertTicket(r)
  PROVE  RowsDated' /\ RequestsTimely' /\ SnapshotsSound'
<1> DEFINE row == CreatedRow(req[r].assigneeId, req[r].now)
           q == [req[r] EXCEPT !.pc = AfterInsert(req[r])]
<1>1. /\ req[r] \in Request /\ req[r].pc = "decided" /\ req[r].ticketId \in Tickets
      /\ req[r].now \in Nat
  BY DEF IInv, TypeOK, RequestsTyped, InsertTicket, Request
<1>2. /\ row \in TicketRow /\ row.lastActivityAt = req[r].now
      /\ row.slaDueAt \in {NULL, req[r].now + SLA}
  BY <1>1, ParameterAssumption
     DEF Request, CreatedRow, TicketRow, ComputeSlaDueAt, TicketStatus, ActiveStatus
<1>3. RowsDated' /\ SnapshotsSound'
  BY <1>1, <1>2, RequestWrite DEF InsertTicket
<1>4. req' = [req EXCEPT ![r] = q] /\ q.pc # "decided"
  BY <1>1 DEF InsertTicket, AfterInsert, Request
<1>5. RequestsTimely'
  BY <1>4, TimelyKept DEF IInv, TypeOK, InsertTicket
<1> QED
  BY <1>3, <1>5

LEMMA UpdateTicketKeeps ==
  ASSUME IInv, NEW r \in Requests, NEW kind, NEW row \in TicketRow,
         NEW next \in {"written", "publish"},
         req[r].ticketId \in Tickets,
         row.lastActivityAt = req[r].now,
         row.slaDueAt \in {NULL, req[r].now + SLA},
         UpdateTicket(r, kind, row, next)
  PROVE  RowsDated' /\ RequestsTimely' /\ SnapshotsSound'
<1> DEFINE q == [req[r] EXCEPT !.pc = next]
<1>1. req[r] \in Request /\ req[r].pc = "decided"
  BY DEF IInv, TypeOK, RequestsTyped, UpdateTicket
<1>2. RowsDated' /\ SnapshotsSound'
  BY <1>1, RequestWrite DEF UpdateTicket
<1>3. req' = [req EXCEPT ![r] = q] /\ q.pc # "decided"
  BY <1>1 DEF UpdateTicket, Request
<1>4. RequestsTimely'
  BY <1>3, TimelyKept DEF IInv, TypeOK, UpdateTicket
<1> QED
  BY <1>2, <1>4

(* The row that a request in state "decided" patches is there.              *)
LEMMA PatchedRow ==
  ASSUME TypeOK, NEW r \in Requests, WriteComment(r) \/ WriteAssign(r) \/ WriteStatus(r)
  PROVE  /\ req[r] \in Request /\ req[r].pc = "decided" /\ req[r].ticketId \in Tickets
         /\ req[r].now \in Nat /\ ticket[req[r].ticketId] \in TicketRow
         /\ ComputeSlaDueAt(req[r].now, SLA) = req[r].now + SLA
         /\ req[r].now + SLA \in Nat
<1>1. req[r].pc = "decided" /\ ~ Inserting(req[r])
  BY DEF Inserting, WriteComment, WriteAssign, WriteStatus, UpdateTicket
<1>2. req[r] \in Request /\ req[r].ticketId \in Tickets /\ req[r].now \in Nat
  BY <1>1 DEF TypeOK, RequestsTyped, Request
<1>3. ticket[req[r].ticketId] \in TicketRow
  BY <1>1, <1>2 DEF TypeOK, TicketsKnown
<1> QED
  BY <1>1, <1>2, <1>3, ParameterAssumption DEF ComputeSlaDueAt

LEMMA WriteKeeps ==
  ASSUME IInv, NEW r \in Requests, WriteComment(r) \/ WriteAssign(r) \/ WriteStatus(r)
  PROVE  RowsDated' /\ RequestsTimely' /\ SnapshotsSound'
<1> DEFINE row == ticket[req[r].ticketId]
<1>1. /\ req[r] \in Request /\ req[r].ticketId \in Tickets /\ req[r].now \in Nat
      /\ row \in TicketRow
      /\ ComputeSlaDueAt(req[r].now, SLA) = req[r].now + SLA /\ req[r].now + SLA \in Nat
  BY PatchedRow DEF IInv
<1>2. CASE WriteComment(r)
  <2> DEFINE new == [row EXCEPT !.lastActivityAt = req[r].now,
                                !.slaDueAt = ComputeSlaDueAt(req[r].now, SLA)]
  <2>1. /\ new \in TicketRow /\ new.lastActivityAt = req[r].now
        /\ new.slaDueAt \in {NULL, req[r].now + SLA}
    BY <1>1 DEF TicketRow
  <2>2. UpdateTicket(r, "comment", new, "publish")
    BY <1>2 DEF WriteComment
  <2> HIDE DEF new
  <2> QED
    BY <1>1, <2>1, <2>2, UpdateTicketKeeps
<1>3. CASE WriteAssign(r)
  <2> DEFINE new == [row EXCEPT !.assigneeId = req[r].assigneeId,
                                !.lastActivityAt = req[r].now,
                                !.slaDueAt = ComputeSlaDueAt(req[r].now, SLA)]
  <2>1. /\ new \in TicketRow /\ new.lastActivityAt = req[r].now
        /\ new.slaDueAt \in {NULL, req[r].now + SLA}
    BY <1>1 DEF TicketRow, Request
  <2>2. UpdateTicket(r, "assign", new, "written")
    BY <1>3 DEF WriteAssign
  <2> HIDE DEF new
  <2> QED
    BY <1>1, <2>1, <2>2, UpdateTicketKeeps
<1>4. CASE WriteStatus(r)
  <2> DEFINE due == IF IsTicketActive(req[r].to)
                      THEN ComputeSlaDueAt(req[r].now, SLA) ELSE NULL
             new == [row EXCEPT !.status = req[r].to,
                                !.lastActivityAt = req[r].now,
                                !.slaDueAt = due]
  <2>1. due \in {NULL, req[r].now + SLA}
    BY <1>1
  <2>2. /\ new \in TicketRow /\ new.lastActivityAt = req[r].now
        /\ new.slaDueAt \in {NULL, req[r].now + SLA}
    BY <1>1, <2>1 DEF TicketRow, Request
  <2>3. UpdateTicket(r, "status", new, "publish")
    BY <1>4 DEF WriteStatus
  <2> HIDE DEF new
  <2> QED
    BY <1>1, <2>2, <2>3, UpdateTicketKeeps
<1> QED
  BY <1>2, <1>3, <1>4

(* A step that touches neither the clock, the rows nor the executions.      *)
LEMMA StoreKeeps ==
  ASSUME IInv, UNCHANGED <<now, ticket, exec>>
  PROVE  RowsDated' /\ SnapshotsSound'
BY DEF IInv, RowsDated, SnapshotsSound

LEMMA BeginKeeps ==
  ASSUME IInv, NEW r \in Requests,
         \/ \E t \in Tickets, u \in Users \cup {NULL} : BeginCreate(r, t, u)
         \/ TakeInstant(r)
  PROVE  RowsDated' /\ RequestsTimely' /\ SnapshotsSound'
<1>1. UNCHANGED <<now, ticket, exec>>
  BY DEF BeginCreate, TakeInstant
<1>2. ASSUME NEW o \in Requests, req'[o].pc = "decided"
      PROVE  req'[o].now <= now /\ now <= req'[o].now + RequestLatency
  <2>1. CASE o # r
    BY <1>2, <2>1 DEF IInv, RequestsTimely, TypeOK, RequestsTyped, BeginCreate, TakeInstant
  <2>2. CASE o = r
    <3>1. req'[r].now = now
      BY DEF IInv, TypeOK, RequestsTyped, BeginCreate, TakeInstant, NewRequest, Request
    <3> QED
      BY <2>2, <3>1, ParameterAssumption DEF IInv, TypeOK
  <2> QED
    BY <2>1, <2>2
<1>3. RequestsTimely'
  BY <1>1, <1>2 DEF RequestsTimely
<1> QED
  BY <1>1, <1>3, StoreKeeps

LEMMA ReadKeeps ==
  ASSUME IInv, NEW r \in Requests, NEW t \in Tickets, NEW command, command.pc = "read",
         ReadTicket(r, t, command)
  PROVE  RowsDated' /\ RequestsTimely' /\ SnapshotsSound'
BY StoreKeeps, TimelyKept DEF ReadTicket, IInv, TypeOK

LEMMA AfterWriteKeeps ==
  ASSUME IInv, NEW r \in Requests, RecordAssignment(r) \/ PublishRequest(r) \/ StopRequest(r)
  PROVE  RowsDated' /\ RequestsTimely' /\ SnapshotsSound'
<1>1. UNCHANGED <<now, ticket, exec>>
  BY DEF RecordAssignment, PublishRequest, StopRequest
<1>2. PICK q : req' = [req EXCEPT ![r] = q] /\ q.pc # "decided"
  <2>1. CASE RecordAssignment(r)
    <3> DEFINE p == [req[r] EXCEPT !.pc = "publish"]
    <3>1. req' = [req EXCEPT ![r] = p] /\ p.pc # "decided"
      BY <2>1 DEF RecordAssignment, IInv, TypeOK, RequestsTyped, Request
    <3> QED
      BY <3>1
  <2>2. CASE PublishRequest(r) \/ StopRequest(r)
    BY <2>2 DEF PublishRequest, StopRequest, Finished, NewRequest
  <2> QED
    BY <2>1, <2>2
<1>3. RequestsTimely'
  BY <1>1, <1>2, TimelyKept DEF IInv, TypeOK
<1> QED
  BY <1>1, <1>3, StoreKeeps

LEMMA RequestKeeps ==
  ASSUME IInv, NEW r \in Requests, RequestStep(r) \/ StopRequest(r)
  PROVE  RowsDated' /\ RequestsTimely' /\ SnapshotsSound'
<1>1. ASSUME NEW t \in Tickets, ReadForComment(r, t)
      PROVE  RowsDated' /\ RequestsTimely' /\ SnapshotsSound'
  BY <1>1, ReadKeeps DEF ReadForComment, NewRequest
<1>2. ASSUME NEW t \in Tickets, NEW u \in Users, ReadForAssign(r, t, u)
      PROVE  RowsDated' /\ RequestsTimely' /\ SnapshotsSound'
  BY <1>2, ReadKeeps DEF ReadForAssign, NewRequest
<1>3. ASSUME NEW t \in Tickets, NEW to \in TicketStatus, ReadForStatus(r, t, to)
      PROVE  RowsDated' /\ RequestsTimely' /\ SnapshotsSound'
  BY <1>3, ReadKeeps DEF ReadForStatus, NewRequest
<1> QED
  BY <1>1, <1>2, <1>3, BeginKeeps, InsertTicketKeeps, WriteKeeps, AfterWriteKeeps
     DEF RequestStep

-----------------------------------------------------------------------------
(* The actions of a worker *)

LEMMA RequestsKept ==
  ASSUME RequestsTimely, UNCHANGED <<now, req>>
  PROVE  RequestsTimely'
BY DEF RequestsTimely

LEMMA DatesKept ==
  ASSUME RowsDated, UNCHANGED <<now, ticket>>
  PROVE  RowsDated'
BY DEF RowsDated

LEMMA StartKeeps ==
  ASSUME IInv,
         \/ \E w \in Workers : TakeSomeJob(w)
         \/ \E s \in Sweeps : StartSweep(s)
  PROVE  RowsDated' /\ RequestsTimely' /\ SnapshotsSound'
<1>1. UNCHANGED <<now, ticket, req>>
  BY DEF TakeSomeJob, TakeJob, StartSweep, Sweep
<1>2. ASSUME NEW t, NEW job PROVE Start(t, job).pc = "read" /\ Start(t, job).now = now
  BY DEF Start, Idle
<1>3. ASSUME NEW l \in Lanes
      PROVE  exec'[l] = exec[l] \/ (exec'[l].pc = "read" /\ exec'[l].now = now)
  <2>1. CASE \E w \in Workers : TakeSomeJob(w)
    BY <1>2, <2>1 DEF TakeSomeJob, TakeJob, IInv, TypeOK, ExecutionsTyped
  <2>2. CASE \E s \in Sweeps : StartSweep(s)
    BY <1>2, <2>2 DEF StartSweep, Sweep
  <2> QED
    BY <2>1, <2>2
<1>4. now <= now
  BY DEF IInv, TypeOK
<1>5. SnapshotsSound'
  BY <1>1, <1>3, <1>4 DEF IInv, SnapshotsSound
<1> QED
  BY <1>1, <1>5, RequestsKept, DatesKept DEF IInv

LEMMA CheckTicketKeeps ==
  ASSUME IInv, NEW l \in Lanes, CheckTicket(l)
  PROVE  RowsDated' /\ RequestsTimely' /\ SnapshotsSound'
<1> DEFINE row == ticket[exec[l].ticketId]
           x == [exec[l] EXCEPT !.pc = "pick", !.snap = row]
<1>1. UNCHANGED <<now, ticket, req>>
  BY DEF CheckTicket
<1>2. exec[l] \in Execution /\ exec[l].ticketId \in Tickets /\ exec[l].now <= now /\ 0 <= now
  BY DEF IInv, TypeOK, ExecutionsTyped, CheckTicket, Execution, SnapshotsSound
<1>3. SnapshotsSound'
  <2>1. CASE NeedsReassignment(exec[l], row)
    <3>1. /\ row # NULL /\ IsOverdue(row, exec[l].now)
          /\ row.slaDueAt = row.lastActivityAt + SLA
      BY <1>2, <2>1 DEF NeedsReassignment, IsOverdue, IInv, RowsDated
    <3>2. /\ x.pc = "pick" /\ x.snap = row /\ x.now = exec[l].now
          /\ x.ticketId = exec[l].ticketId
      BY <1>2 DEF Execution
    <3>3. exec' = [exec EXCEPT ![l] = x]
      BY <2>1 DEF CheckTicket
    <3> HIDE DEF x
    <3>4. SnapshotSound(x, ticket[x.ticketId])
      BY <3>1, <3>2 DEF SnapshotSound
    <3> QED
      BY <1>1, <1>2, <3>2, <3>3, <3>4, SnapshotMoved DEF IInv, TypeOK
  <2>2. CASE ~ NeedsReassignment(exec[l], row)
    <3>1. exec' = [exec EXCEPT ![l] = Idle]
      BY <2>2 DEF CheckTicket
    <3> QED
      BY <1>1, <1>2, <3>1, SnapshotMoved DEF IInv, TypeOK, Idle
  <2> QED
    BY <2>1, <2>2
<1> QED
  BY <1>1, <1>3, RequestsKept, DatesKept DEF IInv

LEMMA NextAssigneesHeirs ==
  ASSUME NEW row PROVE NextAssignees(row) \subseteq Heirs(row)
<1>1. LeastLoaded(row) \subseteq Candidates(row)
  BY Zenon DEF LeastLoaded
<1>2. Supervisors(row) \subseteq Admins
  <2>1. CASE Admins \ {row.assigneeId} # {}
    BY <2>1, Zenon DEF Supervisors
  <2>2. CASE Admins \ {row.assigneeId} = {}
    BY <2>2, Zenon DEF Supervisors
  <2> QED
    BY <2>1, <2>2
<1>3. CASE CapReached(row)
  BY <1>2, <1>3, Zenon DEF NextAssignees, Heirs
<1>4. CASE ~ CapReached(row)
  BY <1>1, <1>4, Zenon DEF NextAssignees, Heirs
<1> QED
  BY <1>3, <1>4

LEMMA PickAssigneeKeeps ==
  ASSUME IInv, NEW l \in Lanes, PickAssignee(l)
  PROVE  RowsDated' /\ RequestsTimely' /\ SnapshotsSound'
<1>1. PICK u \in NextAssignees(exec[l].snap) :
        exec' = [exec EXCEPT ![l].pc = "commit", ![l].toUserId = u]
  BY DEF PickAssignee
<1> DEFINE x == [exec[l] EXCEPT !.pc = "commit", !.toUserId = u]
<1>2. UNCHANGED <<now, ticket, req>>
  BY DEF PickAssignee
<1>3. exec[l] \in Execution /\ exec[l].pc = "pick" /\ exec[l].now <= now
  BY DEF IInv, TypeOK, ExecutionsTyped, PickAssignee, SnapshotsSound
<1>4. /\ x.pc = "commit" /\ x.toUserId = u /\ x.now = exec[l].now
      /\ x.snap = exec[l].snap /\ x.ticketId = exec[l].ticketId
  BY <1>3 DEF Execution
<1>5. exec' = [exec EXCEPT ![l] = x]
  BY <1>1, <1>3 DEF IInv, TypeOK, ExecutionsTyped
<1> HIDE DEF x
<1>6. u \in Heirs(exec[l].snap)
  BY <1>1, NextAssigneesHeirs
<1>7. SnapshotSound(x, ticket[x.ticketId])
  BY <1>3, <1>4, <1>6 DEF IInv, SnapshotsSound, SnapshotSound
<1>8. SnapshotsSound'
  BY <1>2, <1>3, <1>4, <1>5, <1>7, SnapshotMoved DEF IInv, TypeOK
<1> QED
  BY <1>2, <1>8, RequestsKept, DatesKept DEF IInv

(* Executions that end, or publish, leave no snapshot to keep sound.        *)
LEMMA EndKeeps ==
  ASSUME IInv, NEW l \in Lanes,
         \/ GiveUp(l) \/ LoseRace(l) \/ PublishBreach(l) \/ PublishReassigned(l)
         \/ StopExecution(l) \/ Stall(l)
  PROVE  RowsDated' /\ RequestsTimely' /\ SnapshotsSound'
<1>1. UNCHANGED <<now, ticket, req>>
  BY DEF GiveUp, LoseRace, PublishBreach, PublishReassigned, StopExecution, Stall
<1>2. exec[l] \in Execution /\ exec[l].now <= now /\ 0 <= now
  BY DEF IInv, TypeOK, ExecutionsTyped, SnapshotsSound
<1>3. SnapshotsSound'
  <2>1. CASE UNCHANGED exec
    BY <1>1, <2>1, StoreKeeps
  <2>2. CASE exec' = [exec EXCEPT ![l] = Idle]
    BY <1>1, <1>2, <2>2, SnapshotMoved DEF IInv, TypeOK, Idle
  <2>3. CASE exec' = [exec EXCEPT ![l].pc = "publish"]
    <3> DEFINE x == [exec[l] EXCEPT !.pc = "publish"]
    <3>1. x.pc = "publish" /\ x.now = exec[l].now /\ exec' = [exec EXCEPT ![l] = x]
      BY <1>2, <2>3 DEF Execution
    <3> HIDE DEF x
    <3> QED
      BY <1>1, <1>2, <3>1, SnapshotMoved DEF IInv, TypeOK
  <2> QED
    BY <2>1, <2>2, <2>3
       DEF GiveUp, LoseRace, PublishBreach, PublishReassigned, StopExecution, Stall
<1> QED
  BY <1>1, <1>3, RequestsKept, DatesKept DEF IInv

-----------------------------------------------------------------------------
(* The commit *)

(* The guard sees only the activity and the status, and yet the row it lets *)
(* through is the very row the execution read.                              *)
LEMMA CommitFacts ==
  ASSUME IInv, NEW l \in Lanes, CommitReassignment(l)
  PROVE  /\ exec[l] \in Execution
         /\ exec[l].ticketId \in Tickets
         /\ exec[l].snap \in TicketRow
         /\ ticket[exec[l].ticketId] = exec[l].snap
         /\ IsOverdue(exec[l].snap, exec[l].now)
         /\ exec[l].snap.slaDueAt = exec[l].snap.lastActivityAt + SLA
         /\ exec[l].now \in 0..now
         /\ exec[l].toUserId \in Heirs(exec[l].snap)
         /\ exec[l].toUserId \in Users
         /\ ticket' = [ticket EXCEPT ![exec[l].ticketId] =
                         ReassignedRow(exec[l], exec[l].snap)]
         /\ UNCHANGED <<now, req>>
<1> DEFINE x == exec[l]
<1>1. /\ x \in Execution /\ x.pc = "commit" /\ x.ticketId \in Tickets /\ x.snap \in TicketRow
      /\ x.toUserId \in Users /\ x.now \in Nat /\ now \in Nat
      /\ ticket[x.ticketId] \in TicketRow
  BY DEF IInv, TypeOK, ExecutionsTyped, TicketsKnown, CommitReassignment, Execution
<1>2. SnapshotSound(x, ticket[x.ticketId]) /\ x.now <= now
  BY <1>1 DEF IInv, SnapshotsSound
<1>3. ticket[x.ticketId].lastActivityAt = x.snap.lastActivityAt
  BY DEF CommitReassignment, GuardHolds
<1>4. ticket[x.ticketId] = x.snap
  BY <1>1, <1>2, <1>3 DEF SnapshotSound, TicketRow
<1>5. ticket' = [ticket EXCEPT ![x.ticketId] = ReassignedRow(x, ticket[x.ticketId])]
  BY DEF CommitReassignment
<1>6. UNCHANGED <<now, req>>
  BY DEF CommitReassignment
<1> QED
  BY <1>1, <1>2, <1>4, <1>5, <1>6 DEF SnapshotSound

LEMMA ReassignedRowFields ==
  ASSUME NEW x \in Execution, x.toUserId # NULL, NEW row \in TicketRow
  PROVE  LET new == ReassignedRow(x, row) IN
         /\ new \in TicketRow
         /\ new.status = row.status /\ new.assigneeId = x.toUserId
         /\ new.lastActivityAt = x.now /\ new.slaDueAt = NewSlaDueAt(x)
         /\ new.autoReassignCount = row.autoReassignCount + 1
BY ReassignedRowTyped DEF ReassignedRow, TicketRow

LEMMA CommitReassignmentKeeps ==
  ASSUME IInv, NEW l \in Lanes, CommitReassignment(l)
  PROVE  RowsDated' /\ RequestsTimely' /\ SnapshotsSound'
<1> DEFINE x == exec[l]
           new == ReassignedRow(x, x.snap)
           t == x.ticketId
<1>1. /\ x \in Execution /\ t \in Tickets /\ x.snap \in TicketRow /\ ticket[t] = x.snap
      /\ IsOverdue(x.snap, x.now) /\ x.snap.slaDueAt = x.snap.lastActivityAt + SLA
      /\ x.now \in 0..now /\ x.toUserId \in Users /\ now \in Nat
      /\ ticket' = [ticket EXCEPT ![t] = new] /\ UNCHANGED <<now, req>>
  BY CommitFacts DEF IInv, TypeOK
<1>2. x.toUserId # NULL
  <2>1. \A u \in Users : u # NULL
    BY ParameterAssumption, NullAssumption
  <2> QED
    BY <1>1, <2>1
<1>3. /\ new \in TicketRow /\ new.lastActivityAt = x.now
      /\ new.slaDueAt = NewSlaDueAt(x)
  BY <1>1, <1>2, ReassignedRowFields
<1>4. new.slaDueAt \in {NULL, x.now + SLA}
  BY <1>3 DEF NewSlaDueAt, ComputeSlaDueAt
<1>5. x.now > x.snap.lastActivityAt
  BY <1>1, ParameterAssumption DEF IsOverdue, TicketRow
<1> HIDE DEF new
<1>6. RowsDated'
  <2>1. new.lastActivityAt <= now /\ new.slaDueAt \in {NULL, new.lastActivityAt + SLA}
    BY <1>1, <1>3, <1>4
  <2> QED
    BY <1>1, <1>3, <2>1, RowDated DEF IInv, TypeOK
<1>7. ASSUME NEW o \in Lanes, exec'[o].pc \in {"pick", "commit"}
      PROVE  SnapshotSound(exec'[o], ticket'[exec'[o].ticketId])
  <2>1. o # l
    BY <1>7 DEF CommitReassignment, IInv, TypeOK, ExecutionsTyped, Execution
  <2>2. exec'[o] = exec[o]
    BY <2>1 DEF CommitReassignment, IInv, TypeOK, ExecutionsTyped
  <2>3. SnapshotSound(exec[o], ticket[exec[o].ticketId])
    BY <1>7, <2>2 DEF IInv, SnapshotsSound
  <2>4. CASE exec[o].ticketId # t
    BY <1>1, <2>2, <2>3, <2>4 DEF IInv, TypeOK
  <2>5. CASE exec[o].ticketId = t
    <3>1. exec[o].snap \in TicketRow
      BY <1>7, <2>2 DEF IInv, TypeOK, ExecutionsTyped, Execution
    <3>2. exec[o].snap.lastActivityAt <= x.snap.lastActivityAt
      BY <1>1, <2>3, <2>5, <3>1 DEF SnapshotSound, TicketRow
    <3>3. ticket'[t].lastActivityAt > exec[o].snap.lastActivityAt
      BY <1>1, <1>3, <1>5, <3>1, <3>2 DEF IInv, TypeOK, TicketRow
    <3> QED
      BY <2>2, <2>3, <2>5, <3>3 DEF SnapshotSound
  <2> QED
    BY <2>4, <2>5
<1>8. ASSUME NEW o \in Lanes PROVE exec'[o].now <= now'
  BY <1>1 DEF CommitReassignment, IInv, TypeOK, ExecutionsTyped, Execution, SnapshotsSound
<1>9. SnapshotsSound'
  BY <1>7, <1>8 DEF SnapshotsSound
<1> QED
  BY <1>1, <1>6, <1>9, RequestsKept DEF IInv

-----------------------------------------------------------------------------
(* The inductive invariant *)

LEMMA TickKeeps ==
  ASSUME IInv, Tick
  PROVE  RowsDated' /\ RequestsTimely' /\ SnapshotsSound'
<1>1. now \in Nat /\ now' = now + 1 /\ UNCHANGED <<ticket, req, exec>>
  BY DEF Tick, IInv, TypeOK
<1>2. RowsDated'
  <2>1. ASSUME NEW t \in Tickets, ticket[t] # NULL PROVE ticket[t].lastActivityAt <= now'
    BY <1>1, <2>1 DEF IInv, TypeOK, RowsDated, TicketRow
  <2> QED
    BY <1>1, <2>1 DEF IInv, RowsDated
<1>3. ASSUME NEW r \in Requests, req[r].pc = "decided"
      PROVE  req[r].now <= now' /\ now' <= req[r].now + RequestLatency
  <2>1. req[r].now \in Nat /\ RequestLatency \in Nat
    BY ParameterAssumption DEF IInv, TypeOK, RequestsTyped, Request
  <2>2. now < req[r].now + RequestLatency /\ req[r].now <= now
    BY <1>3 DEF Tick, IInv, RequestsTimely
  <2> QED
    BY <1>1, <2>1, <2>2
<1>4. RequestsTimely'
  BY <1>1, <1>3 DEF RequestsTimely
<1>5. SnapshotsSound'
  BY <1>1, LanesTimed, SnapshotsKept DEF IInv
<1> QED
  BY <1>2, <1>4, <1>5

LEMMA InitInv == ASSUME Init PROVE IInv
<1>1. TypeOK
  BY InitTypes
<1>2. RowsDated
  BY ParameterAssumption DEF Init, RowsDated, CreatedRow, ComputeSlaDueAt
<1>3. RequestsTimely
  BY DEF Init, RequestsTimely, NewRequest
<1>4. SnapshotsSound
  BY DEF Init, SnapshotsSound, Idle
<1> QED
  BY <1>1, <1>2, <1>3, <1>4 DEF IInv

LEMMA NextInv ==
  ASSUME IInv, [Next]_vars
  PROVE  IInv'
<1>1. TypeOK'
  BY NextTypes DEF IInv
<1>2. RowsDated' /\ RequestsTimely' /\ SnapshotsSound'
  <2>1. CASE \E r \in Requests : RequestStep(r) \/ StopRequest(r)
    BY <2>1, RequestKeeps
  <2>2. CASE \E l \in Lanes : ExecutionStep(l) \/ StopExecution(l) \/ Stall(l)
    BY <2>2, CheckTicketKeeps, PickAssigneeKeeps, EndKeeps, CommitReassignmentKeeps
       DEF ExecutionStep
  <2>3. CASE (\E w \in Workers : TakeSomeJob(w)) \/ (\E s \in Sweeps : StartSweep(s))
    BY <2>3, StartKeeps
  <2>4. CASE Tick
    BY <2>4, TickKeeps
  <2>5. CASE UNCHANGED vars
    BY <2>5, StoreKeeps, RequestsKept DEF vars, IInv
  <2> QED
    BY <2>1, <2>2, <2>3, <2>4, <2>5 DEF Next
<1> QED
  BY <1>1, <1>2 DEF IInv

THEOREM Inductive == Spec => []IInv
<1>1. Init => IInv
  BY InitInv
<1>2. IInv /\ [Next]_vars => IInv'
  BY NextInv
<1> QED
  BY <1>1, <1>2, PTL DEF Spec

(* The snapshot a worker decides on is either the present row or older than *)
(* the last activity: comparing that one column tells (ticket.repository.ts *)
(* :41-50), for any number of workers, sweeps and requests.                 *)
THEOREM SnapshotsAlwaysSound == Spec => []SnapshotsSound
<1>1. IInv => SnapshotsSound
  BY DEF IInv
<1> QED
  BY <1>1, Inductive, PTL

-----------------------------------------------------------------------------
(* Automatic reassignment is safe *)

(* The count of a ticket changes in a commit and nowhere else.              *)
LEMMA OnlyCommitReassigns ==
  ASSUME IInv, [Next]_vars, NEW t \in Tickets, Reassigned(t)
  PROVE  \E l \in Lanes : CommitReassignment(l) /\ exec[l].ticketId = t
<1>1. ticket[t] # NULL /\ ticket'[t].autoReassignCount # ticket[t].autoReassignCount
  BY DEF Reassigned
<1>2. ~ UNCHANGED ticket
  BY <1>1
<1>3. \A r \in Requests : ~ InsertTicket(r)
  BY <1>1 DEF InsertTicket, IInv, TypeOK
<1>4. ASSUME NEW r \in Requests, NEW kind, NEW next, NEW row, UpdateTicket(r, kind, row, next),
             row.autoReassignCount = ticket[req[r].ticketId].autoReassignCount
      PROVE  FALSE
  BY <1>1, <1>4 DEF UpdateTicket, IInv, TypeOK
<1>5. ASSUME NEW r \in Requests, WriteComment(r) \/ WriteAssign(r) \/ WriteStatus(r)
      PROVE  FALSE
  <2>1. ticket[req[r].ticketId] \in TicketRow
    BY <1>5, PatchedRow DEF IInv
  <2>2. CASE WriteComment(r)
    BY <1>4, <2>1, <2>2 DEF WriteComment, TicketRow
  <2>3. CASE WriteAssign(r)
    BY <1>4, <2>1, <2>3 DEF WriteAssign, TicketRow
  <2>4. CASE WriteStatus(r)
    BY <1>4, <2>1, <2>4 DEF WriteStatus, TicketRow
  <2> QED
    BY <1>5, <2>2, <2>3, <2>4
<1>6. \A r \in Requests : ~ RequestStep(r) /\ ~ StopRequest(r)
  BY <1>2, <1>3, <1>5
     DEF RequestStep, BeginCreate, ReadForComment, ReadForAssign, ReadForStatus, ReadTicket,
         TakeInstant, RecordAssignment, PublishRequest, StopRequest
<1>7. PICK l \in Lanes : CommitReassignment(l)
  BY <1>2, <1>6
     DEF Next, ExecutionStep, CheckTicket, PickAssignee, GiveUp, LoseRace, PublishBreach,
         PublishReassigned, StopExecution, Stall, TakeSomeJob, TakeJob, StartSweep, Sweep,
         Tick, vars
<1>8. exec[l].ticketId = t
  BY <1>1, <1>7 DEF CommitReassignment, IInv, TypeOK
<1> QED
  BY <1>7, <1>8

(* The facts of the commit that reassigns t.                                *)
LEMMA ReassignmentStep ==
  ASSUME IInv, [Next]_vars, NEW t \in Tickets, Reassigned(t)
  PROVE  \E l \in Lanes :
           /\ CommitReassignment(l)
           /\ exec[l].ticketId = t
           /\ ticket[t] = exec[l].snap
           /\ ticket[t] \in TicketRow
           /\ IsOverdue(ticket[t], exec[l].now)
           /\ ticket[t].slaDueAt = ticket[t].lastActivityAt + SLA
           /\ exec[l].now \in 0..now
           /\ ticket'[t].lastActivityAt = exec[l].now
           /\ ticket'[t].assigneeId = exec[l].toUserId
<1>1. PICK l \in Lanes : CommitReassignment(l) /\ exec[l].ticketId = t
  BY OnlyCommitReassigns
<1> DEFINE x == exec[l]
           new == ReassignedRow(x, x.snap)
<1>2. /\ x \in Execution /\ x.snap \in TicketRow /\ ticket[t] = x.snap
      /\ IsOverdue(x.snap, x.now) /\ x.snap.slaDueAt = x.snap.lastActivityAt + SLA
      /\ x.now \in 0..now /\ x.toUserId \in Users
      /\ ticket' = [ticket EXCEPT ![t] = new]
  BY <1>1, CommitFacts
<1>3. x.toUserId # NULL
  <2>1. \A u \in Users : u # NULL
    BY ParameterAssumption, NullAssumption
  <2> QED
    BY <1>2, <2>1
<1>4. new.lastActivityAt = x.now /\ new.assigneeId = x.toUserId
  BY <1>2, <1>3, ReassignedRowFields
<1> HIDE DEF new
<1>5. ticket'[t] = new
  BY <1>2 DEF IInv, TypeOK
<1> QED
  BY <1>1, <1>2, <1>4, <1>5

(* However old the snapshot of an execution is, the row it overwrites is    *)
(* overdue at the instant of the commit.                                    *)
THEOREM OnlyOverdueReassigned == Spec => ReassignsOnlyOverdue
<1>1. ASSUME IInv, [Next]_vars, NEW t \in Tickets, Reassigned(t)
      PROVE  IsOverdue(ticket[t], now)
  <2>1. PICK l \in Lanes : /\ IsOverdue(ticket[t], exec[l].now)
                           /\ ticket[t] \in TicketRow
                           /\ ticket[t].slaDueAt = ticket[t].lastActivityAt + SLA
                           /\ exec[l].now \in 0..now
    BY <1>1, ReassignmentStep
  <2>2. now \in Nat /\ SLA \in Nat
    BY <1>1, ParameterAssumption DEF IInv, TypeOK
  <2> QED
    BY <2>1, <2>2 DEF IsOverdue, TicketRow
<1>2. IInv /\ [Next]_vars => [\A t \in Tickets : Reassigned(t) => IsOverdue(ticket[t], now)]_vars
  BY <1>1
<1> QED
  BY <1>2, Inductive, PTL DEF Spec, ReassignsOnlyOverdue

(* No two workers reassign a ticket for one lapse.                          *)
THEOREM OneReassignmentPerLapse == Spec => ReassignmentsSpaced
<1>1. ASSUME IInv, [Next]_vars, NEW t \in Tickets, Reassigned(t)
      PROVE  ticket'[t].lastActivityAt >= ticket[t].lastActivityAt + SLA
  <2>1. PICK l \in Lanes : /\ IsOverdue(ticket[t], exec[l].now)
                           /\ ticket[t] \in TicketRow
                           /\ ticket[t].slaDueAt = ticket[t].lastActivityAt + SLA
                           /\ exec[l].now \in 0..now
                           /\ ticket'[t].lastActivityAt = exec[l].now
    BY <1>1, ReassignmentStep
  <2>2. now \in Nat /\ SLA \in Nat
    BY <1>1, ParameterAssumption DEF IInv, TypeOK
  <2> QED
    BY <2>1, <2>2 DEF IsOverdue, TicketRow
<1>2. IInv /\ [Next]_vars =>
        [\A t \in Tickets :
           Reassigned(t) => ticket'[t].lastActivityAt >= ticket[t].lastActivityAt + SLA]_vars
  BY <1>1
<1> QED
  BY <1>2, Inductive, PTL DEF Spec, ReassignmentsSpaced

(* The history of every automatic reassignment names the assignee the row   *)
(* really had, although it is taken from the snapshot.                      *)
THEOREM HistoryTellsTheTruth == Spec => AutoHistoryTrue
<1> DEFINE True(t) ==
      LET row == history'[t][Len(history'[t])] IN
      /\ row.reason # "MANUAL"
      /\ row.fromUserId = ticket[t].assigneeId
      /\ row.toUserId = ticket'[t].assigneeId
<1>1. ASSUME IInv, [Next]_vars, NEW t \in Tickets, Reassigned(t)
      PROVE  True(t)
  <2>1. PICK l \in Lanes : /\ CommitReassignment(l)
                           /\ exec[l].ticketId = t
                           /\ ticket[t] = exec[l].snap
                           /\ ticket'[t].assigneeId = exec[l].toUserId
    BY <1>1, ReassignmentStep
  <2> DEFINE x == exec[l]
             row == AssignmentRow(x.snap.assigneeId, x.toUserId, ReasonOf(x))
  <2>2. history[t] \in Seq(Assignment) /\ history \in [Tickets -> Seq(Assignment)]
    BY <1>1 DEF IInv, TypeOK
  <2>3. history'[t] = Append(history[t], row)
    BY <2>1, <2>2 DEF CommitReassignment
  <2>4. history'[t][Len(history'[t])] = row
    <3> HIDE DEF row
    <3> QED
      BY <2>2, <2>3
  <2>5. row.reason # "MANUAL" /\ row.fromUserId = x.snap.assigneeId /\ row.toUserId = x.toUserId
    BY DEF AssignmentRow, ReasonOf
  <2> QED
    BY <2>1, <2>4, <2>5
<1>2. IInv /\ [Next]_vars => [\A t \in Tickets : Reassigned(t) => True(t)]_vars
  BY <1>1
<1> QED
  BY <1>2, Inductive, PTL DEF Spec, AutoHistoryTrue
=============================================================================
