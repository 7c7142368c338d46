----------------------------- MODULE EventProofs ----------------------------
(***************************************************************************)
(* Proofs about what is published: the announcements of reassignments are  *)
(* true and none is missing without a fault, and the checks that events    *)
(* program cover every ticket whose SLA runs.                              *)
(***************************************************************************)
EXTENDS PromiseRefinement

-----------------------------------------------------------------------------
(* Announcements: the invariant *)

AutoRows(t) == {i \in DOMAIN history[t] : history[t][i].reason # "MANUAL"}

Recorded(t, u, reason) ==
  \E i \in DOMAIN history[t] : history[t][i].toUserId = u /\ history[t][i].reason = reason

(* Instant at is behind t: the next automatic reassignment, one SLA after  *)
(* the activity of the row at the earliest, has a later one.  A person may *)
(* move the activity back, by less than one SLA.                           *)
Behind(t, at) ==
  /\ at \in Nat /\ at <= now
  /\ ticket[t] # NULL => at < ticket[t].lastActivityAt + SLA

(* The executions about to announce a reassignment of t made it, each at   *)
(* an instant of its own.                                                  *)
AnnouncersApart(t) ==
  /\ IsFiniteSet(Announcing(t))
  /\ \A l \in Announcing(t) :
       Behind(t, exec[l].now) /\ Recorded(t, exec[l].toUserId, ReasonOf(exec[l]))
  /\ \A l, m \in Announcing(t) : exec[l].now = exec[m].now => l = m

(* What listener s was told of t happened, at an instant no execution is   *)
(* about to announce, and the count of ReassignmentsAnnounced is right.    *)
ListenerTold(s, t) ==
  /\ IsFiniteSet(Announced(s, t))
  /\ \A e \in Announced(s, t) :
       /\ Behind(t, e.occurredAt) /\ Recorded(t, e.userId, e.reason)
       /\ \A l \in Announcing(t) : exec[l].now # e.occurredAt
  /\ Cardinality(AutoRows(t))
       <= Cardinality(Announced(s, t)) + Cardinality(Announcing(t)) + faults

AnnouncementsOf(t) == AnnouncersApart(t) /\ \A s \in Observed : ListenerTold(s, t)

AnnouncementInv == \A t \in Tickets : AnnouncementsOf(t)

-----------------------------------------------------------------------------
(* What the steps of the promise do to instants and records *)

(* SlaPromise has its own copy of the rules of TicketEntity.               *)
LEMMA SameEntity == \A row, at : Promise!IsOverdue(row, at) <=> IsOverdue(row, at)
BY DEF IsOverdue, IsTicketActive, ActiveStatus, Promise!IsOverdue, Promise!IsTicketActive,
       Promise!ActiveStatus

(* An instant that is behind a ticket stays behind it.                     *)
LEMMA BehindKept ==
  ASSUME IInv, [Next]_vars, NEW t \in Tickets, NEW at, Behind(t, at)
  PROVE  Behind(t, at)'
<1>1. /\ now \in Nat /\ SLA \in Nat /\ at \in Nat /\ at <= now
      /\ ticket \in [Tickets -> TicketRow \cup {NULL}]
      /\ ticket[t] # NULL => ticket[t].lastActivityAt \in Nat /\ at < ticket[t].lastActivityAt + SLA
  BY ParameterAssumption DEF IInv, TypeOK, TicketRow, Behind
<1>2. [Promise!Next]_(Promise!vars)
  BY NextRefines
<1>3. CASE Promise!Tick \/ UNCHANGED Promise!vars
  BY <1>1, <1>3 DEF Promise!Tick, Promise!vars, Behind
<1>4. ASSUME NEW o \in Tickets, Promise!HumanActivity(o)
      PROVE  Behind(t, at)'
  <2> DEFINE count == IF ticket[o] = NULL THEN 0 ELSE ticket[o].autoReassignCount
  <2>1. PICK a \in 0..now : /\ now < a + SLA
                            /\ \E status, u, due :
                                 ticket' = [ticket EXCEPT ![o] =
                                              Promise!Row(status, u, a, due, count)]
    <3> HIDE DEF count
    <3> QED BY <1>4 DEF Promise!HumanActivity, count
  <2>2. now' = now /\ (ticket'[t] = ticket[t] \/ ticket'[t].lastActivityAt = a)
    BY <1>1, <1>4, <2>1 DEF Promise!HumanActivity, Promise!Row
  <2> QED
    BY <1>1, <2>1, <2>2 DEF Behind
<1>5. ASSUME NEW o \in Tickets, Promise!RecordManual(o)
      PROVE  Behind(t, at)'
  BY <1>1, <1>5 DEF Promise!RecordManual, Behind
<1>6. ASSUME NEW o \in Tickets, NEW u, NEW a \in 0..now, NEW due, NEW reason, ticket[o] # NULL,
             IsOverdue(ticket[o], a), Promise!Reassign(o, u, a, due, reason)
      PROVE  Behind(t, at)'
  <2>1. now' = now /\ (ticket'[t] = ticket[t] \/ (o = t /\ ticket'[t].lastActivityAt = a))
    BY <1>1, <1>6 DEF Promise!Reassign, Promise!Row
  <2>2. ticket[o].lastActivityAt + SLA <= a /\ a \in Nat
    BY <1>1, <1>6 DEF IInv, RowsDated, IsOverdue, TicketRow
  <2> QED
    BY <1>1, <2>1, <2>2, <1>6 DEF Behind
<1>7. ASSUME NEW o \in Tickets, NEW u, Promise!AutoReassign(o, u) \/ Promise!Escalate(o, u)
      PROVE  Behind(t, at)'
  <2>1. ticket[o] # NULL
    BY <1>7 DEF Promise!AutoReassign, Promise!Escalate
  <2>2. CASE Promise!AutoReassign(o, u)
    <3>1. PICK a \in 0..now : /\ Promise!IsOverdue(ticket[o], a)
                              /\ Promise!Reassign(o, u, a, Promise!Due(a), "AUTO_REASSIGN")
      BY <2>2 DEF Promise!AutoReassign
    <3> QED
      BY <1>6, <2>1, <3>1, SameEntity
  <2>3. CASE Promise!Escalate(o, u)
    <3>1. PICK a \in 0..now : /\ Promise!IsOverdue(ticket[o], a)
                              /\ Promise!Reassign(o, u, a, NULL, "ESCALATION")
      BY <2>3 DEF Promise!Escalate
    <3> QED
      BY <1>6, <2>1, <3>1, SameEntity
  <2> QED
    BY <1>7, <2>2, <2>3
<1> QED
  BY <1>2, <1>3, <1>4, <1>5, <1>7 DEF Promise!Next

(* The history of a ticket only grows.                                     *)
LEMMA HistoryGrows ==
  ASSUME IInv, [Next]_vars, NEW t \in Tickets
  PROVE  history'[t] = history[t] \/ \E row : history'[t] = Append(history[t], row)
<1>1. [Promise!Next]_(Promise!vars) /\ history \in [Tickets -> Seq(Assignment)]
  BY NextRefines DEF IInv, TypeOK
<1>2. ASSUME NEW o \in Tickets, NEW row, history' = [history EXCEPT ![o] = Append(@, row)]
      PROVE  history'[t] = history[t] \/ history'[t] = Append(history[t], row)
  BY <1>1, <1>2
<1> QED
  BY <1>1, <1>2
     DEF Promise!Next, Promise!Tick, Promise!HumanActivity, Promise!RecordManual,
         Promise!AutoReassign, Promise!Escalate, Promise!Reassign, Promise!vars

LEMMA AppendFacts ==
  ASSUME NEW h \in Seq(Assignment), NEW row
  PROVE  /\ DOMAIN Append(h, row) = 1..(Len(h) + 1) /\ DOMAIN h = 1..Len(h)
         /\ Append(h, row)[Len(h) + 1] = row
         /\ \A i \in 1..Len(h) : Append(h, row)[i] = h[i]
         /\ Len(h) \in Nat
OBVIOUS

LEMMA RecordedKept ==
  ASSUME IInv, [Next]_vars, NEW t \in Tickets, NEW u, NEW reason, Recorded(t, u, reason)
  PROVE  Recorded(t, u, reason)'
<1>1. history[t] \in Seq(Assignment)
  BY DEF IInv, TypeOK
<1>2. CASE history'[t] = history[t]
  BY <1>2 DEF Recorded
<1>3. ASSUME NEW row, history'[t] = Append(history[t], row)
      PROVE  Recorded(t, u, reason)'
  <2>1. PICK i \in 1..Len(history[t]) :
          history[t][i].toUserId = u /\ history[t][i].reason = reason
    BY <1>1, AppendFacts DEF Recorded
  <2>2. i \in DOMAIN history'[t] /\ history'[t][i] = history[t][i]
    BY <1>1, <1>3, <2>1, AppendFacts
  <2> QED
    BY <2>1, <2>2 DEF Recorded
<1> QED
  BY <1>2, <1>3, HistoryGrows

-----------------------------------------------------------------------------
(* What a publication does to the listeners *)

LEMMA PublicationFacts ==
  ASSUME IInv, NEW e, NEW p, PublishEvent(e, p)
  PROVE  /\ faults' \in Nat /\ faults <= faults'
         /\ \A s \in Observed : delivered'[s] \in {delivered[s], delivered[s] \cup {e}}
         /\ \A s \in Observed : (delivered'[s] # delivered[s] \cup {e} /\ Receives(s, e))
                                  => faults + 1 <= faults'
<1>1. PICK failing \in SUBSET FailingSubscribers :
        /\ faults' = faults + Cardinality(failing)
        /\ delivered' = [s \in Observed |->
                           IF s \notin failing /\ Receives(s, e)
                             THEN delivered[s] \cup {e} ELSE delivered[s]]
  BY DEF PublishEvent
<1>2. IsFiniteSet(failing) /\ Cardinality(failing) \in Nat /\ faults \in Nat
  BY ParameterAssumption, FS_Subset, FS_CardinalityType DEF IInv, TypeOK
<1>3. failing # {} => Cardinality(failing) >= 1
  BY <1>2, FS_EmptySet
<1> QED
  BY <1>1, <1>2, <1>3

(* An event that is no reassignment of t announces none.                   *)
LEMMA OtherEvent ==
  ASSUME IInv, NEW t, NEW e, NEW p, PublishEvent(e, p),
         e.name # "TicketReassigned" \/ e.ticketId # t
  PROVE  \A s \in Observed : Announced(s, t)' = Announced(s, t)
BY PublicationFacts DEF Announced

LEMMA RequestEvent ==
  ASSUME NEW q \in Request
  PROVE  EventOf(q).name # "TicketReassigned"
<1>1. q.kind \in {"create", "comment", "assign", "status"}
  BY DEF Request
<1> QED
  BY <1>1
     DEF EventOf, CreatedEvent, CommentedEvent, AssignedEvent, StatusChangedEvent, TicketEvent

LEMMA BreachEvent == \A x : SlaBreachedEvent(x).name # "TicketReassigned"
BY DEF SlaBreachedEvent, TicketEvent

LEMMA ReassignedFields ==
  ASSUME NEW x
  PROVE  LET e == ReassignedEvent(x) IN
         /\ e.name = "TicketReassigned" /\ e.ticketId = x.ticketId /\ e.occurredAt = x.now
         /\ e.userId = x.toUserId /\ e.reason = ReasonOf(x)
BY DEF ReassignedEvent, TicketEvent

LEMMA AutoRowsCount ==
  ASSUME IInv, NEW t \in Tickets
  PROVE  IsFiniteSet(AutoRows(t)) /\ Cardinality(AutoRows(t)) \in Nat
<1>1. history[t] \in Seq(Assignment)
  BY DEF IInv, TypeOK
<1>2. Len(history[t]) \in Nat /\ AutoRows(t) \in SUBSET (1..Len(history[t]))
  BY <1>1 DEF AutoRows
<1>3. IsFiniteSet(1..Len(history[t]))
  BY <1>2, FS_Interval
<1> QED
  BY <1>2, <1>3, FS_Subset, FS_CardinalityType

-----------------------------------------------------------------------------
(* Steps that neither reassign t nor announce it *)

Quiet(t) ==
  /\ AutoRows(t)' = AutoRows(t)
  /\ \A s \in Observed : Announced(s, t)' = Announced(s, t)
  /\ Announcing(t)' = Announcing(t)
  /\ \A l \in Announcing(t) : /\ exec'[l].now = exec[l].now
                              /\ exec'[l].toUserId = exec[l].toUserId
                              /\ ReasonOf(exec'[l]) = ReasonOf(exec[l])
  /\ faults' \in Nat /\ faults <= faults'

(* An execution that keeps its choice still made the reassignment.         *)
LEMMA AnnouncerKept ==
  ASSUME IInv, [Next]_vars, NEW t \in Tickets, NEW l \in Lanes,
         Behind(t, exec[l].now), Recorded(t, exec[l].toUserId, ReasonOf(exec[l])),
         exec'[l].now = exec[l].now, exec'[l].toUserId = exec[l].toUserId,
         ReasonOf(exec'[l]) = ReasonOf(exec[l])
  PROVE  Behind(t, exec[l].now)' /\ Recorded(t, exec[l].toUserId, ReasonOf(exec[l]))'
<1> DEFINE at == exec[l].now
           u == exec[l].toUserId
           reason == ReasonOf(exec[l])
<1>1. at' = at /\ u' = u /\ reason' = reason
  OBVIOUS
<1>2. \A a : Behind(t, a) => /\ a \in Nat /\ a <= now'
                             /\ ticket'[t] # NULL => a < ticket'[t].lastActivityAt + SLA
  BY BehindKept DEF Behind
<1>3. \A v, c : Recorded(t, v, c) =>
        \E i \in DOMAIN history'[t] : history'[t][i].toUserId = v /\ history'[t][i].reason = c
  BY RecordedKept DEF Recorded
<1>4. Behind(t, at) /\ Recorded(t, u, reason)
  OBVIOUS
<1> HIDE DEF at, u, reason
<1>5. Behind(t, at)' /\ Recorded(t, u, reason)'
  BY <1>1, <1>2, <1>3, <1>4 DEF Behind, Recorded
<1> QED
  BY <1>5 DEF at, u, reason

LEMMA QuietKeeps ==
  ASSUME IInv, [Next]_vars, NEW t \in Tickets, AnnouncementsOf(t), Quiet(t)
  PROVE  AnnouncementsOf(t)'
<1>1. AnnouncersApart(t)'
  <2>1. ASSUME NEW l \in Announcing(t)
        PROVE  Behind(t, exec[l].now)' /\ Recorded(t, exec[l].toUserId, ReasonOf(exec[l]))'
    <3>1. l \in Lanes /\ Behind(t, exec[l].now) /\ Recorded(t, exec[l].toUserId, ReasonOf(exec[l]))
      BY DEF AnnouncementsOf, AnnouncersApart, Announcing
    <3> QED
      BY <3>1, AnnouncerKept DEF Quiet
  <2> QED
    BY <2>1 DEF Quiet, AnnouncementsOf, AnnouncersApart
<1>2. ASSUME NEW s \in Observed PROVE ListenerTold(s, t)'
  <2>1. ListenerTold(s, t) /\ Announced(s, t)' = Announced(s, t)
    BY DEF AnnouncementsOf, Quiet
  <2>2. \A e \in Announced(s, t) : Behind(t, e.occurredAt)' /\ Recorded(t, e.userId, e.reason)'
    BY <2>1, BehindKept, RecordedKept DEF ListenerTold
  <2>3. \A e \in Announced(s, t) : \A l \in Announcing(t) : exec'[l].now # e.occurredAt
    BY <2>1 DEF ListenerTold, Quiet
  <2>4. /\ Cardinality(AutoRows(t)) \in Nat
        /\ Cardinality(Announced(s, t)) \in Nat
        /\ Cardinality(Announcing(t)) \in Nat /\ faults \in Nat
    BY <2>1, AutoRowsCount, FS_CardinalityType
       DEF ListenerTold, AnnouncementsOf, AnnouncersApart, IInv, TypeOK
  <2>5. Cardinality(AutoRows(t)) <= Cardinality(Announced(s, t)) + Cardinality(Announcing(t)) + faults'
    BY <2>1, <2>4 DEF ListenerTold, Quiet
  <2> QED
    BY <2>1, <2>2, <2>3, <2>5 DEF ListenerTold, Quiet
<1> QED
  BY <1>1, <1>2 DEF AnnouncementsOf

(* An execution that announces nothing of t, before or after its step.     *)
LEMMA OtherExecution ==
  ASSUME IInv, NEW t, NEW l \in Lanes, NEW x, exec' = [exec EXCEPT ![l] = x],
         l \notin Announcing(t), x.pc \notin {"breach", "publish"} \/ x.ticketId # t
  PROVE  Announcing(t)' = Announcing(t) /\ \A m \in Announcing(t) : exec'[m] = exec[m]
<1>1. \A m \in Lanes : exec'[m] = IF m = l THEN x ELSE exec[m]
  BY DEF IInv, TypeOK, ExecutionsTyped
<1> QED
  BY <1>1 DEF Announcing

LEMMA AppendAutoRows ==
  ASSUME NEW h \in Seq(Assignment), NEW row
  PROVE  LET rows(k) == {i \in DOMAIN k : k[i].reason # "MANUAL"} IN
         /\ row.reason = "MANUAL" => rows(Append(h, row)) = rows(h)
         /\ row.reason # "MANUAL" => /\ rows(Append(h, row)) = rows(h) \cup {Len(h) + 1}
                                     /\ Len(h) + 1 \notin rows(h)
BY AppendFacts

LEMMA RequestQuiet ==
  ASSUME IInv, NEW r \in Requests, RequestStep(r) \/ StopRequest(r), NEW t \in Tickets
  PROVE  Quiet(t)
<1>1. /\ UNCHANGED exec /\ Announcing(t)' = Announcing(t)
      /\ \A l \in Announcing(t) : ReasonOf(exec'[l]) = ReasonOf(exec[l])
  BY DEF RequestStep, BeginCreate, InsertTicket, ReadForComment, ReadForAssign, ReadForStatus,
         ReadTicket, TakeInstant, WriteComment, WriteAssign, WriteStatus, UpdateTicket,
         RecordAssignment, PublishRequest, StopRequest, Announcing, ReasonOf, CapReached
<1>2. faults \in Nat /\ history \in [Tickets -> Seq(Assignment)]
  BY DEF IInv, TypeOK
<1>3. CASE PublishRequest(r)
  <2>1. req[r] \in Request /\ UNCHANGED history
    BY <1>3 DEF IInv, TypeOK, RequestsTyped, PublishRequest
  <2>2. /\ \A s \in Observed : Announced(s, t)' = Announced(s, t)
        /\ faults' \in Nat /\ faults <= faults'
    BY <1>3, <2>1, RequestEvent, OtherEvent, PublicationFacts DEF PublishRequest
  <2> QED
    BY <1>1, <2>1, <2>2 DEF Quiet, AutoRows
<1>4. CASE RecordAssignment(r)
  <2> DEFINE row == AssignmentRow(req[r].fromUserId, req[r].assigneeId, "MANUAL")
  <2>1. /\ UNCHANGED <<delivered, faults>> /\ row.reason = "MANUAL"
        /\ history' = [history EXCEPT ![req[r].ticketId] = Append(@, row)]
    BY <1>4 DEF RecordAssignment, AssignmentRow
  <2> HIDE DEF row
  <2>2. AutoRows(t)' = AutoRows(t)
    <3>1. CASE req[r].ticketId = t
      BY <1>2, <2>1, <3>1, AppendAutoRows DEF AutoRows
    <3>2. CASE req[r].ticketId # t
      BY <1>2, <2>1, <3>2 DEF AutoRows
    <3> QED BY <3>1, <3>2
  <2> QED
    BY <1>1, <1>2, <2>1, <2>2 DEF Quiet, Announced
<1>5. CASE ~ PublishRequest(r) /\ ~ RecordAssignment(r)
  <2>1. UNCHANGED <<history, delivered>> /\ faults' \in {faults, faults + 1}
    BY <1>5
       DEF RequestStep, BeginCreate, InsertTicket, ReadForComment, ReadForAssign, ReadForStatus,
           ReadTicket, TakeInstant, WriteComment, WriteAssign, WriteStatus, UpdateTicket,
           StopRequest
  <2> QED
    BY <1>1, <1>2, <2>1 DEF Quiet, AutoRows, Announced
<1> QED
  BY <1>3, <1>4, <1>5

(* Executions that start, choose, give up, lose, or end before the commit. *)
LEMMA ExecutionQuiet ==
  ASSUME IInv, NEW t \in Tickets, NEW l \in Lanes,
         \/ CheckTicket(l) \/ PickAssignee(l) \/ GiveUp(l) \/ LoseRace(l) \/ Stall(l)
         \/ StopExecution(l) /\ l \notin Announcing(t)
         \/ PublishReassigned(l) /\ exec[l].ticketId # t
  PROVE  Quiet(t)
<1>1. faults \in Nat /\ exec[l] \in Execution /\ UNCHANGED history
  BY DEF IInv, TypeOK, ExecutionsTyped, CheckTicket, PickAssignee, GiveUp, LoseRace, Stall,
         StopExecution, PublishReassigned
<1>2. /\ \A s \in Observed : Announced(s, t)' = Announced(s, t)
      /\ faults' \in Nat /\ faults <= faults'
  <2>1. CASE GiveUp(l)
    BY <2>1, BreachEvent, OtherEvent, PublicationFacts DEF GiveUp
  <2>2. CASE PublishReassigned(l) /\ exec[l].ticketId # t
    BY <2>2, ReassignedFields, OtherEvent, PublicationFacts DEF PublishReassigned
  <2>3. CASE UNCHANGED delivered /\ faults' \in {faults, faults + 1}
    BY <1>1, <2>3 DEF Announced
  <2> QED
    BY <2>1, <2>2, <2>3 DEF CheckTicket, PickAssignee, LoseRace, Stall, StopExecution
<1>3. Announcing(t)' = Announcing(t) /\ \A m \in Announcing(t) : exec'[m] = exec[m]
  <2>1. CASE UNCHANGED exec
    BY <2>1 DEF Announcing
  <2>2. ASSUME NEW x, exec' = [exec EXCEPT ![l] = x], l \notin Announcing(t),
               x.pc \notin {"breach", "publish"} \/ x.ticketId # t
        PROVE  Announcing(t)' = Announcing(t) /\ \A m \in Announcing(t) : exec'[m] = exec[m]
    BY <2>2, OtherExecution
  <2>3. CASE CheckTicket(l)
    <3> DEFINE x == [exec[l] EXCEPT !.pc = "pick", !.snap = ticket[exec[l].ticketId]]
    <3>1. x.pc = "pick" /\ Idle.pc = "idle" /\ l \notin Announcing(t)
      BY <1>1, <2>3 DEF Execution, Idle, CheckTicket, Announcing
    <3>2. exec' = [exec EXCEPT ![l] = x] \/ exec' = [exec EXCEPT ![l] = Idle]
      BY <2>3 DEF CheckTicket
    <3> HIDE DEF x
    <3> QED
      BY <2>2, <3>1, <3>2
  <2>4. CASE PickAssignee(l)
    <3>1. PICK u : exec' = [exec EXCEPT ![l].pc = "commit", ![l].toUserId = u]
      BY <2>4 DEF PickAssignee
    <3> DEFINE x == [exec[l] EXCEPT !.pc = "commit", !.toUserId = u]
    <3>2. x.pc = "commit" /\ l \notin Announcing(t) /\ exec' = [exec EXCEPT ![l] = x]
      BY <1>1, <2>4, <3>1 DEF Execution, PickAssignee, Announcing, IInv, TypeOK, ExecutionsTyped
    <3> HIDE DEF x
    <3> QED
      BY <2>2, <3>2
  <2>5. CASE /\ exec' = [exec EXCEPT ![l] = Idle]
             /\ l \notin Announcing(t)
    BY <2>2, <2>5 DEF Idle
  <2> QED
    BY <2>1, <2>3, <2>4, <2>5
       DEF GiveUp, LoseRace, Stall, StopExecution, PublishReassigned, Announcing
<1> QED
  BY <1>1, <1>2, <1>3 DEF Quiet, AutoRows

(* Both announcements of an escalation are by the same execution.          *)
LEMMA BreachQuiet ==
  ASSUME IInv, NEW t \in Tickets, NEW l \in Lanes, PublishBreach(l)
  PROVE  Quiet(t)
<1> DEFINE x == [exec[l] EXCEPT !.pc = "publish"]
<1>1. /\ exec[l] \in Execution /\ exec[l].pc = "breach" /\ UNCHANGED history
      /\ exec \in [Lanes -> Execution]
  BY DEF IInv, TypeOK, ExecutionsTyped, PublishBreach
<1>2. /\ x.pc = "publish" /\ x.ticketId = exec[l].ticketId /\ x.now = exec[l].now
      /\ x.toUserId = exec[l].toUserId /\ x.snap = exec[l].snap
  BY <1>1 DEF Execution
<1>3. exec' = [exec EXCEPT ![l] = x]
  BY <1>1 DEF PublishBreach
<1> HIDE DEF x
<1>4. \A m \in Lanes : exec'[m] = IF m = l THEN x ELSE exec[m]
  BY <1>1, <1>3
<1>5. Announcing(t)' = Announcing(t)
  BY <1>1, <1>2, <1>4 DEF Announcing
<1>6. \A m \in Announcing(t) : /\ exec'[m].now = exec[m].now
                               /\ exec'[m].toUserId = exec[m].toUserId
                               /\ ReasonOf(exec'[m]) = ReasonOf(exec[m])
  BY <1>2, <1>4 DEF Announcing, ReasonOf
<1>7. /\ \A s \in Observed : Announced(s, t)' = Announced(s, t)
      /\ faults' \in Nat /\ faults <= faults'
  BY BreachEvent, OtherEvent, PublicationFacts DEF PublishBreach
<1> QED
  BY <1>1, <1>5, <1>6, <1>7 DEF Quiet, AutoRows

LEMMA StartQuiet ==
  ASSUME IInv, NEW t \in Tickets,
         \/ \E w \in Workers : TakeSomeJob(w)
         \/ \E s \in Sweeps : StartSweep(s)
         \/ Tick \/ UNCHANGED vars
  PROVE  Quiet(t)
<1>1. UNCHANGED <<history, delivered, faults>> /\ faults \in Nat
  BY DEF TakeSomeJob, TakeJob, StartSweep, Sweep, Tick, vars, IInv, TypeOK
<1>2. \A job, u : Start(u, job).pc = "read"
  BY DEF Start, Idle
<1>3. Announcing(t)' = Announcing(t) /\ \A m \in Announcing(t) : exec'[m] = exec[m]
  <2>1. CASE UNCHANGED exec
    BY <2>1 DEF Announcing
  <2>2. ASSUME NEW w \in Workers, NEW job \in jobs, TakeJob(w, job)
        PROVE  Announcing(t)' = Announcing(t) /\ \A m \in Announcing(t) : exec'[m] = exec[m]
    BY <2>2, <1>2, OtherExecution DEF TakeJob, Lanes, Announcing
  <2>3. ASSUME NEW s \in Sweeps, NEW batch \in SUBSET OverdueTickets, Sweep(s, batch)
        PROVE  Announcing(t)' = Announcing(t) /\ \A m \in Announcing(t) : exec'[m] = exec[m]
    <3>1. \A m \in Lanes : exec'[m] = IF m \in {s} \X batch THEN Start(m[2], NULL) ELSE exec[m]
      BY <2>3 DEF Sweep
    <3>2. \A m \in {s} \X batch : exec[m].pc = "idle"
      BY <2>3 DEF Sweep, OverdueTickets
    <3>3. \A m \in {s} \X batch : m \notin Announcing(t) /\ m \notin Announcing(t)'
      BY <1>2, <3>1, <3>2 DEF Announcing
    <3> QED
      BY <3>1, <3>3 DEF Announcing
  <2> QED
    BY <2>1, <2>2, <2>3 DEF TakeSomeJob, StartSweep, Tick, vars
<1> QED
  BY <1>1, <1>3 DEF Quiet, AutoRows, Announced

-----------------------------------------------------------------------------
(* The commit and its announcement *)

LEMMA CommitLane ==
  ASSUME IInv, NEW l \in Lanes, CommitReassignment(l)
  PROVE  \E x : /\ exec' = [exec EXCEPT ![l] = x]
                /\ x.pc \in {"breach", "publish"} /\ x.ticketId = exec[l].ticketId
                /\ x.now = exec[l].now /\ x.toUserId = exec[l].toUserId
                /\ x.snap = exec[l].snap /\ x.job = exec[l].job
<1> DEFINE next == IF CapReached(exec[l].snap) THEN "breach" ELSE "publish"
           x == [exec[l] EXCEPT !.pc = next]
<1>1. exec[l] \in Execution /\ next \in {"breach", "publish"}
  BY DEF IInv, TypeOK, ExecutionsTyped
<1>2. exec' = [exec EXCEPT ![l].pc = next]
  BY DEF CommitReassignment
<1> HIDE DEF next
<1>3. /\ x.pc = next /\ x.ticketId = exec[l].ticketId /\ x.now = exec[l].now
      /\ x.toUserId = exec[l].toUserId /\ x.snap = exec[l].snap /\ x.job = exec[l].job
  BY <1>1 DEF Execution
<1>4. exec' = [exec EXCEPT ![l] = x]
  BY <1>2
<1> HIDE DEF x
<1> QED
  BY <1>1, <1>3, <1>4

LEMMA CommitQuiet ==
  ASSUME IInv, NEW l \in Lanes, CommitReassignment(l), NEW t \in Tickets, exec[l].ticketId # t
  PROVE  Quiet(t)
<1>1. /\ exec[l].pc = "commit" /\ UNCHANGED <<delivered, faults>> /\ faults \in Nat
      /\ history \in [Tickets -> Seq(Assignment)]
  BY DEF CommitReassignment, IInv, TypeOK
<1>2. history'[t] = history[t]
  BY <1>1 DEF CommitReassignment
<1>3. Announcing(t)' = Announcing(t) /\ \A m \in Announcing(t) : exec'[m] = exec[m]
  <2>1. PICK x : exec' = [exec EXCEPT ![l] = x] /\ x.ticketId = exec[l].ticketId
    BY CommitLane
  <2> QED
    BY <1>1, <2>1, OtherExecution DEF Announcing
<1> QED
  BY <1>1, <1>2, <1>3 DEF Quiet, AutoRows, Announced

(* The commit adds one row and one execution that will announce it, at an  *)
(* instant later than any before.                                          *)
LEMMA CommitAnnounces ==
  ASSUME IInv, [Next]_vars, NEW l \in Lanes, CommitReassignment(l),
         NEW t \in Tickets, exec[l].ticketId = t, AnnouncementsOf(t)
  PROVE  AnnouncementsOf(t)'
<1> DEFINE row == AssignmentRow(exec[l].snap.assigneeId, exec[l].toUserId, ReasonOf(exec[l]))
<1>1. PICK x : /\ exec' = [exec EXCEPT ![l] = x]
               /\ x.pc \in {"breach", "publish"} /\ x.ticketId = t
               /\ x.now = exec[l].now /\ x.toUserId = exec[l].toUserId
               /\ x.snap = exec[l].snap
  BY CommitLane
<1>2. /\ exec[l].pc = "commit" /\ exec[l] \in Execution
      /\ ticket[t] = exec[l].snap /\ exec[l].snap \in TicketRow
      /\ IsOverdue(exec[l].snap, exec[l].now)
      /\ exec[l].snap.slaDueAt = exec[l].snap.lastActivityAt + SLA
      /\ exec[l].now \in 0..now /\ exec[l].toUserId \in Users
      /\ ticket' = [ticket EXCEPT ![t] = ReassignedRow(exec[l], exec[l].snap)]
      /\ UNCHANGED <<now, delivered, faults>>
  BY CommitFacts DEF CommitReassignment
<1>3. /\ now \in Nat /\ SLA \in Nat \ {0} /\ faults \in Nat
      /\ history[t] \in Seq(Assignment) /\ history \in [Tickets -> Seq(Assignment)]
      /\ ticket \in [Tickets -> TicketRow \cup {NULL}]
  BY <1>2, ParameterAssumption DEF IInv, TypeOK
<1>4. exec[l].now >= ticket[t].lastActivityAt + SLA /\ ticket[t] # NULL
  BY <1>2, <1>3, NullIsNoRow DEF IsOverdue
<1>5. \A m \in Lanes : exec'[m] = IF m = l THEN x ELSE exec[m]
  BY <1>1 DEF IInv, TypeOK, ExecutionsTyped
<1>6. Announcing(t)' = Announcing(t) \cup {l} /\ l \notin Announcing(t)
  BY <1>1, <1>2, <1>5 DEF Announcing
<1>7. ticket'[t].lastActivityAt = exec[l].now /\ ticket'[t] # NULL
  <2>1. exec[l].toUserId # NULL
    <3>1. \A u \in Users : u # NULL
      BY ParameterAssumption, NullAssumption
    <3> QED BY <1>2, <3>1
  <2>2. /\ ReassignedRow(exec[l], exec[l].snap) \in TicketRow
        /\ ReassignedRow(exec[l], exec[l].snap).lastActivityAt = exec[l].now
    BY <1>2, <2>1, ReassignedRowFields
  <2> QED
    BY <1>2, <1>3, <2>2, NullIsNoRow
<1>8. Behind(t, exec[l].now)'
  <2>1. Behind(t, x.now)'
    BY <1>1, <1>2, <1>3, <1>7 DEF Behind
  <2> QED
    BY <1>1, <1>5, <2>1
<1>9. \A at : Behind(t, at) => at # exec[l].now
  BY <1>2, <1>3, <1>4 DEF Behind, TicketRow
<1>10. history'[t] = Append(history[t], row)
  BY <1>3 DEF CommitReassignment
<1>11. row.reason = ReasonOf(exec[l]) /\ row.toUserId = exec[l].toUserId /\ row.reason # "MANUAL"
  BY DEF AssignmentRow, ReasonOf
<1> HIDE DEF row
<1>12. /\ AutoRows(t)' = AutoRows(t) \cup {Len(history[t]) + 1}
       /\ Len(history[t]) + 1 \notin AutoRows(t)
  BY <1>3, <1>10, <1>11, AppendAutoRows DEF AutoRows
<1>13. \E i \in DOMAIN history'[t] :
         history'[t][i].toUserId = x.toUserId /\ history'[t][i].reason = ReasonOf(x)
  <2>1. ReasonOf(x) = ReasonOf(exec[l])
    BY <1>1 DEF ReasonOf
  <2>2. /\ Len(history[t]) + 1 \in DOMAIN history'[t]
        /\ history'[t][Len(history[t]) + 1] = row
    BY <1>3, <1>10, AppendFacts
  <2> QED
    BY <1>1, <1>11, <2>1, <2>2
<1>14. AnnouncersApart(t)'
  <2>1. IsFiniteSet(Announcing(t)')
    BY <1>6, FS_AddElement DEF AnnouncementsOf, AnnouncersApart
  <2>2. ASSUME NEW m \in Announcing(t)'
        PROVE  Behind(t, exec[m].now)' /\ Recorded(t, exec[m].toUserId, ReasonOf(exec[m]))'
    <3>1. CASE m = l
      BY <1>5, <1>1, <1>8, <1>13, <3>1 DEF Recorded
    <3>2. CASE m # l
      <4>1. m \in Announcing(t) /\ exec'[m] = exec[m]
        BY <1>5, <1>6, <3>2 DEF Announcing
      <4>2. Behind(t, exec[m].now) /\ Recorded(t, exec[m].toUserId, ReasonOf(exec[m]))
        BY <4>1 DEF AnnouncementsOf, AnnouncersApart
      <4> QED
        <5>1. m \in Lanes /\ ReasonOf(exec'[m]) = ReasonOf(exec[m])
          BY <4>1 DEF Announcing
        <5> QED
          BY <4>1, <4>2, <5>1, AnnouncerKept
    <3> QED BY <3>1, <3>2
  <2>3. ASSUME NEW m \in Announcing(t)', NEW n \in Announcing(t)', exec'[m].now = exec'[n].now
        PROVE  m = n
    <3>1. \A o \in Announcing(t) : Behind(t, exec[o].now) /\ exec'[o] = exec[o]
      BY <1>5, <1>6 DEF AnnouncementsOf, AnnouncersApart, Announcing
    <3>2. exec'[l].now = exec[l].now
      BY <1>1, <1>5
    <3> QED
      BY <1>6, <1>9, <2>3, <3>1, <3>2 DEF AnnouncementsOf, AnnouncersApart
  <2> QED
    BY <2>1, <2>2, <2>3 DEF AnnouncersApart
<1>15. ASSUME NEW s \in Observed PROVE ListenerTold(s, t)'
  <2>1. ListenerTold(s, t) /\ Announced(s, t)' = Announced(s, t)
    BY <1>2 DEF AnnouncementsOf, Announced
  <2>2. \A e \in Announced(s, t) : Behind(t, e.occurredAt)' /\ Recorded(t, e.userId, e.reason)'
    BY <2>1, BehindKept, RecordedKept DEF ListenerTold
  <2>3. \A e \in Announced(s, t) : \A m \in Announcing(t)' : exec'[m].now # e.occurredAt
    BY <1>1, <1>5, <1>6, <1>9, <2>1 DEF ListenerTold
  <2>4. /\ Cardinality(AutoRows(t)') = Cardinality(AutoRows(t)) + 1
        /\ Cardinality(Announcing(t)') = Cardinality(Announcing(t)) + 1
        /\ Cardinality(AutoRows(t)) \in Nat /\ Cardinality(Announcing(t)) \in Nat
        /\ Cardinality(Announced(s, t)) \in Nat
    BY <1>6, <1>12, <2>1, AutoRowsCount, FS_AddElement, FS_CardinalityType
       DEF AnnouncementsOf, AnnouncersApart, ListenerTold
  <2>5. Cardinality(AutoRows(t)')
          <= Cardinality(Announced(s, t)) + Cardinality(Announcing(t)') + faults'
    BY <1>2, <1>3, <2>1, <2>4 DEF ListenerTold
  <2> QED
    BY <2>1, <2>2, <2>3, <2>5 DEF ListenerTold
<1> QED
  BY <1>14, <1>15 DEF AnnouncementsOf

(* An execution that leaves: the others that announce t stay apart.        *)
LEMMA AnnouncerLeaves ==
  ASSUME IInv, [Next]_vars, NEW t \in Tickets, AnnouncementsOf(t), NEW l \in Announcing(t),
         exec' = [exec EXCEPT ![l] = Idle]
  PROVE  /\ Announcing(t)' = Announcing(t) \ {l}
         /\ \A m \in Announcing(t)' : exec'[m] = exec[m]
         /\ Cardinality(Announcing(t)') + 1 = Cardinality(Announcing(t))
         /\ Cardinality(Announcing(t)') \in Nat
         /\ AnnouncersApart(t)'
<1>1. \A m \in Lanes : exec'[m] = IF m = l THEN Idle ELSE exec[m]
  BY DEF IInv, TypeOK, ExecutionsTyped
<1>2. Announcing(t)' = Announcing(t) \ {l}
  BY <1>1 DEF Announcing, Idle
<1>3. \A m \in Announcing(t)' : exec'[m] = exec[m] /\ m \in Lanes
  BY <1>1, <1>2 DEF Announcing
<1>4. /\ IsFiniteSet(Announcing(t)') /\ Cardinality(Announcing(t)') \in Nat
      /\ Cardinality(Announcing(t)') + 1 = Cardinality(Announcing(t))
  <2>1. IsFiniteSet(Announcing(t)) /\ Cardinality(Announcing(t)) \in Nat
    BY FS_CardinalityType DEF AnnouncementsOf, AnnouncersApart
  <2>2. /\ IsFiniteSet(Announcing(t) \ {l})
        /\ Cardinality(Announcing(t) \ {l}) = Cardinality(Announcing(t)) - 1
    BY <2>1, FS_RemoveElement
  <2>3. Cardinality(Announcing(t) \ {l}) \in Nat
    BY <2>2, FS_CardinalityType
  <2> QED
    BY <1>2, <2>1, <2>2, <2>3
<1>5. ASSUME NEW m \in Announcing(t)'
      PROVE  Behind(t, exec[m].now)' /\ Recorded(t, exec[m].toUserId, ReasonOf(exec[m]))'
  <2>1. /\ m \in Lanes /\ exec'[m] = exec[m] /\ ReasonOf(exec'[m]) = ReasonOf(exec[m])
        /\ Behind(t, exec[m].now) /\ Recorded(t, exec[m].toUserId, ReasonOf(exec[m]))
    BY <1>2, <1>3 DEF AnnouncementsOf, AnnouncersApart
  <2> QED
    BY <2>1, AnnouncerKept
<1>6. \A m, n \in Announcing(t)' : exec'[m].now = exec'[n].now => m = n
  BY <1>2, <1>3 DEF AnnouncementsOf, AnnouncersApart
<1> QED
  BY <1>2, <1>3, <1>4, <1>5, <1>6 DEF AnnouncersApart

(* The announcement: one listener more is told, or the count of faults     *)
(* covers for it.                                                          *)
LEMMA PublicationAnnounces ==
  ASSUME IInv, [Next]_vars, NEW l \in Lanes, PublishReassigned(l),
         NEW t \in Tickets, exec[l].ticketId = t, AnnouncementsOf(t)
  PROVE  AnnouncementsOf(t)'
<1> DEFINE e == ReassignedEvent(exec[l])
<1>1. l \in Announcing(t) /\ exec' = [exec EXCEPT ![l] = Idle] /\ UNCHANGED history
  BY DEF PublishReassigned, Announcing
<1>2. /\ Announcing(t)' = Announcing(t) \ {l}
      /\ \A m \in Announcing(t)' : exec'[m] = exec[m]
      /\ Cardinality(Announcing(t)') + 1 = Cardinality(Announcing(t))
      /\ Cardinality(Announcing(t)') \in Nat
      /\ AnnouncersApart(t)'
  BY <1>1, AnnouncerLeaves
<1>3. /\ e.name = "TicketReassigned" /\ e.ticketId = t /\ e.occurredAt = exec[l].now
      /\ e.userId = exec[l].toUserId /\ e.reason = ReasonOf(exec[l])
  BY ReassignedFields
<1> HIDE DEF e
<1>4. Behind(t, e.occurredAt) /\ Recorded(t, e.userId, e.reason)
  BY <1>1, <1>3 DEF AnnouncementsOf, AnnouncersApart
<1>5. /\ faults \in Nat /\ faults' \in Nat /\ faults <= faults'
      /\ \A s \in Observed : delivered'[s] \in {delivered[s], delivered[s] \cup {e}}
      /\ \A s \in Observed : delivered'[s] # delivered[s] \cup {e} => faults + 1 <= faults'
  <2>1. PublishEvent(e, l)
    BY DEF PublishReassigned, e
  <2>2. \A s \in Observed : Receives(s, e)
    BY <1>3, ParameterAssumption DEF Receives, NotifiedEvents
  <2> QED
    BY <2>1, <2>2, PublicationFacts DEF IInv, TypeOK
<1>6. ASSUME NEW s \in Observed PROVE ListenerTold(s, t)'
  <2>1. ListenerTold(s, t) /\ IsFiniteSet(Announced(s, t)) /\ Cardinality(Announced(s, t)) \in Nat
    BY FS_CardinalityType DEF AnnouncementsOf, ListenerTold
  <2>2. \/ Announced(s, t)' = Announced(s, t) \cup {e}
        \/ Announced(s, t)' = Announced(s, t) /\ faults + 1 <= faults'
    BY <1>3, <1>5 DEF Announced
  <2>3. e \notin Announced(s, t)
    BY <1>1, <1>3, <2>1 DEF ListenerTold
  <2>4. IsFiniteSet(Announced(s, t)')
    BY <2>1, <2>2, FS_AddElement
  <2>5. \A d \in Announced(s, t)' : Behind(t, d.occurredAt) /\ Recorded(t, d.userId, d.reason)
    BY <1>4, <2>1, <2>2 DEF ListenerTold
  <2>6. ASSUME NEW d \in Announced(s, t)'
        PROVE  Behind(t, d.occurredAt)' /\ Recorded(t, d.userId, d.reason)'
    BY <2>5, BehindKept, RecordedKept
  <2>7. ASSUME NEW d \in Announced(s, t)', NEW m \in Announcing(t)'
        PROVE  exec'[m].now # d.occurredAt
    <3>1. m \in Announcing(t) /\ m # l /\ exec'[m] = exec[m]
      BY <1>2
    <3>2. exec[m].now # exec[l].now
      BY <1>1, <3>1 DEF AnnouncementsOf, AnnouncersApart
    <3> QED
      BY <1>3, <2>1, <2>2, <3>1, <3>2 DEF ListenerTold
  <2>8. Cardinality(AutoRows(t)')
          <= Cardinality(Announced(s, t)') + Cardinality(Announcing(t)') + faults'
    <3>1. AutoRows(t)' = AutoRows(t) /\ Cardinality(AutoRows(t)) \in Nat
      BY <1>1, AutoRowsCount DEF AutoRows
    <3>2. Cardinality(AutoRows(t)) <= Cardinality(Announced(s, t)) + Cardinality(Announcing(t)) + faults
      BY <2>1 DEF ListenerTold
    <3>3. CASE Announced(s, t)' = Announced(s, t) \cup {e}
      <4>1. Cardinality(Announced(s, t)') = Cardinality(Announced(s, t)) + 1
        BY <2>1, <2>3, <3>3, FS_AddElement
      <4> QED
        BY <1>2, <1>5, <2>1, <3>1, <3>2, <4>1
    <3>4. CASE Announced(s, t)' = Announced(s, t) /\ faults + 1 <= faults'
      BY <1>2, <1>5, <2>1, <3>1, <3>2, <3>4
    <3> QED
      BY <2>2, <3>3, <3>4
  <2> QED
    BY <2>4, <2>6, <2>7, <2>8 DEF ListenerTold
<1> QED
  BY <1>2, <1>6 DEF AnnouncementsOf

(* An execution that stops before it announces is a fault.                 *)
LEMMA StopAnnounces ==
  ASSUME IInv, [Next]_vars, NEW t \in Tickets, AnnouncementsOf(t), NEW l \in Announcing(t),
         StopExecution(l)
  PROVE  AnnouncementsOf(t)'
<1>1. /\ exec' = [exec EXCEPT ![l] = Idle] /\ UNCHANGED <<history, delivered>>
      /\ faults' = faults + 1 /\ faults \in Nat
  BY DEF StopExecution, IInv, TypeOK
<1>2. /\ Announcing(t)' = Announcing(t) \ {l}
      /\ \A m \in Announcing(t)' : exec'[m] = exec[m]
      /\ Cardinality(Announcing(t)') + 1 = Cardinality(Announcing(t))
      /\ Cardinality(Announcing(t)') \in Nat
      /\ AnnouncersApart(t)'
  BY <1>1, AnnouncerLeaves
<1>3. ASSUME NEW s \in Observed PROVE ListenerTold(s, t)'
  <2>1. /\ ListenerTold(s, t) /\ Announced(s, t)' = Announced(s, t)
        /\ AutoRows(t)' = AutoRows(t)
    BY <1>1 DEF AnnouncementsOf, Announced, AutoRows
  <2>2. \A e \in Announced(s, t) : Behind(t, e.occurredAt)' /\ Recorded(t, e.userId, e.reason)'
    BY <2>1, BehindKept, RecordedKept DEF ListenerTold
  <2>3. \A e \in Announced(s, t) : \A m \in Announcing(t)' : exec'[m].now # e.occurredAt
    BY <1>2, <2>1 DEF ListenerTold
  <2>4. Cardinality(AutoRows(t))
          <= Cardinality(Announced(s, t)) + Cardinality(Announcing(t)') + faults'
    <3>1. Cardinality(AutoRows(t)) \in Nat /\ Cardinality(Announced(s, t)) \in Nat
      BY <2>1, AutoRowsCount, FS_CardinalityType DEF ListenerTold
    <3> QED
      BY <1>1, <1>2, <2>1, <3>1 DEF ListenerTold
  <2> QED
    BY <2>1, <2>2, <2>3, <2>4 DEF ListenerTold
<1> QED
  BY <1>2, <1>3 DEF AnnouncementsOf

-----------------------------------------------------------------------------
LEMMA InitAnnouncements == ASSUME Init PROVE AnnouncementInv
<1>1. faults = 0 /\ \A l \in Lanes : exec[l].pc = "idle"
  BY DEF Init, Idle
<1>2. \A s \in Observed : \A e \in delivered[s] : e.name # "TicketReassigned"
  <2>1. \A t, u, at : CreatedEvent(t, u, at).name # "TicketReassigned"
    BY DEF CreatedEvent, TicketEvent
  <2> QED
    BY <2>1 DEF Init
<1>3. IsFiniteSet({}) /\ Cardinality({}) = 0
  BY FS_EmptySet
<1>4. ASSUME NEW t \in Tickets PROVE AnnouncementsOf(t)
  <2>1. Announcing(t) = {} /\ \A s \in Observed : Announced(s, t) = {}
    BY <1>1, <1>2 DEF Announcing, Announced
  <2>2. AutoRows(t) = {}
    <3>1. history[t] = <<>> \/ \E u \in Users : history[t] = <<AssignmentRow(NULL, u, "MANUAL")>>
      BY DEF Init
    <3>2. {i \in DOMAIN <<>> : <<>>[i].reason # "MANUAL"} = {}
      OBVIOUS
    <3>3. ASSUME NEW u, history[t] = <<AssignmentRow(NULL, u, "MANUAL")>>
          PROVE  \A i \in DOMAIN history[t] : history[t][i].reason = "MANUAL"
      BY <3>3 DEF AssignmentRow
    <3> QED
      BY <3>1, <3>2, <3>3 DEF AutoRows
  <2> QED
    BY <1>1, <1>3, <2>1, <2>2 DEF AnnouncementsOf, AnnouncersApart, ListenerTold
<1> QED
  BY <1>4 DEF AnnouncementInv

LEMMA NextAnnouncements ==
  ASSUME IInv, AnnouncementInv, [Next]_vars
  PROVE  AnnouncementInv'
<1> SUFFICES ASSUME NEW t \in Tickets
             PROVE  AnnouncementsOf(t)'
  BY DEF AnnouncementInv
<1>1. AnnouncementsOf(t)
  BY DEF AnnouncementInv
<1>2. Quiet(t) => AnnouncementsOf(t)'
  BY <1>1, QuietKeeps
<1>3. CASE \E r \in Requests : RequestStep(r) \/ StopRequest(r)
  BY <1>2, <1>3, RequestQuiet
<1>4. ASSUME NEW l \in Lanes, ExecutionStep(l) \/ StopExecution(l) \/ Stall(l)
      PROVE  AnnouncementsOf(t)'
  <2>1. CASE CommitReassignment(l)
    BY <1>1, <1>2, <2>1, CommitQuiet, CommitAnnounces
  <2>2. CASE PublishReassigned(l)
    BY <1>1, <1>2, <2>2, ExecutionQuiet, PublicationAnnounces
  <2>3. CASE StopExecution(l)
    BY <1>1, <1>2, <2>3, ExecutionQuiet, StopAnnounces
  <2>4. CASE PublishBreach(l)
    BY <1>2, <2>4, BreachQuiet
  <2>5. CASE CheckTicket(l) \/ PickAssignee(l) \/ GiveUp(l) \/ LoseRace(l) \/ Stall(l)
    BY <1>2, <2>5, ExecutionQuiet
  <2> QED
    BY <1>4, <2>1, <2>2, <2>3, <2>4, <2>5 DEF ExecutionStep
<1>5. CASE \/ \E w \in Workers : TakeSomeJob(w)
           \/ \E s \in Sweeps : StartSweep(s)
           \/ Tick \/ UNCHANGED vars
  BY <1>2, <1>5, StartQuiet
<1> QED
  BY <1>3, <1>4, <1>5 DEF Next

LEMMA AnnouncementsInvariant == Spec => []AnnouncementInv
<1>1. Init => AnnouncementInv
  BY InitAnnouncements
<1>2. IInv /\ AnnouncementInv /\ [Next]_vars => AnnouncementInv'
  BY NextAnnouncements
<1> QED
  BY <1>1, <1>2, Inductive, PTL DEF Spec

(* Nobody is told of a reassignment that lost the race or was rolled back: *)
(* every announcement has its row in the history, from the commit on.      *)
THEOREM AnnouncedIsTrue == Spec => []AnnouncementsTrue
<1>1. AnnouncementInv => AnnouncementsTrue
  BY DEF AnnouncementInv, AnnouncementsOf, ListenerTold, Recorded, AnnouncementsTrue
<1> QED
  BY <1>1, AnnouncementsInvariant, PTL

(* No announcement is swallowed by an equal one and none is forgotten: the *)
(* reassignments without an announcement are at most the faults.           *)
THEOREM ReassignedIsAnnounced == Spec => []ReassignmentsAnnounced
<1>1. AnnouncementInv => ReassignmentsAnnounced
  BY DEF AnnouncementInv, AnnouncementsOf, ListenerTold, AutoRows, ReassignmentsAnnounced
<1> QED
  BY <1>1, AnnouncementsInvariant, PTL

-----------------------------------------------------------------------------
(* Somebody is the least loaded *)

LEMMA LeastNatural ==
  ASSUME NEW S \in SUBSET Nat, S # {}
  PROVE  \E n \in S : \A m \in S : n <= m
<1>1. \E R : IsWellFoundedOn(R, Nat) /\ \A x, y \in Nat : x < y => <<x, y>> \in R
  <2> DEFINE R == OpToRel(<, Nat)
  <2>1. IsWellFoundedOn(R, Nat)
    BY NatLessThanWellFounded
  <2>2. \A x, y \in Nat : x < y => <<x, y>> \in R
    BY DEF OpToRel
  <2> HIDE DEF R
  <2> QED
    BY <2>1, <2>2, Zenon
<1>2. PICK R : IsWellFoundedOn(R, Nat) /\ \A x, y \in Nat : x < y => <<x, y>> \in R
  BY <1>1
<1>3. PICK n \in S : \A m \in S : ~ (<<m, n>> \in R)
  <2>1. S \subseteq Nat /\ IsWellFoundedOn(R, Nat)
    BY <1>2
  <2> QED
    BY <2>1, WFMin, Zenon
<1>4. ASSUME NEW m \in S PROVE n <= m
  <2>1. n \in Nat /\ m \in Nat /\ ~ (m < n)
    <3>1. m \in Nat /\ n \in Nat
      OBVIOUS
    <3>2. m < n => <<m, n>> \in R
      BY <1>2, <3>1, Zenon
    <3> QED
      BY <1>3, <3>1, <3>2, Zenon
  <2> QED
    BY <2>1
<1> QED
  BY <1>4

Rows == {t \in Tickets : ticket[t] # NULL}

(* The order of loads, ties by id, leaves no choice: the strategy returns  *)
(* one candidate if there are any.                                         *)
LEMMA OneLeastLoaded ==
  ASSUME IsFiniteSet(Rows), NEW row, Candidates(row) # {}
  PROVE  \E u \in Candidates(row) : LeastLoaded(row) = {u}
<1>1. Candidates(row) \subseteq Nat
  BY ParameterAssumption DEF Candidates
<1>2. ASSUME NEW u PROVE OpenCount(u) \in Nat
  <2> DEFINE mine == {t \in Tickets : /\ ticket[t] # NULL
                                      /\ ticket[t].assigneeId = u
                                      /\ IsTicketActive(ticket[t].status)}
  <2>1. mine \in SUBSET Rows
    BY DEF Rows
  <2> HIDE DEF mine
  <2>2. Cardinality(mine) \in Nat
    BY <2>1, FS_Subset, FS_CardinalityType
  <2> QED
    BY <2>2 DEF OpenCount, mine
<1> DEFINE loads == {OpenCount(u) : u \in Candidates(row)}
<1>3. PICK n \in loads : \A m \in loads : n <= m
  <2>1. loads \in SUBSET Nat /\ loads # {}
    BY <1>2
  <2> HIDE DEF loads
  <2> QED
    BY <2>1, LeastNatural
<1> DEFINE least == {u \in Candidates(row) : OpenCount(u) = n}
<1>4. PICK u \in least : \A v \in least : u <= v
  <2>1. least \in SUBSET Nat /\ least # {}
    BY <1>1, <1>3
  <2> HIDE DEF least
  <2> QED
    BY <2>1, LeastNatural
<1>5. ASSUME NEW v \in Candidates(row) PROVE PrecedesInLoad(u, v)
  <2>1. OpenCount(u) = n /\ n <= OpenCount(v) /\ n \in Nat /\ OpenCount(v) \in Nat
    BY <1>2, <1>3, <1>4
  <2>2. OpenCount(v) = n => u <= v
    BY <1>4
  <2> QED
    BY <2>1, <2>2 DEF PrecedesInLoad
<1>6. ASSUME NEW v \in LeastLoaded(row) PROVE v = u
  <2>1. PrecedesInLoad(u, v) /\ PrecedesInLoad(v, u) /\ u \in Nat /\ v \in Nat
    BY <1>1, <1>4, <1>5 DEF LeastLoaded
  <2>2. OpenCount(u) \in Nat /\ OpenCount(v) \in Nat
    BY <1>2
  <2> QED
    BY <2>1, <2>2 DEF PrecedesInLoad
<1> QED
  BY <1>4, <1>5, <1>6 DEF LeastLoaded

(* An execution that finds nobody gives up for want of users and not of    *)
(* an order among them.                                                    *)
LEMMA NobodyToPick ==
  ASSUME IsFiniteSet(Rows), NEW row, NextAssignees(row) = {}
  PROVE  Heirs(row) = {}
<1>1. CASE CapReached(row)
  BY <1>1 DEF NextAssignees, Heirs, Supervisors
<1>2. CASE ~ CapReached(row)
  BY <1>2, OneLeastLoaded DEF NextAssignees, Heirs
<1> QED
  BY <1>1, <1>2

(* The first n elements of a finite set in the order of a key.             *)
LEMMA SortedPrefix ==
  ASSUME NEW S, IsFiniteSet(S), NEW key \in [S -> Nat], NEW n \in 0..Cardinality(S)
  PROVE  \E A \in SUBSET S : /\ Cardinality(A) = n
                             /\ \A a \in A, s \in S \ A : key[a] <= key[s]
<1> DEFINE First(m, A) == /\ Cardinality(A) = m
                          /\ \A a \in A, s \in S \ A : key[a] <= key[s]
           none == {m \in 0..Cardinality(S) : \A A \in SUBSET S : ~ First(m, A)}
<1> SUFFICES ASSUME none # {} PROVE FALSE
  OBVIOUS
<1>1. Cardinality(S) \in Nat
  BY FS_CardinalityType
<1>2. PICK m \in none : \A o \in none : m <= o
  <2>1. none \in SUBSET Nat
    BY <1>1
  <2> HIDE DEF none
  <2> QED
    BY <2>1, LeastNatural
<1>3. m \in 1..Cardinality(S)
  <2>1. First(0, {})
    BY FS_EmptySet
  <2> QED
    BY <1>1, <1>2, <2>1
<1>4. PICK A \in SUBSET S : First(m - 1, A)
  <2>1. m - 1 \in 0..Cardinality(S) /\ ~ (m <= m - 1)
    BY <1>1, <1>3
  <2>2. m - 1 \notin none
    BY <1>2, <2>1
  <2> QED
    BY <2>1, <2>2
<1>5. IsFiniteSet(A) /\ A # S
  BY <1>1, <1>3, <1>4, FS_Subset
<1>6. PICK s \in S \ A : \A o \in S \ A : key[s] <= key[o]
  <2> DEFINE keys == {key[o] : o \in S \ A}
  <2>1. keys \in SUBSET Nat /\ keys # {}
    BY <1>5
  <2> HIDE DEF keys
  <2>2. PICK k \in keys : \A o \in keys : k <= o
    BY <2>1, LeastNatural
  <2> QED
    BY <2>2 DEF keys
<1>7. Cardinality(A \cup {s}) = m
  <2>1. Cardinality(A \cup {s}) = Cardinality(A) + 1
    BY <1>5, <1>6, FS_AddElement
  <2> QED
    BY <1>3, <1>4, <2>1
<1>8. First(m, A \cup {s})
  BY <1>4, <1>6, <1>7
<1>9. A \cup {s} \in SUBSET S
  OBVIOUS
<1> QED
  BY <1>2, <1>8, <1>9

-----------------------------------------------------------------------------
(* Checks: the invariant *)

(* A job falls due one SLA after the activity it expects at the earliest,  *)
(* and an execution runs for a job that is due.  From its check on it      *)
(* holds a snapshot with the activity its job expects.                     *)
RequestsPast == \A r \in Requests : req[r].now <= now

JobsDated == \A job \in jobs : job.expectedLastActivityAt + SLA <= job.due

LaneDated(x) ==
  x.job # NULL =>
    /\ x.job.expectedLastActivityAt + SLA <= x.job.due
    /\ x.job.due <= x.now
    /\ x.pc \in {"pick", "commit"}
         => x.snap.lastActivityAt = x.job.expectedLastActivityAt

ChecksDated ==
  /\ IsFiniteSet(Rows)
  /\ RequestsPast
  /\ JobsDated
  /\ \A l \in Lanes : LaneDated(exec[l])

(* The check of activity at of t is in the queue, or the request or the    *)
(* execution that wrote it will publish an event that programs it, or the  *)
(* execution of its job has not decided yet.                               *)
InQueue(t, at) == \E job \in jobs : job.ticketId = t /\ job.expectedLastActivityAt = at

Requesting(r, t, at) ==
  /\ req[r].pc \in {"written", "publish"}
  /\ req[r].ticketId = t /\ req[r].now = at
  /\ SchedulesCheck(EventOf(req[r]))

Checking(l, t, at) ==
  /\ exec[l].pc \in {"read", "pick", "commit"} /\ exec[l].job # NULL
  /\ exec[l].ticketId = t /\ exec[l].job.expectedLastActivityAt = at

Renewing(l, t, at) ==
  /\ exec[l].pc = "publish" /\ ~ CapReached(exec[l].snap)
  /\ exec[l].ticketId = t /\ exec[l].now = at

CheckComing(t, at) ==
  \/ InQueue(t, at)
  \/ \E r \in Requests : Requesting(r, t, at)
  \/ \E l \in Lanes : Checking(l, t, at) \/ Renewing(l, t, at)

SlaRuns(row) == row # NULL /\ IsTicketActive(row.status) /\ row.slaDueAt # NULL

Covered(t) == CheckComing(t, ticket[t].lastActivityAt) \/ Abandoned(t)

Uncovered == {t \in Tickets : SlaRuns(ticket[t]) /\ ~ Covered(t)}

CheckInv == ChecksDated /\ IsFiniteSet(Uncovered) /\ Cardinality(Uncovered) <= faults

-----------------------------------------------------------------------------
(* The dates of checks under every step *)

LEMMA RowsStayFinite ==
  ASSUME IInv, [Next]_vars, IsFiniteSet(Rows)
  PROVE  IsFiniteSet(Rows)'
<1>1. [Promise!Next]_(Promise!vars) /\ ticket \in [Tickets -> TicketRow \cup {NULL}]
  BY NextRefines DEF IInv, TypeOK
<1>2. ASSUME NEW o \in Tickets, NEW row, ticket' = [ticket EXCEPT ![o] = row]
      PROVE  IsFiniteSet(Rows')
  <2>1. Rows' \in SUBSET (Rows \cup {o}) /\ IsFiniteSet(Rows \cup {o})
    BY <1>1, <1>2, FS_AddElement DEF Rows
  <2> QED
    BY <2>1, FS_Subset
<1>3. CASE UNCHANGED ticket
  BY <1>3 DEF Rows
<1> QED
  BY <1>1, <1>2, <1>3
     DEF Promise!Next, Promise!Tick, Promise!HumanActivity, Promise!RecordManual,
         Promise!AutoReassign, Promise!Escalate, Promise!Reassign, Promise!vars

(* What a publication does to the queue.                                   *)
LEMMA PublicationJobs ==
  ASSUME IInv, NEW e, NEW p, PublishEvent(e, p)
  PROVE  /\ jobs' \in {jobs, jobs \cup {NewJob(p, e.ticketId, e.occurredAt, now + SLA)}}
         /\ (faults' = faults /\ SchedulesCheck(e))
              => NewJob(p, e.ticketId, e.occurredAt, now + SLA) \in jobs'
         /\ faults <= faults' /\ faults' \in Nat
<1>1. PICK failing \in SUBSET FailingSubscribers :
        /\ faults' = faults + Cardinality(failing)
        /\ jobs' = IF "scheduler" \notin failing /\ SchedulesCheck(e)
                     THEN jobs \cup {NewJob(p, e.ticketId, e.occurredAt, now + SLA)}
                     ELSE jobs
  BY DEF PublishEvent
<1>2. IsFiniteSet(failing) /\ Cardinality(failing) \in Nat /\ faults \in Nat
  BY ParameterAssumption, FS_Subset, FS_CardinalityType DEF IInv, TypeOK
<1>3. faults' = faults => failing = {}
  BY <1>1, <1>2, FS_EmptySet
<1> QED
  BY <1>1, <1>2, <1>3

LEMMA PublicationDated ==
  ASSUME IInv, JobsDated, NEW e, NEW p, PublishEvent(e, p),
         e.occurredAt \in Nat, e.occurredAt <= now
  PROVE  JobsDated'
<1>1. now \in Nat /\ SLA \in Nat
  BY ParameterAssumption DEF IInv, TypeOK
<1> DEFINE job == NewJob(p, e.ticketId, e.occurredAt, now + SLA)
<1>2. job.expectedLastActivityAt + SLA <= job.due
  BY <1>1 DEF NewJob
<1>3. jobs' \in {jobs, jobs \cup {job}}
  BY PublicationJobs
<1> HIDE DEF job
<1> QED
  BY <1>2, <1>3 DEF JobsDated

LEMMA EventDates ==
  /\ \A q \in Request : EventOf(q).occurredAt = q.now /\ EventOf(q).ticketId = q.ticketId
  /\ \A x : /\ SlaBreachedEvent(x).occurredAt = x.now
            /\ ReassignedEvent(x).occurredAt = x.now
            /\ ReassignedEvent(x).ticketId = x.ticketId
            /\ ReassignedEvent(x).name = "TicketReassigned"
            /\ ReassignedEvent(x).slaDueAt = NewSlaDueAt(x)
<1>1. ASSUME NEW q \in Request
      PROVE  EventOf(q).occurredAt = q.now /\ EventOf(q).ticketId = q.ticketId
  <2>1. q.kind \in {"create", "comment", "assign", "status"}
    BY DEF Request
  <2> QED
    BY <2>1 DEF EventOf, CreatedEvent, CommentedEvent, AssignedEvent, StatusChangedEvent, TicketEvent
<1>2. \A x : SlaBreachedEvent(x).occurredAt = x.now
  BY DEF SlaBreachedEvent, TicketEvent
<1>3. \A x : /\ ReassignedEvent(x).occurredAt = x.now
             /\ ReassignedEvent(x).ticketId = x.ticketId
             /\ ReassignedEvent(x).name = "TicketReassigned"
             /\ ReassignedEvent(x).slaDueAt = NewSlaDueAt(x)
  BY DEF ReassignedEvent, TicketEvent
<1> QED
  BY <1>1, <1>2, <1>3

LEMMA RequestDated ==
  ASSUME IInv, ChecksDated, NEW r \in Requests, RequestStep(r) \/ StopRequest(r)
  PROVE  RequestsPast' /\ JobsDated' /\ \A l \in Lanes : LaneDated(exec[l])'
<1>1. /\ UNCHANGED <<now, exec>> /\ now \in Nat /\ req \in [Requests -> Request]
      /\ req[r] \in Request /\ req[r].now \in Nat /\ req[r].now <= now
  BY DEF IInv, TypeOK, RequestsTyped, Request, ChecksDated, RequestsPast,
         RequestStep, BeginCreate, InsertTicket, ReadForComment, ReadForAssign, ReadForStatus,
         ReadTicket, TakeInstant, WriteComment, WriteAssign, WriteStatus, UpdateTicket,
         RecordAssignment, PublishRequest, StopRequest
<1>2. \A l \in Lanes : LaneDated(exec[l])'
  BY <1>1 DEF ChecksDated, LaneDated
<1>3. /\ 0 <= now /\ now <= now /\ Finished.now = 0 /\ NewRequest.now = 0
  BY <1>1 DEF Finished, NewRequest
<1>4. ASSUME NEW q, req' = [req EXCEPT ![r] = q], q.now \in {0, req[r].now, now}
      PROVE  RequestsPast'
  <2>1. q.now <= now
    BY <1>1, <1>4, <1>3
  <2>2. \A o \in Requests : req'[o] = q \/ req'[o] = req[o]
    BY <1>1, <1>4
  <2> QED
    BY <1>1, <2>1, <2>2 DEF ChecksDated, RequestsPast
<1>5. CASE PublishRequest(r)
  <2>1. RequestsPast'
    BY <1>4, <1>5, <1>3 DEF PublishRequest
  <2>2. JobsDated'
    <3>1. PublishEvent(EventOf(req[r]), r) /\ EventOf(req[r]).occurredAt = req[r].now
      BY <1>1, <1>5, EventDates DEF PublishRequest
    <3> QED
      BY <1>1, <3>1, PublicationDated DEF ChecksDated
  <2> QED
    BY <1>2, <2>1, <2>2
<1>6. CASE ~ PublishRequest(r)
  <2>1. UNCHANGED jobs
    BY <1>6
       DEF RequestStep, BeginCreate, InsertTicket, ReadForComment, ReadForAssign, ReadForStatus,
           ReadTicket, TakeInstant, WriteComment, WriteAssign, WriteStatus, UpdateTicket,
           RecordAssignment, StopRequest
  <2>2. RequestsPast'
    <3>1. CASE \E t \in Tickets, u \in Users \cup {NULL} : BeginCreate(r, t, u)
      <4>1. PICK t \in Tickets, u \in Users \cup {NULL} : BeginCreate(r, t, u)
        BY <3>1
      <4> DEFINE q == [NewRequest EXCEPT !.pc = "decided", !.kind = "create", !.ticketId = t,
                                         !.assigneeId = u, !.now = now]
      <4>2. q.now = now /\ req' = [req EXCEPT ![r] = q]
        BY <4>1 DEF BeginCreate, NewRequest
      <4> HIDE DEF q
      <4> QED
        BY <1>1, <1>4, <4>2
    <3>2. CASE \/ \E t \in Tickets : ReadForComment(r, t)
               \/ \E t \in Tickets, u \in Users : ReadForAssign(r, t, u)
               \/ \E t \in Tickets, to \in TicketStatus : ReadForStatus(r, t, to)
      <4>1. ASSUME NEW t, NEW q, ReadTicket(r, t, q), q.now = 0
            PROVE  RequestsPast'
        BY <1>4, <4>1 DEF ReadTicket
      <4> QED
        BY <3>2, <4>1 DEF ReadForComment, ReadForAssign, ReadForStatus, NewRequest
    <3>3. CASE TakeInstant(r)
      <4> DEFINE q == [req[r] EXCEPT !.pc = "decided", !.now = now]
      <4>1. q.now = now /\ req' = [req EXCEPT ![r] = q]
        BY <1>1, <3>3 DEF TakeInstant, Request
      <4> HIDE DEF q
      <4> QED
        BY <1>1, <1>4, <4>1
    <3>4. CASE InsertTicket(r) \/ WriteComment(r) \/ WriteAssign(r) \/ WriteStatus(r) \/ RecordAssignment(r)
      <4>1. PICK pc : req' = [req EXCEPT ![r].pc = pc]
        BY <3>4
           DEF InsertTicket, WriteComment, WriteAssign, WriteStatus, UpdateTicket, RecordAssignment
      <4> DEFINE q == [req[r] EXCEPT !.pc = pc]
      <4>2. q.now = req[r].now /\ req' = [req EXCEPT ![r] = q]
        BY <1>1, <4>1 DEF Request
      <4> HIDE DEF q
      <4> QED
        BY <1>1, <1>4, <4>2
    <3>5. CASE StopRequest(r)
      BY <1>4, <1>3, <3>5 DEF StopRequest
    <3> QED
      BY <1>6, <3>1, <3>2, <3>3, <3>4, <3>5 DEF RequestStep
  <2>3. JobsDated'
    BY <2>1 DEF ChecksDated, JobsDated
  <2> QED
    BY <1>2, <2>2, <2>3
<1> QED
  BY <1>5, <1>6

LEMMA LaneUpdate ==
  ASSUME IInv, ChecksDated, NEW l \in Lanes, NEW x, exec' = [exec EXCEPT ![l] = x], LaneDated(x)
  PROVE  \A m \in Lanes : LaneDated(exec[m])'
<1>1. \A m \in Lanes : exec'[m] = x \/ exec'[m] = exec[m]
  BY DEF IInv, TypeOK, ExecutionsTyped
<1> QED
  BY <1>1 DEF ChecksDated, LaneDated

LEMMA ExecutionDated ==
  ASSUME IInv, ChecksDated, NEW l \in Lanes, ExecutionStep(l) \/ StopExecution(l) \/ Stall(l)
  PROVE  RequestsPast' /\ JobsDated' /\ \A m \in Lanes : LaneDated(exec[m])'
<1>1. /\ UNCHANGED <<now, req>> /\ now \in Nat /\ exec \in [Lanes -> Execution]
      /\ exec[l] \in Execution /\ exec[l].now \in Nat /\ exec[l].now <= now
      /\ LaneDated(exec[l])
  BY DEF IInv, TypeOK, ExecutionsTyped, Execution, SnapshotsSound, ChecksDated, ExecutionStep,
         CheckTicket, PickAssignee, GiveUp, CommitReassignment, LoseRace, PublishBreach,
         PublishReassigned, StopExecution, Stall
<1>2. RequestsPast'
  BY <1>1 DEF ChecksDated, RequestsPast
<1>3. JobsDated'
  <2>1. CASE GiveUp(l) \/ PublishBreach(l) \/ PublishReassigned(l)
    BY <1>1, <2>1, EventDates, PublicationDated
       DEF GiveUp, PublishBreach, PublishReassigned, ChecksDated
  <2>2. CASE jobs' = jobs \/ (exec[l].job # NULL /\ jobs' = jobs \cup {exec[l].job})
    BY <1>1, <2>2 DEF ChecksDated, JobsDated, LaneDated
  <2> QED
    BY <2>1, <2>2
       DEF ExecutionStep, CheckTicket, PickAssignee, CommitReassignment, LoseRace,
           StopExecution, Stall
<1>4. \A m \in Lanes : LaneDated(exec[m])'
  <2>1. LaneDated(Idle)
    BY DEF LaneDated, Idle
  <2>2. CASE exec' = [exec EXCEPT ![l] = Idle]
    BY <2>1, <2>2, LaneUpdate
  <2>3. CASE UNCHANGED exec
    BY <2>3 DEF ChecksDated, LaneDated
  <2>4. CASE CheckTicket(l)
    <3>1. CASE ~ NeedsReassignment(exec[l], ticket[exec[l].ticketId])
      BY <2>2, <2>4, <3>1 DEF CheckTicket
    <3>2. CASE NeedsReassignment(exec[l], ticket[exec[l].ticketId])
      <4> DEFINE x == [exec[l] EXCEPT !.pc = "pick", !.snap = ticket[exec[l].ticketId]]
      <4>1. /\ x.job = exec[l].job /\ x.now = exec[l].now
            /\ x.snap = ticket[exec[l].ticketId] /\ exec' = [exec EXCEPT ![l] = x]
        BY <1>1, <2>4, <3>2 DEF CheckTicket, Execution
      <4> HIDE DEF x
      <4>2. LaneDated(x)
        BY <1>1, <3>2, <4>1 DEF LaneDated, NeedsReassignment, StillExpected
      <4> QED
        BY <4>1, <4>2, LaneUpdate
    <3> QED BY <3>1, <3>2
  <2>5. CASE PickAssignee(l)
    <3>1. PICK u : exec' = [exec EXCEPT ![l].pc = "commit", ![l].toUserId = u]
      BY <2>5 DEF PickAssignee
    <3> DEFINE x == [exec[l] EXCEPT !.pc = "commit", !.toUserId = u]
    <3>2. /\ x.job = exec[l].job /\ x.now = exec[l].now /\ x.snap = exec[l].snap
          /\ exec[l].pc = "pick" /\ exec' = [exec EXCEPT ![l] = x]
      BY <1>1, <2>5, <3>1 DEF Execution, PickAssignee
    <3> HIDE DEF x
    <3>3. LaneDated(x)
      BY <1>1, <3>2 DEF LaneDated
    <3> QED
      BY <3>2, <3>3, LaneUpdate
  <2>6. CASE CommitReassignment(l)
    <3>1. PICK x : /\ exec' = [exec EXCEPT ![l] = x] /\ x.pc \in {"breach", "publish"}
                   /\ x.now = exec[l].now /\ x.job = exec[l].job
      BY <2>6, CommitLane
    <3> QED
      BY <1>1, <3>1, LaneUpdate DEF LaneDated
  <2>7. CASE PublishBreach(l)
    <3> DEFINE x == [exec[l] EXCEPT !.pc = "publish"]
    <3>1. /\ x.job = exec[l].job /\ x.now = exec[l].now /\ x.pc = "publish"
          /\ exec' = [exec EXCEPT ![l] = x]
      BY <1>1, <2>7 DEF Execution, PublishBreach
    <3> HIDE DEF x
    <3> QED
      BY <1>1, <3>1, LaneUpdate DEF LaneDated
  <2> QED
    BY <2>2, <2>3, <2>4, <2>5, <2>6, <2>7
       DEF ExecutionStep, GiveUp, LoseRace, PublishReassigned, StopExecution, Stall
<1> QED
  BY <1>2, <1>3, <1>4

LEMMA StartDated ==
  ASSUME IInv, ChecksDated,
         \/ \E w \in Workers : TakeSomeJob(w)
         \/ \E s \in Sweeps : StartSweep(s)
         \/ Tick \/ UNCHANGED vars
  PROVE  RequestsPast' /\ JobsDated' /\ \A m \in Lanes : LaneDated(exec[m])'
<1>1. /\ jobs' \subseteq jobs /\ UNCHANGED req /\ now \in Nat /\ now' \in Nat /\ now <= now'
      /\ \A r \in Requests : req[r].now \in Nat /\ req[r].now <= now
  BY DEF IInv, TypeOK, RequestsTyped, Request, ChecksDated, RequestsPast,
         TakeSomeJob, TakeJob, StartSweep, Sweep, Tick, vars
<1>2. RequestsPast' /\ JobsDated'
  BY <1>1 DEF ChecksDated, RequestsPast, JobsDated
<1>3. \A t, job : Start(t, job).pc = "read" /\ Start(t, job).now = now /\ Start(t, job).job = job
  BY DEF Start, Idle
<1>4. ASSUME NEW w \in Workers, NEW job \in jobs, TakeJob(w, job)
      PROVE  \A m \in Lanes : LaneDated(exec[m])'
  <2>1. LaneDated(Start(job.ticketId, job)) /\ w \in Lanes
    BY <1>3, <1>4 DEF LaneDated, TakeJob, ChecksDated, JobsDated, Lanes
  <2> QED
    BY <1>4, <2>1, LaneUpdate DEF TakeJob
<1>5. ASSUME NEW s \in Sweeps, NEW batch \in SUBSET OverdueTickets, Sweep(s, batch)
      PROVE  \A m \in Lanes : LaneDated(exec[m])'
  <2>1. \A m \in Lanes : exec'[m] = Start(m[2], NULL) \/ exec'[m] = exec[m]
    BY <1>5 DEF Sweep
  <2> QED
    BY <1>3, <2>1 DEF ChecksDated, LaneDated
<1>6. ASSUME UNCHANGED exec PROVE \A m \in Lanes : LaneDated(exec[m])'
  <2>1. \A m \in Lanes : LaneDated(exec[m])
    BY DEF ChecksDated
  <2> QED
    BY <1>6, <2>1 DEF LaneDated
<1> QED
  BY <1>2, <1>4, <1>5, <1>6 DEF TakeSomeJob, StartSweep, Tick, vars

LEMMA NextDated ==
  ASSUME IInv, ChecksDated, [Next]_vars
  PROVE  ChecksDated'
<1>1. IsFiniteSet(Rows)'
  BY RowsStayFinite DEF ChecksDated
<1>2. RequestsPast' /\ JobsDated' /\ \A m \in Lanes : LaneDated(exec[m])'
  BY RequestDated, ExecutionDated, StartDated DEF Next
<1> QED
  BY <1>1, <1>2 DEF ChecksDated

-----------------------------------------------------------------------------
(* Who may disturb the check that is coming *)

LEMMA JobLeaves ==
  ASSUME IInv, [Next]_vars, NEW job \in jobs, job \notin jobs'
  PROVE  \E w \in Workers : TakeJob(w, job)
<1>1. ASSUME NEW e, NEW p, PublishEvent(e, p) PROVE FALSE
  BY <1>1, PublicationJobs
<1>2. \A r \in Requests : ~ RequestStep(r) /\ ~ StopRequest(r)
  BY <1>1
     DEF RequestStep, BeginCreate, InsertTicket, ReadForComment, ReadForAssign, ReadForStatus,
         ReadTicket, TakeInstant, WriteComment, WriteAssign, WriteStatus, UpdateTicket,
         RecordAssignment, PublishRequest, StopRequest
<1>3. \A l \in Lanes : ~ ExecutionStep(l) /\ ~ StopExecution(l) /\ ~ Stall(l)
  BY <1>1
     DEF ExecutionStep, CheckTicket, PickAssignee, GiveUp, CommitReassignment, LoseRace,
         PublishBreach, PublishReassigned, StopExecution, Stall
<1>4. ~ Tick /\ ~ UNCHANGED vars /\ \A s \in Sweeps : ~ StartSweep(s)
  BY DEF Tick, vars, StartSweep, Sweep
<1>5. PICK w \in Workers, other \in jobs : TakeJob(w, other)
  BY <1>2, <1>3, <1>4 DEF Next, TakeSomeJob
<1> QED
  BY <1>5 DEF TakeJob

LEMMA RequestMoves ==
  ASSUME IInv, [Next]_vars, NEW r \in Requests, req'[r] # req[r]
  PROVE  RequestStep(r) \/ StopRequest(r)
<1>1. req \in [Requests -> Request]
  BY DEF IInv, TypeOK, RequestsTyped
<1>2. PICK o \in Requests : RequestStep(o) \/ StopRequest(o)
  BY DEF Next, vars, ExecutionStep, CheckTicket, PickAssignee, GiveUp, CommitReassignment,
         LoseRace, PublishBreach, PublishReassigned, StopExecution, Stall, TakeSomeJob, TakeJob,
         StartSweep, Sweep, Tick
<1>3. PICK q : req' = [req EXCEPT ![o] = q]
  BY <1>2
     DEF RequestStep, BeginCreate, InsertTicket, ReadForComment, ReadForAssign, ReadForStatus,
         ReadTicket, TakeInstant, WriteComment, WriteAssign, WriteStatus, UpdateTicket,
         RecordAssignment, PublishRequest, StopRequest
<1>4. o = r
  BY <1>1, <1>3
<1> QED
  BY <1>2, <1>4

LEMMA ExecutionMoves ==
  ASSUME IInv, [Next]_vars, NEW l \in Lanes, exec'[l] # exec[l], exec[l].pc # "idle"
  PROVE  ExecutionStep(l) \/ StopExecution(l)
<1>1. exec \in [Lanes -> Execution]
  BY DEF IInv, TypeOK, ExecutionsTyped
<1>2. \A r \in Requests : ~ RequestStep(r) /\ ~ StopRequest(r)
  BY DEF RequestStep, BeginCreate, InsertTicket, ReadForComment, ReadForAssign, ReadForStatus,
         ReadTicket, TakeInstant, WriteComment, WriteAssign, WriteStatus, UpdateTicket,
         RecordAssignment, PublishRequest, StopRequest
<1>3. \A w \in Workers : ~ TakeSomeJob(w)
  BY <1>1 DEF TakeSomeJob, TakeJob
<1>4. ASSUME NEW s \in Sweeps, NEW batch \in SUBSET OverdueTickets, Sweep(s, batch)
      PROVE  FALSE
  <2>1. l \in {s} \X batch
    BY <1>4 DEF Sweep
  <2> QED
    BY <1>4, <2>1 DEF Sweep, OverdueTickets
<1>5. PICK o \in Lanes : ExecutionStep(o) \/ StopExecution(o) \/ Stall(o)
  BY <1>2, <1>3, <1>4 DEF Next, StartSweep, Tick, vars
<1>6. ~ Stall(o)
  BY DEF Stall
<1>7. PICK x : exec' = [exec EXCEPT ![o] = x]
  <2>1. CASE PickAssignee(o)
    <3>1. PICK u : exec' = [exec EXCEPT ![o].pc = "commit", ![o].toUserId = u]
      BY <2>1 DEF PickAssignee
    <3> QED
      BY <3>1
  <2>2. CASE ~ PickAssignee(o)
    BY <1>5, <1>6, <2>2
       DEF ExecutionStep, CheckTicket, GiveUp, CommitReassignment, LoseRace, PublishBreach,
           PublishReassigned, StopExecution
  <2> QED
    BY <2>1, <2>2
<1>8. o = l
  BY <1>1, <1>7
<1> QED
  BY <1>5, <1>6, <1>8

(* The number of faults never falls, and a step that leaves it as it is    *)
(* stops nobody.                                                           *)
LEMMA Faultless ==
  ASSUME IInv, [Next]_vars
  PROVE  /\ faults \in Nat /\ faults' \in Nat /\ faults <= faults'
         /\ faults' = faults =>
              /\ \A r \in Requests : ~ StopRequest(r)
              /\ \A l \in Lanes : ~ StopExecution(l) /\ ~ Stall(l)
<1>1. faults \in Nat
  BY DEF IInv, TypeOK
<1>2. faults' = faults =>
        /\ \A r \in Requests : ~ StopRequest(r)
        /\ \A l \in Lanes : ~ StopExecution(l) /\ ~ Stall(l)
  BY <1>1 DEF StopRequest, StopExecution, Stall
<1>3. (\E e, p : PublishEvent(e, p)) \/ faults' = faults \/ faults' = faults + 1
  BY DEF Next, RequestStep, BeginCreate, InsertTicket, ReadForComment, ReadForAssign,
         ReadForStatus, ReadTicket, TakeInstant, WriteComment, WriteAssign, WriteStatus,
         UpdateTicket, RecordAssignment, PublishRequest, StopRequest, ExecutionStep,
         CheckTicket, PickAssignee, GiveUp, CommitReassignment, LoseRace, PublishBreach,
         PublishReassigned, StopExecution, Stall, TakeSomeJob, TakeJob, StartSweep, Sweep,
         Tick, vars
<1> QED
  BY <1>1, <1>2, <1>3, PublicationJobs

(* The tickets of the request and of the executions under way that move in *)
(* a step.  There is one of them at the most: a fault concerns one ticket. *)
Touched(t) ==
  \/ \E r \in Requests : req'[r] # req[r] /\ req[r].ticketId = t
  \/ \E l \in Lanes : exec'[l] # exec[l] /\ exec[l].pc # "idle" /\ exec[l].ticketId = t

LEMMA OneTouched ==
  ASSUME IInv, [Next]_vars
  PROVE  \E o : \A t \in Tickets : Touched(t) => t = o
<1>1. req \in [Requests -> Request] /\ exec \in [Lanes -> Execution]
  BY DEF IInv, TypeOK, RequestsTyped, ExecutionsTyped
<1>2. ASSUME NEW r \in Requests, NEW q, req' = [req EXCEPT ![r] = q], UNCHANGED exec,
             NEW t, Touched(t)
      PROVE  t = req[r].ticketId
  BY <1>1, <1>2 DEF Touched
<1>3. ASSUME NEW l \in Lanes, NEW x, exec' = [exec EXCEPT ![l] = x], UNCHANGED req,
             NEW t, Touched(t)
      PROVE  t = exec[l].ticketId
  BY <1>1, <1>3 DEF Touched
<1>4. ASSUME UNCHANGED req, \A l \in Lanes : exec'[l] = exec[l] \/ exec[l].pc = "idle",
             NEW t, Touched(t)
      PROVE  FALSE
  BY <1>4 DEF Touched
<1>5. CASE \E r \in Requests : RequestStep(r) \/ StopRequest(r)
  <2>1. PICK r \in Requests : RequestStep(r) \/ StopRequest(r)
    BY <1>5
  <2>2. UNCHANGED exec /\ \E q : req' = [req EXCEPT ![r] = q]
    BY <2>1
       DEF RequestStep, BeginCreate, InsertTicket, ReadForComment, ReadForAssign,
           ReadForStatus, ReadTicket, TakeInstant, WriteComment, WriteAssign, WriteStatus,
           UpdateTicket, RecordAssignment, PublishRequest, StopRequest
  <2> QED
    BY <1>2, <2>2
<1>6. CASE \E l \in Lanes : ExecutionStep(l) \/ StopExecution(l) \/ Stall(l)
  <2>1. PICK l \in Lanes : ExecutionStep(l) \/ StopExecution(l) \/ Stall(l)
    BY <1>6
  <2>2. CASE Stall(l)
    BY <1>4, <2>2 DEF Stall
  <2>3. CASE ~ Stall(l)
    <3>1. UNCHANGED req /\ \E x : exec' = [exec EXCEPT ![l] = x]
      <4>1. CASE PickAssignee(l)
        <5>1. PICK u : exec' = [exec EXCEPT ![l].pc = "commit", ![l].toUserId = u]
          BY <4>1 DEF PickAssignee
        <5> QED
          BY <4>1, <5>1 DEF PickAssignee
      <4>2. CASE ~ PickAssignee(l)
        BY <2>1, <2>3, <4>2
           DEF ExecutionStep, CheckTicket, GiveUp, CommitReassignment, LoseRace, PublishBreach,
               PublishReassigned, StopExecution
      <4> QED
        BY <4>1, <4>2
    <3> QED
      BY <1>3, <3>1
  <2> QED
    BY <2>2, <2>3
<1>7. CASE \E w \in Workers : TakeSomeJob(w)
  BY <1>1, <1>4, <1>7 DEF TakeSomeJob, TakeJob
<1>8. CASE \E s \in Sweeps : StartSweep(s)
  <2>1. PICK s \in Sweeps, batch \in SUBSET OverdueTickets : Sweep(s, batch)
    BY <1>8 DEF StartSweep
  <2>2. ASSUME NEW l \in Lanes, l \in {s} \X batch PROVE exec[l].pc = "idle"
    BY <2>1, <2>2 DEF Sweep, OverdueTickets
  <2> QED
    BY <1>4, <2>1, <2>2 DEF Sweep
<1>9. CASE Tick \/ UNCHANGED vars
  BY <1>4, <1>9 DEF Tick, vars
<1> QED
  BY <1>5, <1>6, <1>7, <1>8, <1>9 DEF Next

-----------------------------------------------------------------------------
(* The check that is coming keeps coming while the row stays *)

LEMMA QueueKept ==
  ASSUME IInv, [Next]_vars, NEW t \in Tickets, NEW at, InQueue(t, at)
  PROVE  CheckComing(t, at)'
<1>1. PICK job \in jobs : job.ticketId = t /\ job.expectedLastActivityAt = at
  BY DEF InQueue
<1>2. CASE job \in jobs'
  BY <1>1, <1>2 DEF CheckComing, InQueue
<1>3. CASE job \notin jobs'
  <2>1. PICK w \in Workers : TakeJob(w, job)
    BY <1>3, JobLeaves
  <2>2. exec'[w] = Start(t, job) /\ w \in Lanes
    BY <1>1, <2>1 DEF TakeJob, IInv, TypeOK, ExecutionsTyped, Lanes
  <2>3. job # NULL
    BY NullIsNoJob DEF IInv, TypeOK
  <2>4. Checking(w, t, at)'
    BY <1>1, <2>2, <2>3 DEF Checking, Start, Idle
  <2> QED
    BY <2>2, <2>4 DEF CheckComing
<1> QED
  BY <1>2, <1>3

LEMMA SameRequestEvent ==
  ASSUME NEW q \in Request, NEW pc
  PROVE  LET p == [q EXCEPT !.pc = pc] IN
         /\ p.pc = pc /\ p.ticketId = q.ticketId /\ p.now = q.now /\ p.kind = q.kind
         /\ p.to = q.to /\ EventOf(p) = EventOf(q)
<1> DEFINE p == [q EXCEPT !.pc = pc]
<1>1. /\ p.pc = pc /\ p.ticketId = q.ticketId /\ p.now = q.now /\ p.kind = q.kind
      /\ p.to = q.to /\ p.assigneeId = q.assigneeId
  BY DEF Request
<1> HIDE DEF p
<1>2. EventOf(p) = EventOf(q)
  BY <1>1 DEF EventOf, CreatedEvent, CommentedEvent, AssignedEvent, StatusChangedEvent
<1> QED
  BY <1>1, <1>2 DEF p

LEMMA RequestingKept ==
  ASSUME IInv, [Next]_vars, NEW t \in Tickets, faults' = faults \/ ~ Touched(t), NEW at,
         NEW r \in Requests, Requesting(r, t, at)
  PROVE  CheckComing(t, at)'
<1>1. req[r] \in Request /\ req \in [Requests -> Request]
  BY DEF IInv, TypeOK, RequestsTyped
<1>2. CASE req'[r] = req[r]
  BY <1>2 DEF Requesting, CheckComing
<1>3. CASE req'[r] # req[r]
  <2>1. faults' = faults /\ RequestStep(r) /\ req[r].pc \in {"written", "publish"}
    BY <1>3, RequestMoves, Faultless DEF Requesting, Touched
  <2>2. RecordAssignment(r) \/ PublishRequest(r)
    BY <2>1
       DEF RequestStep, BeginCreate, InsertTicket, ReadForComment, ReadForAssign,
           ReadForStatus, ReadTicket, TakeInstant, WriteComment, WriteAssign, WriteStatus,
           UpdateTicket
  <2>3. CASE RecordAssignment(r)
    <3> DEFINE q == [req[r] EXCEPT !.pc = "publish"]
    <3>1. req'[r] = q
      BY <1>1, <2>3 DEF RecordAssignment
    <3>2. /\ q.pc = "publish" /\ q.ticketId = req[r].ticketId /\ q.now = req[r].now
          /\ EventOf(q) = EventOf(req[r])
      BY <1>1, SameRequestEvent
    <3> HIDE DEF q
    <3>3. Requesting(r, t, at)'
      BY <3>1, <3>2 DEF Requesting
    <3> QED
      BY <3>3 DEF CheckComing
  <2>4. CASE PublishRequest(r)
    <3> DEFINE e == EventOf(req[r])
               job == NewJob(r, e.ticketId, e.occurredAt, now + SLA)
    <3>1. PublishEvent(e, r) /\ SchedulesCheck(e) /\ e.ticketId = t /\ e.occurredAt = at
      BY <1>1, <2>4, EventDates DEF PublishRequest, Requesting
    <3>2. job \in jobs' /\ job.ticketId = t /\ job.expectedLastActivityAt = at
      <4> HIDE DEF e
      <4> QED BY <2>1, <3>1, PublicationJobs DEF NewJob
    <3> HIDE DEF e, job
    <3> QED
      BY <3>2 DEF CheckComing, InQueue
  <2> QED
    BY <2>2, <2>3, <2>4
<1> QED
  BY <1>2, <1>3

LEMMA RenewingKept ==
  ASSUME IInv, [Next]_vars, NEW t \in Tickets, faults' = faults \/ ~ Touched(t), NEW at,
         NEW l \in Lanes, Renewing(l, t, at)
  PROVE  CheckComing(t, at)'
<1>1. CASE exec'[l] = exec[l]
  BY <1>1 DEF Renewing, CheckComing, CapReached
<1>2. CASE exec'[l] # exec[l]
  <2>1. faults' = faults /\ ExecutionStep(l) /\ exec[l].pc = "publish"
    BY <1>2, ExecutionMoves, Faultless DEF Renewing, Touched
  <2>2. PublishReassigned(l)
    BY <2>1
       DEF ExecutionStep, CheckTicket, PickAssignee, GiveUp, CommitReassignment, LoseRace,
           PublishBreach
  <2> DEFINE e == ReassignedEvent(exec[l])
             job == NewJob(l, e.ticketId, e.occurredAt, now + SLA)
  <2>3. exec[l].now \in Nat
    BY DEF IInv, TypeOK, ExecutionsTyped, Execution
  <2>4. NewSlaDueAt(exec[l]) # NULL
    BY <2>3, NullAssumption, ParameterAssumption DEF Renewing, NewSlaDueAt, ComputeSlaDueAt
  <2>5. PublishEvent(e, l) /\ SchedulesCheck(e) /\ e.ticketId = t /\ e.occurredAt = at
    BY <2>2, <2>4, EventDates DEF PublishReassigned, SchedulesCheck, Renewing
  <2>6. job \in jobs' /\ job.ticketId = t /\ job.expectedLastActivityAt = at
    <3> HIDE DEF e
    <3> QED BY <2>1, <2>5, PublicationJobs DEF NewJob
  <2> HIDE DEF e, job
  <2> QED
    BY <2>6 DEF CheckComing, InQueue
<1> QED
  BY <1>1, <1>2

LEMMA ClockAdvances == ASSUME IInv, [Next]_vars PROVE now' \in Nat /\ now <= now'
<1>1. [Promise!Next]_(Promise!vars) /\ now \in Nat
  BY NextRefines DEF IInv, TypeOK
<1> QED
  BY <1>1
     DEF Promise!Next, Promise!Tick, Promise!HumanActivity, Promise!RecordManual,
         Promise!AutoReassign, Promise!Escalate, Promise!Reassign, Promise!vars

LEMMA AbandonedKept ==
  ASSUME IInv, [Next]_vars, NEW t \in Tickets, ticket'[t] = ticket[t], SlaRuns(ticket[t]),
         Abandoned(t)
  PROVE  Abandoned(t)'
<1>1. now \in Nat /\ now' \in Nat /\ now <= now'
  BY ClockAdvances DEF IInv, TypeOK
<1>2. ticket[t].slaDueAt \in Nat
  BY DEF IInv, TypeOK, SlaRuns, TicketRow
<1> QED
  BY <1>1, <1>2 DEF Abandoned, IsOverdue, Heirs, CapReached, Candidates

(* The execution of a job that is due finds the row it was programmed for, *)
(* overdue, and takes it as far as its commit unless nobody may have it.   *)
LEMMA CheckingKept ==
  ASSUME IInv, ChecksDated, [Next]_vars, NEW t \in Tickets,
         faults' = faults \/ ~ Touched(t), ticket'[t] = ticket[t], SlaRuns(ticket[t]),
         NEW at, at = ticket[t].lastActivityAt, NEW l \in Lanes, Checking(l, t, at)
  PROVE  CheckComing(t, at)' \/ Abandoned(t)'
<1>1. /\ exec[l] \in Execution /\ exec \in [Lanes -> Execution] /\ now \in Nat
      /\ exec[l].now \in Nat /\ exec[l].now <= now /\ SLA \in Nat
      /\ ticket \in [Tickets -> TicketRow \cup {NULL}]
      /\ ticket[t] \in TicketRow /\ at \in Nat /\ ticket[t].slaDueAt = at + SLA
      /\ exec[l].ticketId = t /\ exec[l].job \in Job /\ exec[l].job.due \in Nat
      /\ exec[l].job.expectedLastActivityAt = at
  BY ParameterAssumption
     DEF IInv, TypeOK, ExecutionsTyped, Execution, SnapshotsSound, SlaRuns, RowsDated, Checking,
         TicketRow, Job
<1>2. CASE exec'[l] = exec[l]
  BY <1>2 DEF Checking, CheckComing
<1>3. CASE exec'[l] # exec[l]
  <2>1. ExecutionStep(l) /\ exec[l].pc \in {"read", "pick", "commit"}
    BY <1>3, ExecutionMoves, Faultless DEF Checking, Touched
  <2>2. at + SLA <= exec[l].now
    BY <1>1 DEF ChecksDated, LaneDated, Checking
  <2>3. exec[l].pc \in {"pick", "commit"} => exec[l].snap = ticket[t]
    <3> SUFFICES ASSUME exec[l].pc \in {"pick", "commit"}
                 PROVE  exec[l].snap = ticket[t]
      OBVIOUS
    <3>1. exec[l].snap.lastActivityAt = at
      BY <1>1 DEF ChecksDated, LaneDated, Checking
    <3>2. SnapshotSound(exec[l], ticket[t])
      BY <1>1 DEF IInv, SnapshotsSound
    <3> QED
      BY <1>1, <3>1, <3>2 DEF SnapshotSound
  <2>4. CASE CheckTicket(l)
    <3>1. NeedsReassignment(exec[l], ticket[t])
      BY <1>1, <2>2 DEF NeedsReassignment, StillExpected, IsOverdue, SlaRuns
    <3>2. exec'[l] = [exec[l] EXCEPT !.pc = "pick", !.snap = ticket[t]]
      BY <1>1, <2>4, <3>1 DEF CheckTicket
    <3>3. /\ exec'[l].pc = "pick" /\ exec'[l].job = exec[l].job
          /\ exec'[l].ticketId = exec[l].ticketId
      BY <1>1, <3>2 DEF Execution
    <3>4. Checking(l, t, at)'
      BY <3>3 DEF Checking
    <3> QED
      BY <3>4 DEF CheckComing
  <2>5. CASE PickAssignee(l)
    <3>1. PICK u : exec'[l] = [exec[l] EXCEPT !.pc = "commit", !.toUserId = u]
      BY <1>1, <2>5 DEF PickAssignee
    <3>2. /\ exec'[l].pc = "commit" /\ exec'[l].job = exec[l].job
          /\ exec'[l].ticketId = exec[l].ticketId
      BY <1>1, <3>1 DEF Execution
    <3>3. Checking(l, t, at)'
      BY <3>2 DEF Checking
    <3> QED
      BY <3>3 DEF CheckComing
  <2>6. CASE GiveUp(l)
    <3>1. exec[l].snap = ticket[t] /\ NextAssignees(ticket[t]) = {} /\ now' = now
      BY <2>3, <2>6 DEF GiveUp
    <3>2. Heirs(ticket[t]) = {}
      BY <3>1, NobodyToPick DEF ChecksDated
    <3>3. IsOverdue(ticket[t], now)
      BY <1>1, <2>2 DEF IsOverdue, SlaRuns
    <3> QED
      BY <3>1, <3>2, <3>3 DEF Abandoned, Heirs, CapReached, Candidates, IsOverdue
  <2>7. CASE CommitReassignment(l)
    <3>1. ticket'[t] = ReassignedRow(exec[l], ticket[t])
      BY <1>1, <2>7 DEF CommitReassignment
    <3>2. ticket'[t].autoReassignCount = ticket[t].autoReassignCount + 1
      BY <1>1, <3>1 DEF ReassignedRow, TicketRow
    <3> QED
      BY <1>1, <3>2 DEF TicketRow
  <2>8. CASE LoseRace(l)
    BY <1>1, <2>3, <2>8 DEF LoseRace, GuardHolds, SlaRuns
  <2> QED
    BY <2>1, <2>4, <2>5, <2>6, <2>7, <2>8 DEF ExecutionStep, PublishBreach, PublishReassigned
<1> QED
  BY <1>2, <1>3

-----------------------------------------------------------------------------
(* A new row brings the check of its activity along *)

LEMMA RowMoves ==
  ASSUME IInv, [Next]_vars, NEW t \in Tickets, ticket'[t] # ticket[t]
  PROVE  \/ \E r \in Requests :
              /\ req[r].ticketId = t
              /\ InsertTicket(r) \/ WriteComment(r) \/ WriteAssign(r) \/ WriteStatus(r)
         \/ \E l \in Lanes : exec[l].ticketId = t /\ CommitReassignment(l)
<1>1. ticket \in [Tickets -> TicketRow \cup {NULL}]
  BY DEF IInv, TypeOK
<1>2. ASSUME NEW o, NEW row, ticket' = [ticket EXCEPT ![o] = row]
      PROVE  o = t
  BY <1>1, <1>2
<1>3. ASSUME NEW r \in Requests, RequestStep(r) \/ StopRequest(r)
      PROVE  /\ req[r].ticketId = t
             /\ InsertTicket(r) \/ WriteComment(r) \/ WriteAssign(r) \/ WriteStatus(r)
  <2>1. InsertTicket(r) \/ WriteComment(r) \/ WriteAssign(r) \/ WriteStatus(r)
    BY <1>3
       DEF RequestStep, BeginCreate, ReadForComment, ReadForAssign, ReadForStatus, ReadTicket,
           TakeInstant, RecordAssignment, PublishRequest, StopRequest
  <2>2. PICK row : ticket' = [ticket EXCEPT ![req[r].ticketId] = row]
    BY <2>1 DEF InsertTicket, WriteComment, WriteAssign, WriteStatus, UpdateTicket
  <2> QED
    BY <1>2, <2>1, <2>2
<1>4. ASSUME NEW l \in Lanes, ExecutionStep(l) \/ StopExecution(l) \/ Stall(l)
      PROVE  exec[l].ticketId = t /\ CommitReassignment(l)
  <2>1. CommitReassignment(l)
    BY <1>4
       DEF ExecutionStep, CheckTicket, PickAssignee, GiveUp, LoseRace, PublishBreach,
           PublishReassigned, StopExecution, Stall
  <2>2. PICK row : ticket' = [ticket EXCEPT ![exec[l].ticketId] = row]
    BY <2>1 DEF CommitReassignment
  <2> QED
    BY <1>2, <2>1, <2>2
<1> QED
  BY <1>3, <1>4 DEF Next, TakeSomeJob, TakeJob, StartSweep, Sweep, Tick, vars

LEMMA WriteCovers ==
  ASSUME IInv, NEW t \in Tickets, NEW r \in Requests, req[r].ticketId = t,
         InsertTicket(r) \/ WriteComment(r) \/ WriteAssign(r) \/ WriteStatus(r),
         SlaRuns(ticket'[t]), NEW at, at = ticket'[t].lastActivityAt
  PROVE  Requesting(r, t, at)'
<1>1. /\ req[r] \in Request /\ req \in [Requests -> Request]
      /\ ticket \in [Tickets -> TicketRow \cup {NULL}] /\ req[r].pc = "decided"
  BY DEF IInv, TypeOK, RequestsTyped, InsertTicket, WriteComment, WriteAssign, WriteStatus,
         UpdateTicket
<1>2. ticket'[t].lastActivityAt = req[r].now
  <2>1. CASE InsertTicket(r)
    BY <1>1, <2>1 DEF InsertTicket, CreatedRow
  <2>2. CASE ~ InsertTicket(r)
    <3>1. ticket[t] \in TicketRow
      BY <1>1, <2>2
         DEF IInv, TypeOK, TicketsKnown, Inserting, WriteComment, WriteAssign, WriteStatus,
             UpdateTicket
    <3> QED
      BY <1>1, <2>2, <3>1 DEF WriteComment, WriteAssign, WriteStatus, UpdateTicket, TicketRow
  <2> QED
    BY <2>1, <2>2
<1>3. PICK pc \in {"written", "publish"} : req' = [req EXCEPT ![r].pc = pc]
  BY DEF InsertTicket, AfterInsert, WriteComment, WriteAssign, WriteStatus, UpdateTicket
<1> DEFINE q == [req[r] EXCEPT !.pc = pc]
<1>4. /\ q.pc = pc /\ q.ticketId = t /\ q.now = req[r].now
      /\ EventOf(q) = EventOf(req[r])
  BY <1>1, SameRequestEvent
<1>5. req'[r] = q
  BY <1>1, <1>3
<1>6. SchedulesCheck(EventOf(req[r]))
  <2>1. CASE req[r].kind # "status"
    BY <1>1, <2>1
       DEF Request, EventOf, CreatedEvent, CommentedEvent, AssignedEvent, TicketEvent,
           SchedulesCheck
  <2>2. CASE req[r].kind = "status"
    <3>1. WriteStatus(r)
      BY <2>2 DEF InsertTicket, WriteComment, WriteAssign, WriteStatus, UpdateTicket
    <3>2. ticket[t] \in TicketRow
      BY <1>1, <2>2 DEF IInv, TypeOK, TicketsKnown, Inserting
    <3>3. ticket'[t].status = req[r].to
      BY <1>1, <3>1, <3>2 DEF WriteStatus, UpdateTicket, TicketRow
    <3>4. IsTicketActive(req[r].to)
      BY <3>3 DEF SlaRuns
    <3> QED
      BY <2>2, <3>4 DEF EventOf, StatusChangedEvent, TicketEvent, SchedulesCheck
  <2> QED
    BY <2>1, <2>2
<1> HIDE DEF q
<1> QED
  BY <1>2, <1>3, <1>4, <1>5, <1>6 DEF Requesting

LEMMA CommitCovers ==
  ASSUME IInv, NEW t \in Tickets, NEW l \in Lanes, exec[l].ticketId = t,
         CommitReassignment(l), SlaRuns(ticket'[t]), NEW at, at = ticket'[t].lastActivityAt
  PROVE  Renewing(l, t, at)'
<1>1. /\ exec[l] \in Execution /\ exec \in [Lanes -> Execution]
      /\ ticket \in [Tickets -> TicketRow \cup {NULL}] /\ ticket[t] \in TicketRow
  BY DEF IInv, TypeOK, ExecutionsTyped, TicketsKnown, CommitReassignment
<1>2. ticket'[t] = ReassignedRow(exec[l], ticket[t])
  BY <1>1 DEF CommitReassignment
<1>3. ticket'[t].lastActivityAt = exec[l].now /\ ticket'[t].slaDueAt = NewSlaDueAt(exec[l])
  BY <1>1, <1>2 DEF ReassignedRow, TicketRow
<1>4. ~ CapReached(exec[l].snap)
  BY <1>3 DEF SlaRuns, NewSlaDueAt
<1>5. exec'[l] = [exec[l] EXCEPT !.pc = "publish"]
  BY <1>1, <1>4 DEF CommitReassignment
<1>6. /\ exec'[l].pc = "publish" /\ exec'[l].snap = exec[l].snap
      /\ exec'[l].ticketId = exec[l].ticketId /\ exec'[l].now = exec[l].now
  BY <1>1, <1>5 DEF Execution
<1> QED
  BY <1>3, <1>4, <1>6 DEF Renewing, CapReached

LEMMA CheckKeepsComing ==
  ASSUME IInv, ChecksDated, [Next]_vars, NEW t \in Tickets, faults' = faults \/ ~ Touched(t),
         SlaRuns(ticket'[t]), SlaRuns(ticket[t]) => Covered(t),
         NEW at, at = ticket'[t].lastActivityAt
  PROVE  CheckComing(t, at)' \/ Abandoned(t)'
<1>1. CASE ticket'[t] = ticket[t]
  <2>1. CheckComing(t, at) \/ Abandoned(t)
    BY <1>1 DEF Covered
  <2>2. CASE Abandoned(t)
    BY <1>1, <2>2, AbandonedKept
  <2>3. CASE InQueue(t, at)
    BY <2>3, QueueKept
  <2>4. CASE \E r \in Requests : Requesting(r, t, at)
    BY <2>4, RequestingKept
  <2>5. CASE \E l \in Lanes : Checking(l, t, at)
    BY <1>1, <2>5, CheckingKept
  <2>6. CASE \E l \in Lanes : Renewing(l, t, at)
    BY <2>6, RenewingKept
  <2>7. InQueue(t, at) \/ (\E r \in Requests : Requesting(r, t, at))
        \/ (\E l \in Lanes : Checking(l, t, at)) \/ (\E l \in Lanes : Renewing(l, t, at))
        \/ Abandoned(t)
    BY <2>1 DEF CheckComing
  <2> QED
    BY <2>2, <2>3, <2>4, <2>5, <2>6, <2>7
<1>2. CASE ticket'[t] # ticket[t]
  <2>1. CASE \E r \in Requests :
               /\ req[r].ticketId = t
               /\ InsertTicket(r) \/ WriteComment(r) \/ WriteAssign(r) \/ WriteStatus(r)
    <3>1. \E r \in Requests : Requesting(r, t, at)'
      BY <2>1, WriteCovers
    <3> QED
      BY <3>1 DEF CheckComing
  <2>2. CASE \E l \in Lanes : exec[l].ticketId = t /\ CommitReassignment(l)
    <3>1. \E l \in Lanes : Renewing(l, t, at)'
      BY <2>2, CommitCovers
    <3> QED
      BY <3>1 DEF CheckComing
  <2> QED
    BY <1>2, <2>1, <2>2, RowMoves
<1> QED
  BY <1>1, <1>2

LEMMA NextCovers ==
  ASSUME IInv, ChecksDated, [Next]_vars, NEW t \in Tickets, faults' = faults \/ ~ Touched(t),
         t \in Uncovered'
  PROVE  t \in Uncovered
<1>1. ASSUME SlaRuns(ticket'[t]), SlaRuns(ticket[t]) => Covered(t),
             NEW at, at = ticket'[t].lastActivityAt
      PROVE  CheckComing(t, at)' \/ Abandoned(t)'
  BY <1>1, CheckKeepsComing
<1>2. SlaRuns(ticket'[t]) /\ ~ Covered(t)'
  BY DEF Uncovered, SlaRuns
<1>3. ~ (SlaRuns(ticket[t]) => Covered(t))
  <2> SUFFICES ASSUME SlaRuns(ticket[t]) => Covered(t)
               PROVE  FALSE
    OBVIOUS
  <2>1. ASSUME NEW at, at = ticket'[t].lastActivityAt
        PROVE  CheckComing(t, at)' \/ Abandoned(t)'
    BY <1>1, <1>2, <2>1
  <2>2. Covered(t)'
    BY <2>1 DEF Covered, CheckComing, InQueue, Requesting, Checking, Renewing
  <2> QED
    BY <1>2, <2>2
<1> QED
  BY <1>3 DEF Uncovered

LEMMA NextChecks == ASSUME IInv, CheckInv, [Next]_vars PROVE CheckInv'
<1>1. ChecksDated /\ ChecksDated' /\ IsFiniteSet(Uncovered) /\ Cardinality(Uncovered) <= faults
  BY NextDated DEF CheckInv
<1>2. faults \in Nat /\ faults' \in Nat /\ faults <= faults'
  BY Faultless
<1>3. PICK o : \A t \in Tickets : Touched(t) => t = o
  BY OneTouched
<1>4. Uncovered' \in SUBSET (Uncovered \cup {o})
  <2>1. \A t \in Tickets : t \in Uncovered' => t \in Uncovered \/ t = o
    BY <1>1, <1>3, NextCovers
  <2>2. Uncovered' \subseteq Tickets
    BY DEF Uncovered
  <2> QED
    BY <2>1, <2>2
<1>5. faults' = faults => Uncovered' \in SUBSET Uncovered
  <2>1. faults' = faults => \A t \in Tickets : t \in Uncovered' => t \in Uncovered
    BY <1>1, NextCovers
  <2>2. Uncovered' \subseteq Tickets
    BY DEF Uncovered
  <2> QED
    BY <2>1, <2>2
<1>6. /\ IsFiniteSet(Uncovered') /\ Cardinality(Uncovered') \in Nat
      /\ Cardinality(Uncovered) \in Nat
      /\ Cardinality(Uncovered') <= Cardinality(Uncovered) + 1
      /\ faults' = faults => Cardinality(Uncovered') <= Cardinality(Uncovered)
  <2>1. /\ IsFiniteSet(Uncovered \cup {o}) /\ Cardinality(Uncovered) \in Nat
        /\ Cardinality(Uncovered \cup {o}) <= Cardinality(Uncovered) + 1
    <3>1. /\ IsFiniteSet(Uncovered \cup {o})
          /\ Cardinality(Uncovered \cup {o})
               = IF o \in Uncovered THEN Cardinality(Uncovered) ELSE Cardinality(Uncovered) + 1
      BY <1>1, FS_AddElement
    <3>2. Cardinality(Uncovered) \in Nat
      BY <1>1, FS_CardinalityType
    <3> QED
      BY <3>1, <3>2
  <2>2. /\ IsFiniteSet(Uncovered') /\ Cardinality(Uncovered') \in Nat
        /\ Cardinality(Uncovered') <= Cardinality(Uncovered \cup {o})
        /\ Cardinality(Uncovered \cup {o}) \in Nat
    BY <1>4, <2>1, FS_Subset, FS_CardinalityType
  <2>3. faults' = faults => Cardinality(Uncovered') <= Cardinality(Uncovered)
    BY <1>1, <1>5, FS_Subset
  <2> QED
    BY <2>1, <2>2, <2>3
<1>7. Cardinality(Uncovered') <= faults'
  BY <1>1, <1>2, <1>6
<1> QED
  BY <1>1, <1>6, <1>7 DEF CheckInv

LEMMA InitChecks == ASSUME Init PROVE CheckInv
<1>1. PICK assignee \in [Preexisting -> Users \cup {NULL}] :
        ticket = [t \in Tickets |-> IF t \in Preexisting
                                      THEN CreatedRow(assignee[t], 0) ELSE NULL]
  BY DEF Init
<1>2. jobs = {NewJob(NULL, t, 0, SLA) : t \in Preexisting} /\ SLA \in Nat
  BY ParameterAssumption DEF Init
<1>3. IsFiniteSet(Rows)
  <2>1. Rows \in SUBSET Preexisting
    BY <1>1 DEF Rows
  <2> QED
    BY <2>1, ParameterAssumption, FS_Subset
<1>4. RequestsPast /\ \A l \in Lanes : LaneDated(exec[l])
  BY DEF Init, RequestsPast, LaneDated, NewRequest, Idle
<1>5. JobsDated
  BY <1>2 DEF JobsDated, NewJob
<1>6. ASSUME NEW t \in Tickets, SlaRuns(ticket[t]) PROVE Covered(t)
  <2>1. t \in Preexisting
    BY <1>1, <1>6 DEF SlaRuns
  <2>2. NewJob(NULL, t, 0, SLA) \in jobs /\ ticket[t].lastActivityAt = 0
    BY <1>1, <1>2, <2>1 DEF CreatedRow
  <2> QED
    BY <2>2 DEF Covered, CheckComing, InQueue, NewJob
<1>7. Uncovered = {} /\ faults = 0
  BY <1>6 DEF Uncovered, Init
<1> QED
  BY <1>3, <1>4, <1>5, <1>7, FS_EmptySet DEF CheckInv, ChecksDated

(* A ticket whose SLA runs has a check of its present activity queued,     *)
(* running or about to be programmed, unless one ran and found nobody to   *)
(* hand it to; all but as many tickets as there were faults, whatever the  *)
(* interleaving of writes, publications, executions and races.             *)
THEOREM ChecksAlwaysComing == Spec => []ChecksCoverTickets
<1>1. Init => CheckInv
  BY InitChecks
<1>2. IInv /\ CheckInv /\ [Next]_vars => CheckInv'
  BY NextChecks
<1>3. IInv /\ CheckInv => ChecksCoverTickets
  <2> SUFFICES ASSUME IInv, CheckInv PROVE Cardinality(Unchecked) <= faults
    BY DEF ChecksCoverTickets
  <2>1. Unchecked \in SUBSET Uncovered
    BY DEF Unchecked, Uncovered, SlaRuns, Covered, CheckComing, CheckPending, InQueue,
           Requesting, Checking, Renewing
  <2>2. /\ Cardinality(Unchecked) <= Cardinality(Uncovered) /\ Cardinality(Unchecked) \in Nat
        /\ Cardinality(Uncovered) \in Nat /\ Cardinality(Uncovered) <= faults /\ faults \in Nat
    BY <2>1, FS_Subset, FS_CardinalityType DEF CheckInv, IInv, TypeOK
  <2> QED
    BY <2>2
<1> QED
  BY <1>1, <1>2, <1>3, Inductive, PTL DEF Spec

-----------------------------------------------------------------------------
(* What the workers choose from *)

SweepUnblocked ==
  (OverdueTickets # {} /\ SweepLimit > 0)
    => \E batch \in SUBSET OverdueTickets : batch # {} /\ IsBatch(batch)

LEMMA RowsAlwaysFinite == Spec => []IsFiniteSet(Rows)
<1>1. Init => IsFiniteSet(Rows)
  BY InitChecks DEF CheckInv, ChecksDated
<1>2. IInv /\ IsFiniteSet(Rows) /\ [Next]_vars => IsFiniteSet(Rows)'
  BY RowsStayFinite
<1> QED
  BY <1>1, <1>2, Inductive, PTL DEF Spec

(* Whatever the due dates and their ties, a sweep that finds overdue       *)
(* tickets has a batch to start with: findOverdue returns the first of     *)
(* them in the order of due dates and never nothing.                       *)
THEOREM SweepFindsBatch == Spec => []SweepUnblocked
<1>1. IInv /\ IsFiniteSet(Rows) => SweepUnblocked
  <2> SUFFICES ASSUME IInv, IsFiniteSet(Rows), OverdueTickets # {}, SweepLimit > 0
               PROVE  \E batch \in SUBSET OverdueTickets : batch # {} /\ IsBatch(batch)
    BY DEF SweepUnblocked
  <2> DEFINE S == OverdueTickets
             key == [t \in S |-> ticket[t].slaDueAt]
             n == IF Cardinality(S) <= SweepLimit THEN Cardinality(S) ELSE SweepLimit
  <2>1. S \in SUBSET Rows
    BY DEF OverdueTickets, Rows
  <2>2. key \in [S -> Nat]
    BY DEF IInv, TypeOK, TicketRow, OverdueTickets, IsOverdue
  <2>3. IsFiniteSet(S) /\ Cardinality(S) \in Nat /\ Cardinality(S) # 0
    <3> HIDE DEF S
    <3>1. IsFiniteSet(S)
      BY <2>1, FS_Subset
    <3> QED
      BY <3>1, FS_CardinalityType, FS_EmptySet DEF S
  <2>4. n \in 0..Cardinality(S) /\ n # 0
    BY <2>3, ParameterAssumption
  <2>5. PICK A \in SUBSET S : /\ Cardinality(A) = n
                              /\ \A a \in A, s \in S \ A : key[a] <= key[s]
    <3> HIDE DEF S, key, n
    <3> QED
      BY <2>2, <2>3, <2>4, SortedPrefix
  <2>6. A # {}
    BY <2>4, <2>5, FS_EmptySet
  <2>7. IsBatch(A)
    BY <2>5 DEF IsBatch
  <2> QED
    BY <2>6, <2>7
<1> QED
  BY <1>1, RowsAlwaysFinite, Inductive, PTL
=============================================================================
