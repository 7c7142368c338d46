------------------------- MODULE TimelyReassignment -------------------------
(***************************************************************************)
(* The correctness properties of TicketReassignment, under the assumption   *)
(* they rest on: a request writes less than one SLA after the instant it    *)
(* writes.  The SLA is minutes and a request is one database round trip.    *)
(***************************************************************************)
EXTENDS TicketReassignment

ASSUME LatencyAssumption == RequestLatency < SLA

-----------------------------------------------------------------------------
(* A request that has read or taken its id knows its ticket, and one that   *)
(* records an assignment knows to whom.                                     *)
RequestsTyped ==
  /\ req \in [Requests -> Request]
  /\ \A r \in Requests :
       /\ req[r].pc \notin {"new", "done"} => req[r].ticketId # NULL
       /\ req[r].pc = "written" => req[r].assigneeId # NULL
       /\ req[r].kind = "assign" => req[r].assigneeId # NULL

(* An execution has a row from its checks on, a user from its choice on.    *)
ExecutionsTyped ==
  /\ exec \in [Lanes -> Execution]
  /\ \A l \in Lanes :
       /\ exec[l].pc # "idle" => exec[l].ticketId # NULL
       /\ exec[l].pc \notin {"idle", "read"} => exec[l].snap # NULL
       /\ exec[l].pc \in {"commit", "breach", "publish"} => exec[l].toUserId # NULL

(* Rows do not vanish: the ticket a request read or inserted, and the one   *)
(* an execution checked, are still there.                                   *)
Inserting(q) == q.kind = "create" /\ q.pc = "decided"

TicketsKnown ==
  /\ \A r \in Requests :
       (req[r].pc \notin {"new", "done"} /\ ~ Inserting(req[r]))
         => ticket[req[r].ticketId] # NULL
  /\ \A l \in Lanes :
       exec[l].pc \notin {"idle", "read"} => ticket[exec[l].ticketId] # NULL

(* The state of every table, queue, request and execution is well formed:   *)
(* nothing is written, recorded or committed for a missing ticket or user.  *)
TypeOK ==
  /\ now \in Nat
  /\ ticket \in [Tickets -> TicketRow \cup {NULL}]
  /\ history \in [Tickets -> Seq(Assignment)]
  /\ jobs \subseteq Job
  /\ delivered \in [Observed -> SUBSET Event]
  /\ faults \in Nat
  /\ RequestsTyped
  /\ ExecutionsTyped
  /\ TicketsKnown

(* The automatic reassignment of t happens in this step.                    *)
Reassigned(t) ==
  /\ ticket[t] # NULL
  /\ ticket'[t].autoReassignCount # ticket[t].autoReassignCount

(* commitAutoReassignment promises that it acts only if nobody did (ticket. *)
(* repository.ts:41-50).  Its guard compares one column and the status; the *)
(* claim is that this is enough: at the instant of the commit the row is    *)
(* active and overdue, however old the snapshot of the execution is.        *)
ReassignsOnlyOverdue ==
  [][\A t \in Tickets : Reassigned(t) => IsOverdue(ticket[t], now)]_vars

(* Two workers do not reassign the same ticket for one lapse (reassign-     *)
(* ticket.usecase.ts:30-32): an automatic reassignment moves the activity   *)
(* of the row at least one whole SLA forward.                               *)
ReassignmentsSpaced ==
  [][\A t \in Tickets :
       Reassigned(t) => ticket'[t].lastActivityAt >= ticket[t].lastActivityAt + SLA]_vars

(* The history of an automatic reassignment tells the truth: fromUserId     *)
(* comes from a snapshot, and still is the assignee the row had.            *)
AutoHistoryTrue ==
  [][\A t \in Tickets :
       Reassigned(t) =>
         LET row == history'[t][Len(history'[t])] IN
         /\ row.reason # "MANUAL"
         /\ row.fromUserId = ticket[t].assigneeId
         /\ row.toUserId = ticket'[t].assigneeId]_vars

AutoReassignments(t) ==
  {i \in DOMAIN history[t] : history[t][i].reason = "AUTO_REASSIGN"}

(* A ticket is reassigned automatically at most MaxAutoReassignments times  *)
(* in its life (reassign-ticket.usecase.ts:68), although the count that is  *)
(* compared was read two awaits before the commit.                          *)
CapRespected ==
  \A t \in Tickets : Cardinality(AutoReassignments(t)) <= MaxAutoReassignments

(* Some check of the present activity of t is scheduled, running or about   *)
(* to be scheduled by whoever wrote the row.                                *)
CheckPending(t) ==
  LET at == ticket[t].lastActivityAt IN
  \/ \E job \in jobs : job.ticketId = t /\ job.expectedLastActivityAt = at
  \/ \E r \in Requests : /\ req[r].pc \in {"written", "publish"}
                         /\ req[r].ticketId = t /\ req[r].now = at
  \/ \E l \in Lanes : /\ exec[l].pc \in {"read", "pick", "commit"}
                      /\ exec[l].job # NULL
                      /\ exec[l].ticketId = t /\ exec[l].job.expectedLastActivityAt = at
  \/ \E l \in Lanes : /\ exec[l].pc \in {"breach", "publish"}
                      /\ exec[l].ticketId = t /\ exec[l].now = at

(* The users an execution may hand a ticket to, whatever the loads are.     *)
Heirs(row) == IF CapReached(row) THEN Admins ELSE Candidates(row)

(* A check of t already ran and found nobody to hand it to.                 *)
Abandoned(t) == IsOverdue(ticket[t], now) /\ Heirs(ticket[t]) = {}

(* The tickets whose SLA runs and that only a sweep will find: no check of  *)
(* their present activity is coming, and none ran and found nobody.         *)
Unchecked ==
  {t \in Tickets : /\ ticket[t] # NULL
                   /\ IsTicketActive(ticket[t].status)
                   /\ ticket[t].slaDueAt # NULL
                   /\ ~ CheckPending(t)
                   /\ ~ Abandoned(t)}

(* The last job programmed for a ticket is the one in force (reassignment-  *)
(* scheduler.subscriber.ts:15-18), in whatever order the writes and the     *)
(* publications of concurrent requests and workers fall: while nothing      *)
(* fails every ticket whose SLA runs has its check coming, and each fault   *)
(* costs at most one ticket its own.  Only a ticket that nobody can take    *)
(* loses it otherwise (reassign-ticket.usecase.ts:72-77).                   *)
ChecksCoverTickets == Cardinality(Unchecked) <= faults

(* Every automatic reassignment is announced to each observed listener, or  *)
(* an execution is about to; what is missing was lost to a fault, for the   *)
(* bus retries nothing and its publisher never learns of it.                *)
Announced(s, t) ==
  {e \in delivered[s] : e.name = "TicketReassigned" /\ e.ticketId = t}

Announcing(t) ==
  {l \in Lanes : exec[l].pc \in {"breach", "publish"} /\ exec[l].ticketId = t}

ReassignmentsAnnounced ==
  \A s \in Observed, t \in Tickets :
    Cardinality({i \in DOMAIN history[t] : history[t][i].reason # "MANUAL"})
      <= Cardinality(Announced(s, t)) + Cardinality(Announcing(t)) + faults

(* What is announced happened: nobody is told of a ticket whose             *)
(* reassignment lost the race or was rolled back (event-bus.ts is called    *)
(* only after the commit, reassign-ticket.usecase.ts:90-92).                *)
AnnouncementsTrue ==
  \A s \in Observed, t \in Tickets : \A e \in Announced(s, t) :
    \E i \in DOMAIN history[t] :
      history[t][i].toUserId = e.userId /\ history[t][i].reason = e.reason

(* The lapse of t that began with its activity at instant at.               *)
OverdueSince(t, at) ==
  /\ ticket[t] # NULL /\ IsOverdue(ticket[t], now)
  /\ ticket[t].lastActivityAt = at

(* No overdue ticket is forgotten (README.md:46): each lapse ends, although *)
(* deferred jobs are lost and processes stop.                               *)
EveryLapseEnds ==
  \A t \in Tickets, at \in 0..MaxTime : OverdueSince(t, at) ~> ~ OverdueSince(t, at)

-----------------------------------------------------------------------------
(* Why those properties hold *)

(* A due date is one SLA after the activity of its row.                     *)
RowsDated ==
  \A t \in Tickets : ticket[t] # NULL =>
    /\ ticket[t].lastActivityAt <= now
    /\ ticket[t].slaDueAt \in {NULL, ticket[t].lastActivityAt + SLA}

(* The instant a request is about to write is recent.                       *)
RequestsTimely ==
  \A r \in Requests : req[r].pc = "decided" =>
    req[r].now <= now /\ now <= req[r].now + RequestLatency

(* The snapshot of an execution was overdue at its instant, and the row has *)
(* either not changed at all since or has a later activity: the activity    *)
(* alone tells whether the snapshot is stale.                               *)
SnapshotSound(x, row) ==
  /\ IsOverdue(x.snap, x.now)
  /\ x.snap.slaDueAt = x.snap.lastActivityAt + SLA
  /\ row = x.snap \/ row.lastActivityAt > x.snap.lastActivityAt
  /\ x.pc = "commit" => x.toUserId \in Heirs(x.snap)

SnapshotsSound ==
  \A l \in Lanes :
    /\ exec[l].now <= now
    /\ exec[l].pc \in {"pick", "commit"} =>
         SnapshotSound(exec[l], ticket[exec[l].ticketId])

IInv == TypeOK /\ RowsDated /\ RequestsTimely /\ SnapshotsSound

-----------------------------------------------------------------------------
(* Requests and workers together implement the promise of SlaPromise, with  *)
(* the clock, the table and the history seen as they are.                   *)
Promise == INSTANCE SlaPromise WITH
  now <- now, ticket <- ticket, history <- history

PromiseSpec == Promise!Spec
=============================================================================
