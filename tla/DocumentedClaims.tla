-------------------------- MODULE DocumentedClaims --------------------------
(***************************************************************************)
(* Claims that the repository's own words make and that the code does not   *)
(* keep when requests, workers and stopped processes interleave.            *)
(***************************************************************************)
EXTENDS TicketReassignment

(* ticket.entity.ts:46: a CLOSED ticket is terminal.  change-status.usecase *)
(* checks the transition on a snapshot and writes the status unguarded.     *)
ClosedIsTerminal ==
  [][\A t \in Tickets :
       (ticket[t] # NULL /\ ticket[t].status = "CLOSED") => ticket'[t].status = "CLOSED"]_vars

(* prompt.md:75: the assignments are a complete audit of who had the ticket. *)
(* When no assignment is half-way, the last row names the assignee.         *)
HalfAssigned(t) ==
  \E r \in Requests : req[r].pc = "written" /\ req[r].ticketId = t

AuditTrailComplete ==
  \A t \in Tickets :
    (/\ ticket[t] # NULL
     /\ ticket[t].assigneeId # NULL
     /\ ~ HalfAssigned(t)) =>
       /\ history[t] # <<>>
       /\ history[t][Len(history[t])].toUserId = ticket[t].assigneeId

(* reassignment.job.ts:24-25: the sweep guarantees that no overdue ticket   *)
(* goes unreviewed although its job is lost.                                *)
UnderReview(t) ==
  \E l \in Lanes : exec[l].pc # "idle" /\ exec[l].ticketId = t

SweepReviewsAll ==
  \A t \in Tickets : t \in OverdueTickets ~> (t \notin OverdueTickets \/ UnderReview(t))
=============================================================================
